------------------------------- MODULE LoxAudit -------------------------------
(***************************************************************************)
(* The audit trail (LOXBUDGET_ENABLE_AUDIT_TRAIL): the ring in which       *)
(* loxbudget_audit_record_ of src/loxbudget_core.c keeps the decisions of  *)
(* loxbudget_check, and the two calls of src/loxbudget_audit.c that read   *)
(* and clear it.  Each of the three does its work inside one critical      *)
(* section and is one step.  A loxbudget_decision_record_t is an opaque    *)
(* value here.                                                             *)
(***************************************************************************)
EXTENDS Integers, Sequences, FiniteSetsExt

CONSTANTS
    Decisions,     \* decision records
    ZeroRecord,    \* a cleared record
    AuditSizes,    \* values of cfg->audit_size
    MaxRecords     \* values of the reader's max_records

(* loxbudget_is_pow2_or_zero_u8_, by which loxbudget_validate_init_args_   *)
(* refuses a configuration before anything is written.                     *)
IsPow2OrZero(v) == v \in {0, 1, 2, 4, 8, 16, 32, 64, 128}

ASSUME AuditAssumption ==
    /\ ZeroRecord \notin Decisions
    /\ AuditSizes \subseteq 0 .. 255
    /\ MaxRecords \subseteq Nat

VARIABLES
    magic,        \* budget->magic = LOXBUDGET_MAGIC_INIT
    audit_size,   \* budget->audit_size
    audit_head,   \* budget->audit_head
    audit_count,  \* budget->audit_count
    ring,         \* the records in the storage
    out           \* the reader's buffer, as far as out_count says

vars == <<magic, audit_size, audit_head, audit_count, ring, out>>

(* & (audit_size - 1): for a power of two, the only sizes loxbudget_init   *)
(* accepts, what is left modulo audit_size.                                *)
Mask(x) == x % audit_size

Cleared(n) == [i \in 0 .. n - 1 |-> ZeroRecord]

TypeOK ==
    /\ magic \in BOOLEAN
    /\ audit_size \in AuditSizes \cup {0} /\ IsPow2OrZero(audit_size)
    /\ audit_head = 0 \/ audit_head \in 0 .. audit_size - 1
    /\ audit_count \in 0 .. audit_size
    /\ magic => ring \in [0 .. audit_size - 1 -> Decisions \cup {ZeroRecord}]
    /\ out \in Seq(Decisions)

-----------------------------------------------------------------------------

Init ==
    /\ magic = FALSE
    /\ audit_size = 0 /\ audit_head = 0 /\ audit_count = 0
    /\ ring = <<>> /\ out = <<>>

(* loxbudget_init: the ring of the configured size is empty and zeroed. *)
InitOk(n) ==
    /\ IsPow2OrZero(n)
    /\ magic' = TRUE
    /\ audit_size' = n /\ audit_head' = 0 /\ audit_count' = 0
    /\ ring' = Cleared(n)
    /\ UNCHANGED out

(* loxbudget_init with too little storage. *)
InitNoSpace ==
    /\ magic' = FALSE
    /\ audit_size' = 0 /\ audit_head' = 0 /\ audit_count' = 0
    /\ UNCHANGED <<ring, out>>

Deinit ==
    /\ magic
    /\ magic' = FALSE
    /\ UNCHANGED <<audit_size, audit_head, audit_count, ring, out>>

(* Mutant: the count passes the size. *)
BugCount == IF audit_count <= audit_size THEN audit_count + 1 ELSE audit_count

(* The count saturates at the size of the ring. *)
CountAfter ==
    IF audit_count < audit_size THEN audit_count + 1 ELSE audit_count

(* loxbudget_audit_record_, on every return of loxbudget_check with a decision. *)
AuditRecord(d) ==
    /\ magic
    /\ audit_size # 0
    /\ ring' = [ring EXCEPT ![audit_head] = d]
    /\ audit_head' = Mask(audit_head + 1)
    /\ audit_count' = CountAfter
    /\ UNCHANGED <<magic, audit_size, out>>

(* loxbudget_audit_clear. *)
AuditClear ==
    /\ magic
    /\ audit_size # 0
    /\ audit_head' = 0 /\ audit_count' = 0
    /\ ring' = Cleared(audit_size)
    /\ UNCHANGED <<magic, audit_size, out>>

(* Mutant: reading starts at the head instead of before it. *)
BugPlace(i) == Mask(audit_head + 1 - i)

(* The place of the i-th newest record, counting from 1. *)
Place(i) == Mask(audit_head - i)

(* The n newest records. *)
Newest(n) == [i \in 1 .. n |-> ring[Place(i)]]

(* loxbudget_audit_get_recent: nothing if there is no ring. *)
AuditGetRecent(n) ==
    /\ magic
    /\ out' = IF audit_size = 0 THEN <<>>
              ELSE Newest(IF n < audit_count THEN n ELSE audit_count)
    /\ UNCHANGED <<magic, audit_size, audit_head, audit_count, ring>>

Next ==
    \/ \E n \in AuditSizes : InitOk(n)
    \/ InitNoSpace
    \/ Deinit
    \/ \E d \in Decisions : AuditRecord(d)
    \/ AuditClear
    \/ \E n \in MaxRecords : AuditGetRecent(n)

Spec == Init /\ [][Next]_vars

-----------------------------------------------------------------------------

(* The ring is a log of the newest decisions: after any number of records, *)
(* wraps, clears and new inits, loxbudget_audit_get_recent returns the     *)
(* latest ones, newest first, none twice, none from before a clear, and    *)
(* never a zeroed record.                                                  *)
Log == INSTANCE AuditLog
         WITH Entries <- Decisions, Capacities <- AuditSizes \cup {0},
              Requests <- MaxRecords,
              open <- magic, capacity <- audit_size, answer <- out,
              recent <- Newest(audit_count)

ImplementsLog == Log!LogSpec

=============================================================================
