------------------------------- MODULE AuditLog -------------------------------
(***************************************************************************)
(* What the audit trail promises: the decisions since it was last emptied, *)
(* newest first, of which a bounded number is remembered; a reader obtains *)
(* as many of the newest as it asks for and there are.  LoxAudit           *)
(* implements this specification with a ring.                              *)
(***************************************************************************)
EXTENDS Naturals, Sequences, FiniteSetsExt

CONSTANTS Entries, Capacities, Requests

VARIABLES
    open,      \* the trail can be read and emptied
    capacity,  \* how many decisions are remembered
    recent,    \* the decisions, newest first
    answer     \* what the last reader obtained

logVars == <<open, capacity, recent, answer>>

First(n, s) == SubSeq(s, 1, Min({n, Len(s)}))

LogInit == ~open /\ capacity = 0 /\ recent = <<>> /\ answer = <<>>

(* The trail starts anew, closed or open; nothing of before is remembered. *)
Restart(n) ==
    /\ open' \in BOOLEAN
    /\ capacity' = n
    /\ recent' = <<>>
    /\ UNCHANGED answer

Shut == open' = FALSE /\ UNCHANGED <<capacity, recent, answer>>

Append1(d) ==
    /\ open
    /\ recent' = First(capacity, <<d>> \o recent)
    /\ UNCHANGED <<open, capacity, answer>>

Empty == open /\ recent' = <<>> /\ UNCHANGED <<open, capacity, answer>>

Read(n) ==
    /\ open
    /\ answer' = First(n, recent)
    /\ UNCHANGED <<open, capacity, recent>>

LogNext ==
    \/ \E n \in Capacities : Restart(n)
    \/ Shut
    \/ \E d \in Entries : Append1(d)
    \/ Empty
    \/ \E n \in Requests : Read(n)

LogSpec == LogInit /\ [][LogNext]_logVars

=============================================================================
