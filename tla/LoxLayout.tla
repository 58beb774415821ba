------------------------------ MODULE LoxLayout ------------------------------
(***************************************************************************)
(* The storage layout: where loxbudget_init puts each table in the buffer  *)
(* the application supplies, where src/loxbudget_causality.c looks for its *)
(* own, and what LOXBUDGET_REQUIRED_SIZE tells the application to supply.  *)
(* The three are computed separately and must agree for every              *)
(* configuration and every build.                                          *)
(*                                                                         *)
(* All of it is uint32_t arithmetic on counts of eight bits and stays far  *)
(* below 2^32.  Sizes are those of the static assertions.                  *)
(***************************************************************************)
EXTENDS Integers

(* A build: LOXBUDGET_MAX_LEASES, MAX_NEEDS_PER_OP, CAUSALITY_MAX_EDGES,   *)
(* the size of a calibration slot in words (a static assertion makes it    *)
(* the size of a struct of words) and the LOXBUDGET_ENABLE switches.       *)
Builds == [max_leases : Nat \ {0}, max_needs : Nat, max_edges : Nat,
           calib_words : Nat, rate : BOOLEAN, calibration : BOOLEAN,
           causality : BOOLEAN]

(* What loxbudget_validate_init_args_ lets through; that a ring's size is  *)
(* a power of two plays no part here.                                      *)
Configs(b) == [resources : Nat \ {0}, ops : Nat \ {0},
               leases : 1 .. b.max_leases, audit : Nat]

(* LOXBUDGET_ALIGN_UP and lb__align_up_ at four: a mask of two bits. *)
AlignUp(v) == v + 3 - ((v + 3) % 4)

-----------------------------------------------------------------------------
(* loxbudget_init: the offset of each table, and the size it demands. *)

ResourcesOff       == AlignUp(32)
OpsOff(c)          == AlignUp(ResourcesOff + c.resources * 12)
NeedsOff(c)        == AlignUp(OpsOff(c) + c.ops * 8)
LeaseSlotsOff(b, c) == AlignUp(NeedsOff(c) + c.ops * b.max_needs * 4)
AuditOff(b, c)     == AlignUp(LeaseSlotsOff(b, c) + c.leases * 4)
RateOff(b, c)      == AlignUp(AuditOff(b, c) + c.audit * 16)
CalibOff(b, c)     == IF b.rate THEN AlignUp(RateOff(b, c) + c.resources * 72)
                                ELSE RateOff(b, c)
CalibEnd(b, c)     == IF b.calibration
                      THEN AlignUp(CalibOff(b, c) + c.ops * (b.calib_words * 4))
                      ELSE CalibOff(b, c)

VisitedBytes(c)    == (c.ops + 7) \div 8
CausalityBytes(b, c) == 4 + b.max_edges * 4 + VisitedBytes(c)

InitSize(b, c) ==
    16 + IF b.causality THEN AlignUp(CalibEnd(b, c) + CausalityBytes(b, c))
                        ELSE CalibEnd(b, c)

-----------------------------------------------------------------------------
(* src/loxbudget_causality.c: its own computation of where its block is,   *)
(* with the sizes written as numbers.  The clearing of the block at the    *)
(* end of loxbudget_init repeats the same sums with sizeof.                *)
CausalityOff(b, c) ==
    LET o1 == AlignUp(32)
        o2 == AlignUp(o1 + c.resources * 12)
        o3 == AlignUp(o2 + c.ops * 8)
        o4 == AlignUp(o3 + c.ops * b.max_needs * 4)
        o5 == AlignUp(o4 + c.leases * 4)
        o6 == AlignUp(o5 + c.audit * 16)
        o7 == IF b.rate THEN AlignUp(o6 + c.resources * 72) ELSE o6
    IN  IF b.calibration THEN AlignUp(o7 + c.ops * (b.calib_words * 4)) ELSE o7

EdgesOff(b, c)   == CausalityOff(b, c) + 4
VisitedOff(b, c) == EdgesOff(b, c) + b.max_edges * 4

(* lb__causality_has_storage_. *)
CausalityHasStorage(b, c, size) ==
    CausalityOff(b, c) + 4 + b.max_edges * 4 + VisitedBytes(c) =< size

-----------------------------------------------------------------------------
(* include/loxbudget.h: the helper that sizes the buffer at compile time.  *)
(* It does not know max_concurrent_leases and counts eight bytes for each  *)
(* of MAX_LEASES; it leaves the alignment out.                             *)
RequiredSize(b, c) ==
    32 + c.resources * 12 + c.ops * 8 + c.ops * b.max_needs * 4
    + b.max_leases * 8
    + (IF b.rate THEN c.resources * 72 ELSE 0)
    + (IF b.calibration THEN c.ops * (b.calib_words * 4) ELSE 0)
    + (IF b.causality THEN 4 + b.max_edges * 4 + VisitedBytes(c) ELSE 0)
    + c.audit * 16 + 16

=============================================================================
