----------------------------- MODULE MCLoxAudit -----------------------------
(* Small instances of LoxAudit for TLC. *)
EXTENDS LoxAudit, TLC

DecisionSymmetry == Permutations(Decisions)

=============================================================================
