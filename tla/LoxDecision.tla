----------------------------- MODULE LoxDecision -----------------------------
(***************************************************************************)
(* The pure half of loxbudget: the types of include/loxbudget.h and the    *)
(* tests that loxbudget_check, loxbudget_enter, loxbudget_leave and        *)
(* loxbudget_yield_check evaluate over them.  There is no state here; the  *)
(* modules that keep state (LoxBudget, LoxPreempt) share these operators.  *)
(*                                                                         *)
(* Identifiers are the numbers the C code uses, because loops scan them in *)
(* order; enumerations are strings, except pressure, which is compared.    *)
(***************************************************************************)
EXTENDS Integers, FiniteSetsExt

CONSTANTS
    U16_MAX,          \* largest uint16_t (0xFFFF, scaled down for TLC)
    MaxResources,     \* cfg->max_resources
    MaxOps,           \* cfg->max_ops
    MaxLeases,        \* cfg->max_concurrent_leases
    MaxNeedsPerOp     \* LOXBUDGET_MAX_NEEDS_PER_OP

(* loxbudget_validate_init_args_ refuses a table of size zero. *)
ASSUME SizesAssumption ==
    /\ U16_MAX       \in Nat \ {0}
    /\ MaxResources  \in Nat \ {0}
    /\ MaxOps        \in Nat \ {0}
    /\ MaxLeases     \in Nat \ {0}
    /\ MaxNeedsPerOp \in Nat \ {0}

-----------------------------------------------------------------------------
(* Types. *)

U16         == 0 .. U16_MAX
ResourceIds == 0 .. MaxResources - 1
OpIds       == 0 .. MaxOps - 1
LeaseIds    == 0 .. MaxLeases - 1
NeedIndex   == 1 .. MaxNeedsPerOp

NORMAL    == 0
ELEVATED  == 1
CRITICAL  == 2
SURVIVAL  == 3
LOCKDOWN  == 4
Pressures == NORMAL .. LOCKDOWN

Actions   == {"ALLOW_FULL", "ALLOW_DEGRADED", "WAIT", "REJECT", "LOCKDOWN"}
Kinds     == {"REUSABLE", "CONSUMABLE", "STATE"}
Reasons   == {"OK", "INSUFFICIENT_RES", "PRESSURE_BLOCK", "LOCKDOWN_ACTIVE",
              "PRECONDITION_FAIL", "UNKNOWN_OP", "HAL_NOT_CONFIGURED"}

(* The HAL preconditions in the order loxbudget_check asks for them. *)
HalOrder  == <<"BOOT_PROVEN", "VOLTAGE_OK", "NETWORK_UP">>
Preconds  == {"BOOT_PROVEN", "VOLTAGE_OK", "NETWORK_UP"}

(* The profile flags that check and yield_check read in the default build. *)
OpFlags   == Preconds \cup {"LOCKDOWN_PASS"}

Profile   == [action : [Pressures -> Actions], flags : SUBSET OpFlags]

(* loxbudget_need_t; an entry with amount 0 is an empty place of the list. *)
Need      == [resource : ResourceIds, amount : U16]
NoNeed    == [resource |-> 0, amount |-> 0]
NeedList  == [NeedIndex -> Need]

(* loxbudget_resource_t with its res_cfg byte of the storage header. *)
Resource  == [cfg : BOOLEAN, kind : Kinds, limit : U16, used : U16,
              reserved : U16, high_watermark : U16]

(* What cfg->hal_strict and cfg->hal_callbacks select: the preconditions   *)
(* for which a callback is installed.                                      *)
HalConfig == [strict : BOOLEAN, callbacks : SUBSET Preconds]

(* loxbudget_decision_t; denied_resource 0xFF is "no resource". *)
NoResource == 255
Decision  == [action : Actions, reason : Reasons, pressure : Pressures,
              denied_resource : ResourceIds \cup {NoResource},
              requested : U16, available : U16]

Allowed(action) == action \in {"ALLOW_FULL", "ALLOW_DEGRADED"}

-----------------------------------------------------------------------------
(* The helpers the handlers call. *)

(* Mutant: what is reserved is not subtracted. *)
BugAvailable(limit, used, reserved) == IF used > limit THEN 0 ELSE limit - used

(* loxbudget_available_u16_: two saturating subtractions. *)
Available(limit, used, reserved) ==
    LET v == IF used > limit THEN 0 ELSE limit - used
    IN  IF reserved > v THEN 0 ELSE v - reserved

AvailableOf(r) == Available(r.limit, r.used, r.reserved)

(* loxbudget_mapped_action_. *)
MappedAction(p, press) == p.action[press]

(* The weak symbols an application that overrides nothing is linked with. *)
WeakAnswer(x) == FALSE

(* Mutant: a missing callback on a lax instance lets the operation pass. *)
BugHalAnswer(hc, hal, x) ==
    IF x \in hc.callbacks THEN (IF hal[x] THEN "TRUE" ELSE "FALSE")
    ELSE IF hc.strict THEN "NOT_CONFIGURED" ELSE "TRUE"

(* loxbudget_hal_bool_: the callback, else the "not configured" sentinel   *)
(* of a strict instance, else the weak symbol.                             *)
HalAnswer(hc, hal, x) ==
    IF x \in hc.callbacks THEN (IF hal[x] THEN "TRUE" ELSE "FALSE")
    ELSE IF hc.strict THEN "NOT_CONFIGURED"
    ELSE IF WeakAnswer(x) THEN "TRUE" ELSE "FALSE"

-----------------------------------------------------------------------------
(* The stages of loxbudget_check, in the order the code runs them. *)

Verdict(action, reason, press) ==
    [action |-> action, reason |-> reason, pressure |-> press,
     denied_resource |-> NoResource, requested |-> 0, available |-> 0]

NeedDenied(action, reason, press, n, avail) ==
    [action |-> action, reason |-> reason, pressure |-> press,
     denied_resource |-> n.resource, requested |-> n.amount,
     available |-> avail]

(* LOCKDOWN pressure refuses every operation without OPF_LOCKDOWN_PASS. *)
LockedOut(p, press) == press = LOCKDOWN /\ "LOCKDOWN_PASS" \notin p.flags

(* Mutant: LOCKDOWN pressure is left to the profile's own column. *)
BugPressureBlocks(p, press) == ~Allowed(MappedAction(p, press))

(* Stage 1: the pressure forbids the operation. *)
PressureBlocks(p, press) ==
    LockedOut(p, press) \/ ~Allowed(MappedAction(p, press))

PressureVerdict(p, press) ==
    IF LockedOut(p, press) \/ MappedAction(p, press) = "LOCKDOWN"
    THEN Verdict("LOCKDOWN", "LOCKDOWN_ACTIVE", press)
    ELSE Verdict(MappedAction(p, press), "PRESSURE_BLOCK", press)

(* Stage 2: the HAL preconditions the profile asks for that do not hold. *)
HalFailures(p, hc, hal) ==
    {i \in 1 .. 3 : /\ HalOrder[i] \in p.flags
                    /\ HalAnswer(hc, hal, HalOrder[i]) # "TRUE"}

HalVerdict(p, press, hc, hal) ==
    LET i == Min(HalFailures(p, hc, hal))
    IN  IF HalAnswer(hc, hal, HalOrder[i]) = "NOT_CONFIGURED"
        THEN Verdict("REJECT", "HAL_NOT_CONFIGURED", press)
        ELSE Verdict("REJECT", "PRECONDITION_FAIL", press)

(* Mutant: check is one unit more generous than phase A. *)
BugNeedFails(n, res) ==
    /\ n.amount # 0
    /\ LET r == res[n.resource]
       IN  \/ ~r.cfg
           \/ r.kind = "STATE" /\ r.limit = 0
           \/ r.kind # "STATE" /\ AvailableOf(r) + 1 < n.amount

(* Stage 3: the entries of the need list that cannot be met now. *)
NeedFails(n, res) ==
    /\ n.amount # 0
    /\ LET r == res[n.resource]
       IN  \/ ~r.cfg
           \/ r.kind = "STATE" /\ r.limit = 0
           \/ r.kind # "STATE" /\ AvailableOf(r) < n.amount

NeedFailures(list, res) == {i \in NeedIndex : NeedFails(list[i], res)}

(* Mutant: a caller is told to wait for any resource that is short. *)
BugNeedVerdict(n, res, press) ==
    LET r == res[n.resource]
    IN  IF ~r.cfg
        THEN NeedDenied("REJECT", "INSUFFICIENT_RES", press, n, 0)
        ELSE IF r.kind = "STATE"
        THEN NeedDenied("REJECT", "PRECONDITION_FAIL", press, n, 0)
        ELSE NeedDenied("WAIT", "INSUFFICIENT_RES", press, n, AvailableOf(r))

(* The decision those entries lead to. *)
NeedVerdict(n, res, press) ==
    LET r == res[n.resource]
    IN  IF ~r.cfg
        THEN NeedDenied("REJECT", "INSUFFICIENT_RES", press, n, 0)
        ELSE IF r.kind = "STATE"
        THEN NeedDenied("REJECT", "PRECONDITION_FAIL", press, n, 0)
        ELSE NeedDenied(IF r.kind = "REUSABLE" THEN "WAIT" ELSE "REJECT",
                        "INSUFFICIENT_RES", press, n, AvailableOf(r))

(* The decision for a registered operation: the first stage that refuses,  *)
(* and in it the first precondition or the first entry of the list.        *)
ProfileDecision(p, press, hc, hal, list, res) ==
    IF PressureBlocks(p, press) THEN PressureVerdict(p, press)
    ELSE IF HalFailures(p, hc, hal) # {} THEN HalVerdict(p, press, hc, hal)
    ELSE IF NeedFailures(list, res) # {}
    THEN NeedVerdict(list[Min(NeedFailures(list, res))], res, press)
    ELSE Verdict(MappedAction(p, press), "OK", press)

(* Phase A of loxbudget_enter tests the list again; it does not look at    *)
(* res_cfg.                                                                *)
PhaseAFails(n, res) ==
    /\ n.amount # 0
    /\ LET r == res[n.resource]
       IN  IF r.kind = "STATE" THEN r.limit = 0
                               ELSE AvailableOf(r) < n.amount

-----------------------------------------------------------------------------
(* What one entry of a need list does to its resource. *)

(* Mutant: the watermark follows reusable resources only. *)
BugCommitNeed(r, amount) ==
    CASE r.kind = "REUSABLE" ->
           LET v == (r.reserved + amount) % (U16_MAX + 1)
           IN  [r EXCEPT !.reserved = v,
                         !.high_watermark = IF v > @ THEN v ELSE @]
      [] r.kind = "CONSUMABLE" ->
           [r EXCEPT !.used = (@ + amount) % (U16_MAX + 1)]
      [] OTHER -> r

(* The commit of loxbudget_enter; the sums are uint16_t. *)
CommitNeed(r, amount) ==
    CASE r.kind = "REUSABLE" ->
           LET v == (r.reserved + amount) % (U16_MAX + 1)
           IN  [r EXCEPT !.reserved = v,
                         !.high_watermark = IF v > @ THEN v ELSE @]
      [] r.kind = "CONSUMABLE" ->
           LET v == (r.used + amount) % (U16_MAX + 1)
           IN  [r EXCEPT !.used = v,
                         !.high_watermark = IF v > @ THEN v ELSE @]
      [] OTHER -> r

(* Mutants: the release gives consumption back; forgets what others hold;  *)
(* does not saturate.                                                      *)
BugReleaseConsumed(r, amount) ==
    CASE r.kind = "REUSABLE" ->
           [r EXCEPT !.reserved = IF @ >= amount THEN @ - amount ELSE 0]
      [] r.kind = "CONSUMABLE" ->
           [r EXCEPT !.used = IF @ >= amount THEN @ - amount ELSE 0]
      [] OTHER -> r

BugReleaseAll(r, amount) ==
    IF r.kind = "REUSABLE" THEN [r EXCEPT !.reserved = 0] ELSE r

BugReleaseUnderflow(r, amount) ==
    IF r.kind = "REUSABLE" THEN [r EXCEPT !.reserved = @ - amount] ELSE r

(* The release of loxbudget_leave: only reusable, saturating at zero. *)
ReleaseNeed(r, amount) ==
    IF r.kind = "REUSABLE"
    THEN [r EXCEPT !.reserved = IF @ >= amount THEN @ - amount ELSE 0]
    ELSE r

(* The hint of loxbudget_yield_check for a live lease. *)
YieldHint(p, acquired, press) ==
    IF LockedOut(p, press) \/ MappedAction(p, press) \in
                                  {"WAIT", "REJECT", "LOCKDOWN"}
    THEN "SHOULD_ABORT"
    ELSE IF press = acquired THEN "HOLDING"
    ELSE IF press > acquired THEN "RISING" ELSE "FALLING"

-----------------------------------------------------------------------------
(* What holders have in hand together.  For properties only: amounts are   *)
(* added up as the set of their single units, a sum proofs can reason      *)
(* about without induction.                                                *)

Units(f) == UNION {{x} \X (1 .. f[x]) : x \in DOMAIN f}
SumOf(f) == Cardinality(Units(f))

=============================================================================
