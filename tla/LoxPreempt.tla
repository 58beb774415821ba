------------------------------ MODULE LoxPreempt ------------------------------
(***************************************************************************)
(* One initialised loxbudget_t used by several contexts (tasks, interrupt  *)
(* handlers) that preempt each other between memory accesses, with a HAL   *)
(* that provides a real critical section.  The tables are configured once  *)
(* before the contexts start.                                              *)
(*                                                                         *)
(* The calls of src/loxbudget_core.c are broken into the accesses another  *)
(* context can come between: each read of budget->pressure, each entry of  *)
(* a need list that is tested, the load and the store of each counter      *)
(* increment, and the steps inside the critical section.  Reading one      *)
(* resource is one step: between its fields only used or reserved changes, *)
(* never both.                                                             *)
(*                                                                         *)
(* A context keeps one loxbudget_lease_t; hold is the history variable of  *)
(* LoxBudget: what the context's outstanding lease reserved.               *)
(***************************************************************************)
EXTENDS LoxDecision, Sequences

CONSTANTS
    U32_MAX,      \* largest value of the total_* counters
    Contexts,     \* preempting contexts
    NoContext,    \* the critical section is free
    ResourceTable, Profiles, NeedLists,   \* what was configured at start
    MayCall,      \* MayCall[t]: which calls context t makes; "replay" if
                  \* it may also leave a lease again
    PressureCalls, \* arguments of set_pressure
    SerialChoices \* whether the application serialises its calls itself

ASSUME PreemptAssumption ==
    /\ U32_MAX \in Nat
    /\ IsFiniteSet(Contexts) /\ NoContext \notin Contexts
    /\ ResourceTable \in [ResourceIds -> Resource]
    /\ Profiles \in [OpIds -> Profile]
    /\ NeedLists \in [OpIds -> NeedList]
    /\ MayCall \in
         [Contexts -> SUBSET {"check", "enter", "pressure", "replay"}]
    /\ PressureCalls \subseteq Pressures
    /\ SerialChoices \subseteq BOOLEAN /\ SerialChoices # {}

(* What loxbudget_set_resource and loxbudget_op_set_need leave behind, as  *)
(* LoxBudget models them: nothing is reserved yet, and a need list names   *)
(* no resource twice.                                                      *)
ASSUME ConfiguredAssumption ==
    /\ \A r \in ResourceIds :
          /\ ResourceTable[r].reserved = 0
          /\ ResourceTable[r].used <= ResourceTable[r].limit
    /\ \A op \in OpIds : \A i, j \in NeedIndex :
          (/\ NeedLists[op][i].amount # 0 /\ NeedLists[op][j].amount # 0
           /\ NeedLists[op][i].resource = NeedLists[op][j].resource) => i = j

VARIABLES
    pressure,   \* budget->pressure
    total,      \* budget->total_*
    res,        \* the resource table
    slots,      \* active and acquired_pressure of each lease slot
    lock,       \* who is inside the HAL critical section
    pc,         \* where each context is
    call,       \* the public function it is in
    arg,        \* its argument: an operation or a pressure
    act,        \* out->action of its decision
    idx,        \* its position in the need list
    todo,       \* counters it still has to increment
    reg,        \* the counter value it loaded
    slot,       \* the lease slot it found
    lease,      \* its lease variable
    hold,       \* history: what its outstanding lease reserved
    seen,       \* history: the pressures in force during its call
    serial      \* the application lets one call finish before the next

local == <<call, arg, act, idx, todo, reg, slot, lease, hold, seen>>
vars  == <<pressure, total, res, slots, lock, pc, local, serial>>

-----------------------------------------------------------------------------
(* Types. *)

Counters  == {"decisions", "grants", "denials", "degradations"}
Labels    == {"idle", "mapped", "lockdown", "hal", "need", "load", "store",
              "decided", "phaseA", "lock", "slot", "commit", "publish",
              "match", "release", "clear", "setp", "unlock"}
InSection == {"slot", "commit", "publish", "match", "release", "clear",
              "setp", "unlock"}
Slot      == [active : BOOLEAN, acquired_pressure : Pressures]
FreeSlot  == [active |-> FALSE, acquired_pressure |-> NORMAL]

(* magic: it is that of the slot, as in every token but the zeroed one.    *)
Token     == [id : LeaseIds, op : OpIds, magic : BOOLEAN]
ZeroLease == [id |-> 0, op |-> 0, magic |-> FALSE]
Nothing   == [r \in ResourceIds |-> 0]
Hold      == [on : BOOLEAN, amount : [ResourceIds -> U16]]
NoHold    == [on |-> FALSE, amount |-> Nothing]
OpInputs  == 0 .. MaxOps

TypeOK ==
    /\ pressure \in Pressures
    /\ total \in [Counters -> 0 .. U32_MAX]
    /\ res \in [ResourceIds -> Resource]
    /\ slots \in [LeaseIds -> Slot]
    /\ lock \in Contexts \cup {NoContext}
    /\ pc \in [Contexts -> Labels]
    /\ call \in [Contexts -> {"none", "check", "enter", "leave", "pressure"}]
    /\ arg \in [Contexts -> OpInputs \cup Pressures]
    /\ act \in [Contexts -> Actions]
    /\ idx \in [Contexts -> 1 .. MaxNeedsPerOp + 1]
    /\ todo \in [Contexts -> Seq(Counters)]
    /\ reg \in [Contexts -> 0 .. U32_MAX]
    /\ slot \in [Contexts -> LeaseIds]
    /\ lease \in [Contexts -> Token]
    /\ hold \in [Contexts -> Hold]
    /\ seen \in [Contexts -> SUBSET Pressures]
    /\ serial \in SerialChoices

-----------------------------------------------------------------------------

Init ==
    /\ pressure = NORMAL
    /\ total = [k \in Counters |-> 0]
    /\ res = ResourceTable
    /\ slots = [i \in LeaseIds |-> FreeSlot]
    /\ lock = NoContext
    /\ pc = [t \in Contexts |-> "idle"]
    /\ call = [t \in Contexts |-> "none"]
    /\ arg = [t \in Contexts |-> 0]
    /\ act = [t \in Contexts |-> "ALLOW_FULL"]
    /\ idx = [t \in Contexts |-> 1]
    /\ todo = [t \in Contexts |-> <<>>]
    /\ reg = [t \in Contexts |-> 0]
    /\ slot = [t \in Contexts |-> 0]
    /\ lease = [t \in Contexts |-> ZeroLease]
    /\ hold = [t \in Contexts |-> NoHold]
    /\ seen = [t \in Contexts |-> {}]
    /\ serial \in SerialChoices

Goto(t, l) == pc' = [pc EXCEPT ![t] = l]

(* Between two public calls the local variables mean nothing. *)
Return(t) ==
    /\ Goto(t, "idle")
    /\ call' = [call EXCEPT ![t] = "none"]
    /\ arg' = [arg EXCEPT ![t] = 0]
    /\ act' = [act EXCEPT ![t] = "ALLOW_FULL"]
    /\ idx' = [idx EXCEPT ![t] = 1]
    /\ reg' = [reg EXCEPT ![t] = 0]
    /\ todo' = [todo EXCEPT ![t] = <<>>]
    /\ slot' = [slot EXCEPT ![t] = 0]
    /\ seen' = [seen EXCEPT ![t] = {}]

-----------------------------------------------------------------------------
(* A context makes a call. *)

MayStart(t) ==
    pc[t] = "idle" /\ (serial => \A u \in Contexts : pc[u] = "idle")

Start(t, f, a, l) ==
    /\ MayStart(t)
    /\ call' = [call EXCEPT ![t] = f]
    /\ arg' = [arg EXCEPT ![t] = a]
    /\ seen' = [seen EXCEPT ![t] = {pressure}]
    /\ Goto(t, l)
    /\ UNCHANGED <<pressure, total, res, slots, lock, act, idx, todo, reg,
                   slot, lease, hold, serial>>

CallCheck(t) ==
    /\ "check" \in MayCall[t]
    /\ \E op \in OpInputs : Start(t, "check", op, "mapped")

CallEnter(t) ==
    /\ "enter" \in MayCall[t]
    /\ ~hold[t].on
    /\ \E op \in OpInputs : Start(t, "enter", op, "mapped")

(* The tests of loxbudget_leave before its critical section read only what *)
(* the token and the configuration fix; every token but the zeroed one     *)
(* passes them.                                                            *)
Replays(t) == "replay" \in MayCall[t]

CallLeave(t) ==
    /\ hold[t].on \/ Replays(t)
    /\ lease[t].magic
    /\ Start(t, "leave", lease[t].op, "lock")

CallSetPressure(t) ==
    /\ "pressure" \in MayCall[t]
    /\ \E p \in PressureCalls : Start(t, "pressure", p, "lock")

-----------------------------------------------------------------------------
(* loxbudget_check. *)

Known(t) == arg[t] \in OpIds

(* The counters a decision increments, in the order of the code. *)
Increments(a) ==
    CASE a = "ALLOW_FULL"     -> <<"decisions", "grants">>
      [] a = "ALLOW_DEGRADED" -> <<"decisions", "degradations", "grants">>
      [] OTHER                -> <<"decisions", "denials">>

(* The decision is a; what is left of check is to count it. *)
Conclude(t, a) ==
    /\ act' = [act EXCEPT ![t] = a]
    /\ todo' = [todo EXCEPT ![t] = Increments(a)]
    /\ idx' = [idx EXCEPT ![t] = 1]
    /\ Goto(t, "load")

(* Mutant: the action is mapped as if the pressure were NORMAL. *)
BugMapped(t) ==
    /\ pc[t] = "mapped"
    /\ IF Known(t)
       THEN /\ act' = [act EXCEPT ![t] = MappedAction(Profiles[arg[t]], NORMAL)]
            /\ Goto(t, "lockdown")
            /\ UNCHANGED <<todo, idx>>
       ELSE Conclude(t, "REJECT")
    /\ UNCHANGED <<pressure, total, res, slots, lock, call, arg, reg, slot,
                   lease, hold, seen, serial>>

(* The mapped action is read at one pressure ... *)
Mapped(t) ==
    /\ pc[t] = "mapped"
    /\ IF Known(t)
       THEN /\ act' = [act EXCEPT ![t] =
                         MappedAction(Profiles[arg[t]], pressure)]
            /\ Goto(t, "lockdown")
            /\ UNCHANGED <<todo, idx>>
       ELSE Conclude(t, "REJECT")
    /\ UNCHANGED <<pressure, total, res, slots, lock, call, arg, reg, slot,
                   lease, hold, seen, serial>>

(* ... and LOCKDOWN is tested at another. *)
Lockdown(t) ==
    /\ pc[t] = "lockdown"
    /\ IF LockedOut(Profiles[arg[t]], pressure) THEN Conclude(t, "LOCKDOWN")
       ELSE IF ~Allowed(act[t]) THEN Conclude(t, act[t])
       ELSE Goto(t, "hal") /\ UNCHANGED <<act, todo, idx>>
    /\ UNCHANGED <<pressure, total, res, slots, lock, call, arg, reg, slot,
                   lease, hold, seen, serial>>

(* The HAL preconditions, if the profile asks for any, hold or do not. *)
Hal(t) ==
    /\ pc[t] = "hal"
    /\ \/ Goto(t, "need") /\ UNCHANGED <<act, todo, idx>>
       \/ /\ Profiles[arg[t]].flags \cap Preconds # {}
          /\ Conclude(t, "REJECT")
    /\ UNCHANGED <<pressure, total, res, slots, lock, call, arg, reg, slot,
                   lease, hold, seen, serial>>

(* One entry of the need list. *)
Entry(t) == NeedLists[arg[t]][idx[t]]

TestNeed(t) ==
    /\ pc[t] = "need"
    /\ IF idx[t] > MaxNeedsPerOp THEN Conclude(t, act[t])
       ELSE IF NeedFails(Entry(t), res)
       THEN Conclude(t, NeedVerdict(Entry(t), res, pressure).action)
       ELSE /\ idx' = [idx EXCEPT ![t] = @ + 1]
            /\ UNCHANGED <<pc, act, todo>>
    /\ UNCHANGED <<pressure, total, res, slots, lock, call, arg, reg, slot,
                   lease, hold, seen, serial>>

(* budget->total_x++ outside any critical section: a load ... *)
Load(t) ==
    /\ pc[t] = "load"
    /\ reg' = [reg EXCEPT ![t] = total[Head(todo[t])]]
    /\ Goto(t, "store")
    /\ UNCHANGED <<pressure, total, res, slots, lock, call, arg, act, idx,
                   todo, slot, lease, hold, seen, serial>>

(* ... and a store. *)
Store(t) ==
    /\ pc[t] = "store"
    /\ total' = [total EXCEPT ![Head(todo[t])] = (reg[t] + 1) % (U32_MAX + 1)]
    /\ todo' = [todo EXCEPT ![t] = Tail(@)]
    /\ Goto(t, IF Len(todo[t]) = 1 THEN "decided" ELSE "load")
    /\ UNCHANGED <<pressure, res, slots, lock, call, arg, act, idx, reg,
                   slot, lease, hold, seen, serial>>

(* check returns, to its caller or to loxbudget_enter, which zeroes the    *)
(* lease of a refused operation unless the operation is unknown.           *)
Decided(t) ==
    /\ pc[t] = "decided"
    /\ IF call[t] = "enter" /\ Allowed(act[t])
       THEN /\ Goto(t, "phaseA")
            /\ UNCHANGED <<call, arg, act, idx, todo, reg, slot, lease, seen>>
       ELSE /\ Return(t)
            /\ lease' = IF call[t] = "enter" /\ Known(t)
                        THEN [lease EXCEPT ![t] = ZeroLease] ELSE lease
    /\ UNCHANGED <<pressure, total, res, slots, lock, hold, serial>>

-----------------------------------------------------------------------------
(* loxbudget_enter after check. *)

PhaseA(t) ==
    /\ pc[t] = "phaseA"
    /\ IF idx[t] > MaxNeedsPerOp
       THEN /\ Goto(t, "lock")
            /\ idx' = [idx EXCEPT ![t] = 1]
            /\ UNCHANGED <<call, arg, act, todo, reg, slot, seen>>
       ELSE IF PhaseAFails(Entry(t), res) THEN Return(t)
       ELSE /\ idx' = [idx EXCEPT ![t] = @ + 1]
            /\ UNCHANGED <<pc, call, arg, act, todo, reg, slot, seen>>
    /\ UNCHANGED <<pressure, total, res, slots, lock, lease, hold, serial>>

(* Mutant: the section excludes nobody. *)
BugAcquire(t) ==
    /\ pc[t] = "lock"
    /\ lock' = t
    /\ Goto(t, CASE call[t] = "enter" -> "slot"
                 [] call[t] = "leave" -> "match"
                 [] OTHER             -> "setp")
    /\ UNCHANGED <<pressure, total, res, slots, local, serial>>

(* loxbudget_critical_enter_. *)
Acquire(t) ==
    /\ pc[t] = "lock"
    /\ lock = NoContext
    /\ lock' = t
    /\ Goto(t, CASE call[t] = "enter" -> "slot"
                 [] call[t] = "leave" -> "match"
                 [] OTHER             -> "setp")
    /\ UNCHANGED <<pressure, total, res, slots, local, serial>>

(* Mutant: the scan runs one slot too far. *)
BugFreeSlots == {i \in 0 .. MaxLeases : i = MaxLeases \/ ~slots[i].active}

FreeSlots == {i \in LeaseIds : ~slots[i].active}

(* Mutant: NO_SPACE returns from inside the section. *)
BugFindSlot(t) ==
    /\ pc[t] = "slot"
    /\ \/ /\ FreeSlots = {}
          /\ Return(t)
       \/ /\ FreeSlots # {}
          /\ slot' = [slot EXCEPT ![t] = Min(FreeSlots)]
          /\ Goto(t, "commit")
          /\ UNCHANGED <<call, arg, act, idx, todo, reg, seen>>
    /\ UNCHANGED <<pressure, total, res, slots, lock, lease, hold, serial>>

(* The scan for a free slot; without one the call returns NO_SPACE. *)
FindSlot(t) ==
    /\ pc[t] = "slot"
    /\ \/ /\ FreeSlots = {}
          /\ Goto(t, "unlock")
          /\ UNCHANGED slot
       \/ /\ FreeSlots # {}
          /\ slot' = [slot EXCEPT ![t] = Min(FreeSlots)]
          /\ Goto(t, "commit")
    /\ UNCHANGED <<pressure, total, res, slots, lock, call, arg, act, idx,
                   todo, reg, lease, hold, seen, serial>>

(* One turn of the commit loop. *)
Commit(t) ==
    /\ pc[t] = "commit"
    /\ IF idx[t] > MaxNeedsPerOp
       THEN Goto(t, "publish") /\ UNCHANGED <<res, idx>>
       ELSE /\ LET n == Entry(t)
               IN  res' = IF n.amount = 0 THEN res
                          ELSE [res EXCEPT ![n.resource] =
                                  CommitNeed(@, n.amount)]
            /\ idx' = [idx EXCEPT ![t] = @ + 1]
            /\ UNCHANGED pc
    /\ UNCHANGED <<pressure, total, slots, lock, call, arg, act, todo, reg,
                   slot, lease, hold, seen, serial>>

(* What the need list of op reserves of r. *)
Reserves(op, r) ==
    LET I == {i \in NeedIndex : /\ NeedLists[op][i].amount # 0
                                /\ NeedLists[op][i].resource = r}
    IN  IF I = {} \/ ResourceTable[r].kind # "REUSABLE" THEN 0
        ELSE NeedLists[op][Min(I)].amount

(* The slot and the caller's lease are filled in. *)
Publish(t) ==
    /\ pc[t] = "publish"
    /\ slots' = [slots EXCEPT ![slot[t]] =
                    [active |-> TRUE, acquired_pressure |-> pressure]]
    /\ lease' = [lease EXCEPT ![t] =
                   [id |-> slot[t], op |-> arg[t], magic |-> TRUE]]
    /\ hold' = [hold EXCEPT ![t] =
                  [on |-> TRUE, amount |-> [r \in ResourceIds |->
                                              Reserves(arg[t], r)]]]
    /\ Goto(t, "unlock")
    /\ UNCHANGED <<pressure, total, res, lock, call, arg, act, idx, todo, reg,
                   slot, seen, serial>>

-----------------------------------------------------------------------------
(* loxbudget_leave and loxbudget_set_pressure inside the section. *)

(* The slot is tested; a lease that is not there returns BAD_STATE. *)
Match(t) ==
    /\ pc[t] = "match"
    /\ Goto(t, IF slots[lease[t].id].active THEN "release" ELSE "unlock")
    /\ UNCHANGED <<pressure, total, res, slots, lock, local, serial>>

(* Mutant: the release loop stops one entry early. *)
BugReleaseEntry(t) ==
    /\ pc[t] = "release"
    /\ IF idx[t] > MaxNeedsPerOp - 1
       THEN Goto(t, "clear") /\ UNCHANGED <<res, idx>>
       ELSE /\ LET n == Entry(t)
               IN  res' = IF n.amount = 0 THEN res
                          ELSE [res EXCEPT ![n.resource] =
                                  ReleaseNeed(@, n.amount)]
            /\ idx' = [idx EXCEPT ![t] = @ + 1]
            /\ UNCHANGED pc
    /\ UNCHANGED <<pressure, total, slots, lock, call, arg, act, todo, reg,
                   slot, lease, hold, seen, serial>>

(* One turn of the release loop. *)
ReleaseEntry(t) ==
    /\ pc[t] = "release"
    /\ IF idx[t] > MaxNeedsPerOp
       THEN Goto(t, "clear") /\ UNCHANGED <<res, idx>>
       ELSE /\ LET n == Entry(t)
               IN  res' = IF n.amount = 0 THEN res
                          ELSE [res EXCEPT ![n.resource] =
                                  ReleaseNeed(@, n.amount)]
            /\ idx' = [idx EXCEPT ![t] = @ + 1]
            /\ UNCHANGED pc
    /\ UNCHANGED <<pressure, total, slots, lock, call, arg, act, todo, reg,
                   slot, lease, hold, seen, serial>>

ClearSlot(t) ==
    /\ pc[t] = "clear"
    /\ slots' = [slots EXCEPT ![lease[t].id].active = FALSE]
    /\ hold' = [hold EXCEPT ![t] = NoHold]
    /\ Goto(t, "unlock")
    /\ UNCHANGED <<pressure, total, res, lock, call, arg, act, idx, todo, reg,
                   slot, lease, seen, serial>>

StorePressure(t) ==
    /\ pc[t] = "setp"
    /\ pressure' = arg[t]
    /\ seen' = [u \in Contexts |-> IF pc[u] = "idle" THEN seen[u]
                                   ELSE seen[u] \cup {arg[t]}]
    /\ Goto(t, "unlock")
    /\ UNCHANGED <<total, res, slots, lock, call, arg, act, idx, todo, reg,
                   slot, lease, hold, serial>>

(* loxbudget_critical_exit_, on every path out of the section. *)
Unlock(t) ==
    /\ pc[t] = "unlock"
    /\ lock' = NoContext
    /\ Return(t)
    /\ UNCHANGED <<pressure, total, res, slots, lease, hold, serial>>

-----------------------------------------------------------------------------

Calls(t) == CallCheck(t) \/ CallEnter(t) \/ CallLeave(t) \/ CallSetPressure(t)

(* A step inside a call that waits for nobody. *)
Step(t) ==
    \/ Mapped(t) \/ Lockdown(t) \/ Hal(t) \/ TestNeed(t)
    \/ Load(t) \/ Store(t) \/ Decided(t)
    \/ PhaseA(t)
    \/ FindSlot(t) \/ Commit(t) \/ Publish(t)
    \/ Match(t) \/ ReleaseEntry(t) \/ ClearSlot(t)
    \/ StorePressure(t) \/ Unlock(t)

Next == \E t \in Contexts : Calls(t) \/ Step(t) \/ Acquire(t)

Spec == Init /\ [][Next]_vars

(* The scheduler does not stop a context inside a call for ever, and the   *)
(* HAL critical section is not denied for ever to a context that asks.     *)
(* Nobody has to call anything.                                            *)
FairSpec ==
    /\ Spec
    /\ \A t \in Contexts : WF_vars(Step(t)) /\ SF_vars(Acquire(t))

-----------------------------------------------------------------------------
(* What the critical section protects, however the contexts interleave, if *)
(* they release each lease once.                                           *)

NoReplay == \A t \in Contexts : ~Replays(t)

(* Two outstanding leases never share a slot, an outstanding lease's slot  *)
(* is in use, and with the section free no slot is in use without a lease. *)
LeasesOwnSlots ==
    /\ \A t \in Contexts : hold[t].on => slots[lease[t].id].active
    /\ \A t, u \in Contexts :
          (hold[t].on /\ hold[u].on /\ lease[t].id = lease[u].id) => t = u
    /\ lock = NoContext => \A i \in LeaseIds :
          slots[i].active => \E t \in Contexts : hold[t].on /\ lease[t].id = i

(* However the contexts choose their operations, what they reserve of a    *)
(* resource together fits its uint16_t.                                    *)
NoWrap ==
    \A pick \in [Contexts -> OpIds], r \in ResourceIds :
        SumOf([t \in Contexts |-> Reserves(pick[t], r)]) <= U16_MAX

(* With the section free, reserved is the sum of the outstanding leases:   *)
(* commits and releases are never lost or done twice, and a call refused   *)
(* for want of a slot reserved nothing.  (Even when the sum is over the    *)
(* limit, as long as it fits the uint16_t: NoWrap.)                        *)
ReservedIsHeld ==
    lock = NoContext => \A r \in ResourceIds :
        res[r].reserved = SumOf([t \in Contexts |-> hold[t].amount[r]])

(* check reads the pressure twice and enter commits later still.  An       *)
(* operation it lets pass was admissible at one of the pressures in force  *)
(* during the call, unless its LOCKDOWN column allows what LOCKDOWN itself *)
(* refuses: then a change out of LOCKDOWN between the two reads admits     *)
(* what neither pressure would.                                            *)
GrantAdmissible ==
    \A t \in Contexts :
       /\ call[t] = "enter"
       /\ pc[t] \in {"phaseA", "lock", "slot", "commit", "publish"}
       /\ ~LockedOut(Profiles[arg[t]], LOCKDOWN)
          \/ ~Allowed(MappedAction(Profiles[arg[t]], LOCKDOWN))
       => \E p \in seen[t] : ~PressureBlocks(Profiles[arg[t]], p)

(* Every call returns: each path out of the critical section leaves it,    *)
(* and no loop depends on another context.                                 *)
CallsReturn == \A t \in Contexts : pc[t] # "idle" ~> pc[t] = "idle"

-----------------------------------------------------------------------------
(* What it does not protect: the room that is tested before the section,   *)
(* and the counters of check, which Load and Store increment outside it.   *)

(* SPEC.md section 9 ("An attempt to push past the limit is denied, never  *)
(* accepted with overflow"): check and phase A run before the section is   *)
(* entered, so two contexts can both find room for one.                    *)
NoOvercommit ==
    \A r \in ResourceIds : res[r].used + res[r].reserved <= res[r].limit

(* An application that never lets two calls overlap keeps the limits. *)
SerialNoOvercommit == serial => NoOvercommit

=============================================================================
