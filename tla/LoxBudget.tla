------------------------------ MODULE LoxBudget ------------------------------
(***************************************************************************)
(* One loxbudget_t instance with its storage, and the application code     *)
(* that calls it from a single context (src/loxbudget_core.c, the default  *)
(* build: no rate windows, audit trail, calibration or causality).         *)
(*                                                                         *)
(* Every public call that changes state is an action.  A call the code     *)
(* refuses without touching anything (bad argument, instance not           *)
(* initialised, duplicate, list full) is a stuttering step and appears as  *)
(* a guard.  The queries (yield_check and the tests of leave) are state    *)
(* functions.  LoxPreempt breaks the calls into their memory accesses and  *)
(* interleaves several contexts.                                           *)
(*                                                                         *)
(* A caller owns one loxbudget_lease_t variable.  lease[c] is the value in *)
(* it, which C code may keep and pass again after it was released; holds   *)
(* is a history variable: what a granted and not yet released lease of c   *)
(* reserved when it was granted.                                           *)
(***************************************************************************)
EXTENDS LoxDecision

CONSTANTS
    U32_MAX,              \* largest value of the total_* counters
    Callers,              \* lease variables of the application
    MagicBases,           \* values (addr ^ now_ms) & 0xFFFF may take at init
    HalConfigs,           \* hal_strict / hal_callbacks values passed to init
    HalStates,            \* answers the installed callbacks may give
    ResourceCalls,        \* <<id, limit, kind>> of set_resource
    ProfileCalls,         \* <<op, profile>> of register_op
    NeedCalls,            \* <<op, resource, amount>> of op_set_need
    PressureCalls,        \* arguments of set_pressure
    CallerMayReplay,      \* callers may leave a lease again or lose its token
    CallerMayReconfigure  \* set_resource / op_set_need with leases out

ASSUME InputsAssumption ==
    /\ U32_MAX \in Nat
    /\ IsFiniteSet(Callers)
    /\ MagicBases \subseteq Nat \ {0}
    /\ HalConfigs \subseteq HalConfig
    /\ HalStates \subseteq [Preconds -> BOOLEAN] /\ HalStates # {}
    /\ ResourceCalls \subseteq ResourceIds \X U16 \X Kinds
    /\ ProfileCalls \subseteq OpIds \X Profile
    /\ NeedCalls \subseteq OpIds \X ResourceIds \X (U16 \ {0})
    /\ PressureCalls \subseteq Pressures
    /\ CallerMayReplay \in BOOLEAN
    /\ CallerMayReconfigure \in BOOLEAN

VARIABLES
    magic,             \* budget->magic = LOXBUDGET_MAGIC_INIT
    pressure,          \* budget->pressure
    lease_magic_base,  \* budget->lease_magic_base
    halcfg,            \* budget->hal_strict, budget->hal_cb
    total,             \* budget->total_*
    res,               \* the resource table and res_cfg
    op_cfg,            \* op_cfg of the storage header
    ops,               \* the profile table
    needs,             \* the need lists
    slots,             \* the lease slots
    hal,               \* what the application's callbacks answer now
    lease,             \* the callers' loxbudget_lease_t variables
    holds              \* history: what each outstanding lease reserved

tables == <<res, op_cfg, ops, needs, slots>>
vars   == <<magic, pressure, lease_magic_base, halcfg, total, tables, hal,
            lease, holds>>

-----------------------------------------------------------------------------
(* Types. *)

Bases   == MagicBases \cup {0}

(* base ^ id, which is compared only between tokens with the same id: the  *)
(* pair tells apart exactly what the exclusive or tells apart there.       *)
Magics  == Bases \X LeaseIds
NoMagic == <<0, 0>>

Slot  == [active : BOOLEAN, magic : Magics, acquired_pressure : Pressures]
Token == [id : LeaseIds, magic : Magics, op : OpIds]
Total == [decisions : 0 .. U32_MAX, grants : 0 .. U32_MAX,
          denials : 0 .. U32_MAX, degradations : 0 .. U32_MAX]
Hold  == [on : BOOLEAN, amount : [ResourceIds -> U16]]

NoProfile == [action |-> [x \in Pressures |-> "ALLOW_FULL"], flags |-> {}]
NoEntry   == [cfg |-> FALSE, kind |-> "REUSABLE", limit |-> 0, used |-> 0,
              reserved |-> 0, high_watermark |-> 0]
FreeSlot  == [active |-> FALSE, magic |-> NoMagic, acquired_pressure |-> NORMAL]
ZeroLease == [id |-> 0, magic |-> NoMagic, op |-> 0]
NoHold    == [on |-> FALSE, amount |-> [r \in ResourceIds |-> 0]]
NoHal     == [strict |-> FALSE, callbacks |-> {}]
NoTotal   == [decisions |-> 0, grants |-> 0, denials |-> 0, degradations |-> 0]

TypeOK ==
    /\ magic \in BOOLEAN
    /\ pressure \in Pressures
    /\ lease_magic_base \in Bases
    /\ halcfg \in HalConfig
    /\ total \in Total
    /\ res \in [ResourceIds -> Resource]
    /\ op_cfg \in [OpIds -> BOOLEAN]
    /\ ops \in [OpIds -> Profile]
    /\ needs \in [OpIds -> NeedList]
    /\ slots \in [LeaseIds -> Slot]
    /\ hal \in [Preconds -> BOOLEAN]
    /\ lease \in [Callers -> Token]
    /\ holds \in [Callers -> Hold]

-----------------------------------------------------------------------------
(* State functions. *)

(* loxbudget_lease_magic_for_id_. *)
MagicFor(id) == <<lease_magic_base, id>>

(* loxbudget_profile_c_ finds the operation. *)
Registered(op) == op \in OpIds /\ op_cfg[op]

(* The decision of loxbudget_check. *)
Decide(op) ==
    IF ~Registered(op) THEN Verdict("REJECT", "UNKNOWN_OP", pressure)
    ELSE ProfileDecision(ops[op], pressure, halcfg, hal, needs[op], res)

(* The amount list[i] asks of resource r; op_set_need keeps at most one    *)
(* entry per resource (NeedsDistinct), so a loop over the list meets each  *)
(* resource once.                                                          *)
NeedOf(op, r) ==
    LET I == {i \in NeedIndex : /\ needs[op][i].amount # 0
                                /\ needs[op][i].resource = r}
    IN  IF I = {} THEN 0 ELSE needs[op][Min(I)].amount

Outstanding == \E c \in Callers : holds[c].on

FreeSlots == {i \in LeaseIds : ~slots[i].active}

(* Mutant: the lease is compared with the instance, not with its slot. *)
BugLeaseAccepted(l) ==
    magic /\ l.magic = MagicFor(l.id) /\ Registered(l.op)

(* The tests of loxbudget_leave and loxbudget_yield_check on a lease. *)
LeaseAccepted(l) ==
    /\ magic
    /\ l.magic = MagicFor(l.id)
    /\ Registered(l.op)
    /\ slots[l.id].active
    /\ slots[l.id].magic = l.magic

(* Mutant: a WAIT is not counted as a denial. *)
BugCounted(d) ==
    LET bump(x, b) == IF b THEN (x + 1) % (U32_MAX + 1) ELSE x
    IN  [decisions    |-> bump(total.decisions, TRUE),
         grants       |-> bump(total.grants, Allowed(d.action)),
         denials      |-> bump(total.denials,
                               d.action \in {"REJECT", "LOCKDOWN"}),
         degradations |-> bump(total.degradations,
                               d.action = "ALLOW_DEGRADED")]

(* The counters after one decision d; uint32_t increments. *)
Counted(d) ==
    LET bump(x, b) == IF b THEN (x + 1) % (U32_MAX + 1) ELSE x
    IN  [decisions    |-> bump(total.decisions, TRUE),
         grants       |-> bump(total.grants, Allowed(d.action)),
         denials      |-> bump(total.denials, ~Allowed(d.action)),
         degradations |-> bump(total.degradations,
                               d.action = "ALLOW_DEGRADED")]

-----------------------------------------------------------------------------
(* Initialisation. *)

(* Before the first loxbudget_init: the instance and its storage are       *)
(* static, hence zero, and the callers' variables are zero-initialised.    *)
Init ==
    /\ magic = FALSE /\ pressure = NORMAL /\ lease_magic_base = 0
    /\ halcfg = NoHal /\ total = NoTotal
    /\ res = [r \in ResourceIds |-> NoEntry]
    /\ op_cfg = [o \in OpIds |-> FALSE]
    /\ ops = [o \in OpIds |-> NoProfile]
    /\ needs = [o \in OpIds |-> [i \in NeedIndex |-> NoNeed]]
    /\ slots = [i \in LeaseIds |-> FreeSlot]
    /\ hal \in HalStates
    /\ lease = [c \in Callers |-> ZeroLease]
    /\ holds = [c \in Callers |-> NoHold]

(* loxbudget_init: zeroes the instance and every table, whatever state     *)
(* they were in, and derives a lease magic base that may repeat.           *)
InitOk(base, hc) ==
    /\ magic' = TRUE /\ pressure' = NORMAL /\ lease_magic_base' = base
    /\ halcfg' = hc /\ total' = NoTotal
    /\ res' = [r \in ResourceIds |-> NoEntry]
    /\ op_cfg' = [o \in OpIds |-> FALSE]
    /\ ops' = [o \in OpIds |-> NoProfile]
    /\ needs' = [o \in OpIds |-> [i \in NeedIndex |-> NoNeed]]
    /\ slots' = [i \in LeaseIds |-> FreeSlot]
    /\ holds' = [c \in Callers |-> NoHold]
    /\ UNCHANGED <<hal, lease>>

(* loxbudget_init with too little storage: the instance is zeroed, also    *)
(* when it was in use, and the tables are left as they are.                *)
InitNoSpace ==
    /\ magic' = FALSE /\ pressure' = NORMAL /\ lease_magic_base' = 0
    /\ halcfg' = NoHal /\ total' = NoTotal
    /\ holds' = [c \in Callers |-> NoHold]
    /\ UNCHANGED <<tables, hal, lease>>

(* loxbudget_deinit clears the magic word only. *)
Deinit ==
    /\ magic
    /\ magic' = FALSE
    /\ holds' = [c \in Callers |-> NoHold]
    /\ UNCHANGED <<pressure, lease_magic_base, halcfg, total, tables, hal,
                   lease>>

-----------------------------------------------------------------------------
(* Configuration. *)

MayConfigure == magic /\ (CallerMayReconfigure \/ ~Outstanding)

(* loxbudget_set_resource: a new limit always starts from zero usage. *)
SetResource(id, limit, kind) ==
    /\ MayConfigure
    /\ res' = [res EXCEPT ![id] =
                 [cfg |-> TRUE, kind |-> kind, limit |-> limit, used |-> 0,
                  reserved |-> 0, high_watermark |-> 0]]
    /\ UNCHANGED <<magic, pressure, lease_magic_base, halcfg, total, op_cfg,
                   ops, needs, slots, hal, lease, holds>>

(* Mutant: register_op forgets the boot precondition. *)
BugStrictHalOk(p) ==
    halcfg.strict =>
        p.flags \cap {"VOLTAGE_OK", "NETWORK_UP"} \subseteq halcfg.callbacks

(* The preconditions a strict instance has a callback for. *)
StrictHalOk(p) ==
    halcfg.strict => p.flags \cap Preconds \subseteq halcfg.callbacks

(* loxbudget_register_op. *)
RegisterOp(op, p) ==
    /\ magic
    /\ ~op_cfg[op]
    /\ StrictHalOk(p)
    /\ ops' = [ops EXCEPT ![op] = p]
    /\ op_cfg' = [op_cfg EXCEPT ![op] = TRUE]
    /\ needs' = [needs EXCEPT ![op] = [i \in NeedIndex |-> NoNeed]]
    /\ UNCHANGED <<magic, pressure, lease_magic_base, halcfg, total, res,
                   slots, hal, lease, holds>>

(* Mutant: op_set_need always appends. *)
BugNeedPlaces(op, r) == {i \in NeedIndex : needs[op][i].amount = 0}

(* The entry loxbudget_op_set_need writes: the one already there for the   *)
(* resource, else the first empty one.                                     *)
NeedPlaces(op, r) ==
    LET same == {i \in NeedIndex : /\ needs[op][i].amount # 0
                                   /\ needs[op][i].resource = r}
    IN  IF same # {} THEN same
        ELSE {i \in NeedIndex : needs[op][i].amount = 0}

(* loxbudget_op_set_need. *)
OpSetNeed(op, r, amount) ==
    /\ MayConfigure
    /\ op_cfg[op] /\ res[r].cfg
    /\ NeedPlaces(op, r) # {}
    /\ needs' = [needs EXCEPT ![op][Min(NeedPlaces(op, r))] =
                   [resource |-> r, amount |-> amount]]
    /\ UNCHANGED <<magic, pressure, lease_magic_base, halcfg, total, res,
                   op_cfg, ops, slots, hal, lease, holds>>

-----------------------------------------------------------------------------
(* Run time. *)

(* loxbudget_set_pressure. *)
SetPressure(p) ==
    /\ magic
    /\ pressure' = p
    /\ UNCHANGED <<magic, lease_magic_base, halcfg, total, tables, hal, lease,
                   holds>>

(* loxbudget_check: counts the decision and changes nothing else; also     *)
(* loxbudget_enter with a NULL lease pointer, which has counted by then.   *)
Check(op) ==
    /\ magic
    /\ total' = Counted(Decide(op))
    /\ UNCHANGED <<magic, pressure, lease_magic_base, halcfg, tables, hal,
                   lease, holds>>

(* loxbudget_enter when the decision is no: the caller's lease variable is *)
(* zeroed, except for an unknown operation, which returns before that.     *)
EnterDenied(c, op) ==
    /\ magic
    /\ ~Allowed(Decide(op).action)
    /\ total' = Counted(Decide(op))
    /\ lease' = IF Registered(op) THEN [lease EXCEPT ![c] = ZeroLease]
                                  ELSE lease
    /\ UNCHANGED <<magic, pressure, lease_magic_base, halcfg, tables, hal,
                   holds>>

(* The test phase A makes of the whole list. *)
PhaseAPasses(op) == \A i \in NeedIndex : ~PhaseAFails(needs[op][i], res)

(* loxbudget_enter refused after an allowing decision, which stays counted *)
(* as a grant: by phase A or for want of a slot.  The lease is untouched.  *)
EnterRefused(c, op) ==
    /\ magic
    /\ Allowed(Decide(op).action)
    /\ ~PhaseAPasses(op) \/ FreeSlots = {}
    /\ total' = Counted(Decide(op))
    /\ UNCHANGED <<magic, pressure, lease_magic_base, halcfg, tables, hal,
                   lease, holds>>

(* The resource table after the commit loop of loxbudget_enter. *)
Committed(op) ==
    [r \in ResourceIds |-> IF NeedOf(op, r) = 0 THEN res[r]
                           ELSE CommitNeed(res[r], NeedOf(op, r))]

(* loxbudget_enter granting a lease in the first free slot. *)
EnterGranted(c, op) ==
    /\ magic
    /\ Allowed(Decide(op).action)
    /\ PhaseAPasses(op)
    /\ FreeSlots # {}
    /\ LET id == Min(FreeSlots)
       IN  /\ slots' = [slots EXCEPT ![id] =
                          [active |-> TRUE, magic |-> MagicFor(id),
                           acquired_pressure |-> pressure]]
           /\ lease' = [lease EXCEPT ![c] =
                          [id |-> id, magic |-> MagicFor(id), op |-> op]]
    /\ res' = Committed(op)
    /\ total' = Counted(Decide(op))
    /\ holds' = [holds EXCEPT ![c] =
                   [on |-> TRUE,
                    amount |-> [r \in ResourceIds |->
                                  IF res[r].kind = "REUSABLE"
                                  THEN NeedOf(op, r) ELSE 0]]]
    /\ UNCHANGED <<magic, pressure, lease_magic_base, halcfg, op_cfg, ops,
                   needs, hal>>

(* loxbudget_enter; only a careless caller overwrites the token of a lease *)
(* it still holds and so loses it.                                         *)
Enter(c, op) ==
    /\ ~holds[c].on \/ CallerMayReplay
    /\ EnterDenied(c, op) \/ EnterRefused(c, op) \/ EnterGranted(c, op)

(* The resource table after the release loop of loxbudget_leave, which     *)
(* reads the need list the operation has now.                              *)
Released(op) ==
    [r \in ResourceIds |-> IF NeedOf(op, r) = 0 THEN res[r]
                           ELSE ReleaseNeed(res[r], NeedOf(op, r))]

(* Mutant: leave returns the resources and forgets the slot. *)
BugLeave(c) ==
    /\ holds[c].on \/ CallerMayReplay
    /\ LeaseAccepted(lease[c])
    /\ res' = Released(lease[c].op)
    /\ holds' = [holds EXCEPT ![c] = NoHold]
    /\ UNCHANGED <<magic, pressure, lease_magic_base, halcfg, total, op_cfg,
                   ops, needs, slots, hal, lease>>

(* loxbudget_leave; a refused lease changes nothing. *)
Leave(c) ==
    /\ holds[c].on \/ CallerMayReplay
    /\ LeaseAccepted(lease[c])
    /\ res' = Released(lease[c].op)
    /\ slots' = [slots EXCEPT ![lease[c].id].active = FALSE,
                              ![lease[c].id].magic = NoMagic]
    /\ holds' = [holds EXCEPT ![c] = NoHold]
    /\ UNCHANGED <<magic, pressure, lease_magic_base, halcfg, total, op_cfg,
                   ops, needs, hal, lease>>

(* The application's boot, voltage or network state changes. *)
HalChange(h) ==
    /\ hal' = h
    /\ UNCHANGED <<magic, pressure, lease_magic_base, halcfg, total, tables,
                   lease, holds>>

-----------------------------------------------------------------------------

(* Operation numbers a caller may pass: the registered range and one past. *)
OpInputs == 0 .. MaxOps

Next ==
    \/ \E b \in MagicBases, hc \in HalConfigs : InitOk(b, hc)
    \/ InitNoSpace
    \/ Deinit
    \/ \E x \in ResourceCalls : SetResource(x[1], x[2], x[3])
    \/ \E x \in ProfileCalls : RegisterOp(x[1], x[2])
    \/ \E x \in NeedCalls : OpSetNeed(x[1], x[2], x[3])
    \/ \E p \in PressureCalls : SetPressure(p)
    \/ \E op \in OpInputs : Check(op)
    \/ \E c \in Callers, op \in OpInputs : Enter(c, op)
    \/ \E c \in Callers : Leave(c)
    \/ \E h \in HalStates : HalChange(h)

Spec == Init /\ [][Next]_vars

-----------------------------------------------------------------------------
(* Properties that hold whatever the callers do. *)

(* An operation's need list names no resource twice: loxbudget_op_set_need *)
(* replaces the amount of a resource already listed.  check and phase A    *)
(* compare one entry at a time with what is available, so without this an  *)
(* operation could be granted the sum of two entries.                      *)
NeedsDistinct ==
    \A op \in OpIds : \A i, j \in NeedIndex :
        (/\ needs[op][i].amount # 0 /\ needs[op][j].amount # 0
         /\ needs[op][i].resource = needs[op][j].resource) => i = j

(* No sequence of calls, misuse included, makes a resource account for     *)
(* more than its limit, so the uint16_t sums of loxbudget_enter never wrap *)
(* when calls do not overlap.                                              *)
NoOvercommit ==
    \A r \in ResourceIds : res[r].used + res[r].reserved <= res[r].limit

(* The high watermark covers the present usage and stays within the limit: *)
(* what snapshots and calibration read from it is a level really reached.  *)
WatermarkBounds ==
    \A r \in ResourceIds :
        /\ res[r].used <= res[r].high_watermark
        /\ res[r].reserved <= res[r].high_watermark
        /\ res[r].high_watermark <= res[r].limit

(* What loxbudget_check allows, phase A of loxbudget_enter allows in the   *)
(* same state: the two scans of the need list, the second of which ignores *)
(* res_cfg, never disagree in a single context.                            *)
PhaseAAgrees ==
    \A op \in OpIds :
        (magic /\ Allowed(Decide(op).action)) => PhaseAPasses(op)

(* On a strict instance the tests of loxbudget_register_op are enough:     *)
(* no registered operation is ever refused with HAL_NOT_CONFIGURED.        *)
StrictHalResolved ==
    \A op \in OpIds :
        (magic /\ Registered(op)) => Decide(op).reason # "HAL_NOT_CONFIGURED"

(* SPEC.md "fail-closed by default": an operation that asks for a HAL      *)
(* precondition is allowed only if a callback installed at init vouches    *)
(* for it at that moment; no combination of strict mode, missing callbacks *)
(* and weak symbols lets it through.                                       *)
FailClosed ==
    \A op \in OpIds :
        (magic /\ Registered(op) /\ Allowed(Decide(op).action)) =>
            \A x \in ops[op].flags \cap Preconds :
                x \in halcfg.callbacks /\ hal[x]

(* Each decision is counted once, as a grant or as a denial, on every      *)
(* return path of loxbudget_check (modulo the counters' width).            *)
CountersBalance ==
    total.decisions = (total.grants + total.denials) % (U32_MAX + 1)

(* Consumption is not given back: no call but loxbudget_set_resource on    *)
(* that resource, or a new loxbudget_init, lowers used.                    *)
ConsumedStays ==
    [][\A r \in ResourceIds :
          \/ res'[r].used >= res[r].used
          \/ res'[r].used = 0 /\ res'[r].high_watermark = 0]_vars

-----------------------------------------------------------------------------
(* Properties of callers that release each lease once and configure only   *)
(* while no lease is outstanding.                                          *)

(* The reserved counter of every reusable resource is what the outstanding *)
(* leases reserved when they were granted: nothing leaks, nothing is given *)
(* back twice, in whatever order leases are granted and released.          *)
ReservedIsHeld ==
    magic => \A r \in ResourceIds :
        res[r].reserved = SumOf([c \in Callers |-> holds[c].amount[r]])

(* A lease that was granted and not released is accepted by loxbudget_leave*)
(* and loxbudget_yield_check, and no other lease shares its slot; a slot   *)
(* in use belongs to some holder.                                          *)
HeldLeasesOwnSlots ==
    /\ \A c \in Callers : holds[c].on => LeaseAccepted(lease[c])
    /\ \A c, d \in Callers :
          (holds[c].on /\ holds[d].on /\ lease[c].id = lease[d].id) => c = d
    /\ magic => \A i \in LeaseIds :
          slots[i].active => \E c \in Callers : holds[c].on /\ lease[c].id = i

(* A lease that is not outstanding (released, or granted before a deinit   *)
(* or a new init) can pass the tests of loxbudget_leave only while its     *)
(* slot is in use by another lease: releasing twice in a row is detected.  *)
DoubleLeaveDetected ==
    \A c \in Callers :
        (~holds[c].on /\ LeaseAccepted(lease[c])) =>
            \E d \in Callers \ {c} : holds[d].on /\ lease[d].id = lease[c].id

(* An outstanding lease was granted at a pressure at which its operation   *)
(* is allowed: while the pressure is what it was, loxbudget_yield_check    *)
(* never tells a holder to abort, and never HOLDING once it should.        *)
LeaseAdmitted ==
    \A c \in Callers : holds[c].on =>
        LET acquired == slots[lease[c].id].acquired_pressure
            hint     == YieldHint(ops[lease[c].op], acquired, pressure)
        IN  /\ acquired = pressure => hint = "HOLDING"
            /\ hint = "HOLDING" => acquired = pressure
            /\ ~PressureBlocks(ops[lease[c].op], acquired)

(* WAIT for a resource tells the truth: unless the need exceeds the limit  *)
(* altogether, somebody holds some of that resource and can give it back.  *)
WaitIsHonest ==
    \A op \in OpIds :
        LET d == Decide(op)
        IN  (/\ magic
             /\ d.action = "WAIT" /\ d.reason = "INSUFFICIENT_RES"
             /\ d.requested <= res[d.denied_resource].limit)
            => \E c \in Callers : holds[c].amount[d.denied_resource] > 0

(* The whole instance behaves as a pool of atomic reservations: the        *)
(* counters reserved and used, the slots and the tokens implement          *)
(* ReservationPool, which knows only the holders.                          *)
Pool == INSTANCE ReservationPool
          WITH Holders <- Callers, Things <- ResourceIds,
               limit <- [r \in ResourceIds |-> res[r].limit],
               spent <- [r \in ResourceIds |-> res[r].used],
               held  <- [c \in Callers |-> holds[c].amount]

ImplementsPool == Pool!PoolSpec

-----------------------------------------------------------------------------
(* What SPEC.md section 27 says of leases ("A double-leave or a leave on a *)
(* stale lease is detected"): loxbudget_leave accepts only outstanding     *)
(* leases.  The code does not keep it: a slot's magic never changes, so a  *)
(* lease released earlier is accepted once its slot is granted again.      *)
StaleLeaseRejected ==
    \A c \in Callers : ~holds[c].on => ~LeaseAccepted(lease[c])

=============================================================================
