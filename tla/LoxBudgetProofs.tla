--------------------------- MODULE LoxBudgetProofs ---------------------------
(***************************************************************************)
(* Theorems about LoxBudget for every size of the tables, every set of     *)
(* callers and every set of inputs: first its accounts (what the tables    *)
(* and the counters hold), then need lists, leases and reservations, the   *)
(* HAL preconditions, that it implements ReservationPool, and last the     *)
(* layout of the tables in the buffer, for every configuration and build.  *)
(***************************************************************************)
EXTENDS LoxBudget, LoxLayout, LoxDecisionProofs

-----------------------------------------------------------------------------
(* Facts about the operators. *)

(* NeedOf is the amount of an entry of the list, or zero. *)
LEMMA NeedOfEntry ==
    ASSUME TypeOK, NEW op \in OpIds, NEW r \in ResourceIds
    PROVE  /\ NeedOf(op, r) \in U16
           /\ NeedOf(op, r) # 0 =>
                \E i \in NeedIndex : /\ needs[op][i].resource = r
                                     /\ needs[op][i].amount = NeedOf(op, r)
<1> DEFINE I == {i \in NeedIndex : /\ needs[op][i].amount # 0
                                   /\ needs[op][i].resource = r}
<1>1. needs[op] \in [NeedIndex -> Need]
  BY DEF TypeOK, NeedList
<1>2. CASE I = {}
  BY <1>2, SizesAssumption DEF NeedOf, U16
<1>3. CASE I # {}
  <2>1. I \in SUBSET Nat
    BY SizesAssumption DEF NeedIndex
  <2>2. Min(I) \in I
    BY <1>3, <2>1, MinIn
  <2>3. NeedOf(op, r) = needs[op][Min(I)].amount
    BY <1>3 DEF NeedOf
  <2>4. Min(I) \in NeedIndex /\ needs[op][Min(I)].resource = r
    BY <2>2
  <2> HIDE DEF I
  <2>5. needs[op][Min(I)] \in Need
    BY <1>1, <2>4
  <2> QED
    BY <2>3, <2>4, <2>5 DEF Need
<1> QED
  BY <1>2, <1>3

(* The counters keep their width. *)
LEMMA CountedType ==
    ASSUME total \in Total, NEW d
    PROVE  Counted(d) \in Total
<1>1. \A x \in 0 .. U32_MAX : (x + 1) % (U32_MAX + 1) \in 0 .. U32_MAX
  BY ModRange, InputsAssumption
<1> QED
  BY <1>1 DEF Counted, Total

(* loxbudget_check allows registered operations only. *)
LEMMA AllowedRegistered ==
    ASSUME NEW op, Allowed(Decide(op).action)
    PROVE  op \in OpIds /\ op_cfg[op]
  BY DEF Decide, Verdict, Allowed, Registered

(* The first free slot is a slot of the table. *)
LEMMA FreeSlotIn ==
    ASSUME FreeSlots # {}
    PROVE  Min(FreeSlots) \in LeaseIds /\ ~slots[Min(FreeSlots)].active
<1>1. FreeSlots \in SUBSET Nat
  BY SizesAssumption DEF FreeSlots, LeaseIds
<1>2. Min(FreeSlots) \in FreeSlots
  BY <1>1, MinIn
<1> QED
  BY <1>2 DEF FreeSlots

-----------------------------------------------------------------------------
(* The accounts.  The type invariant and the accounts go together: a sum   *)
(* stays in its width because it stays within the limit.                   *)

AccountsInv == TypeOK /\ \A r \in ResourceIds : Sound(res[r])

(* The zeroed tables that loxbudget_init leaves behind are well typed and  *)
(* account for nothing.                                                    *)
LEMMA ZeroTables ==
    /\ [r \in ResourceIds |-> NoEntry] \in [ResourceIds -> Resource]
    /\ Sound(NoEntry)
    /\ [o \in OpIds |-> NoProfile] \in [OpIds -> Profile]
    /\ [o \in OpIds |-> [i \in NeedIndex |-> NoNeed]] \in [OpIds -> NeedList]
    /\ [i \in NeedIndex |-> NoNeed] \in NeedList
    /\ [i \in LeaseIds |-> FreeSlot] \in [LeaseIds -> Slot]
    /\ [c \in Callers |-> ZeroLease] \in [Callers -> Token]
    /\ ZeroLease \in Token
    /\ [c \in Callers |-> NoHold] \in [Callers -> Hold]
    /\ NoHold \in Hold
    /\ NoHal \in HalConfig
    /\ NoTotal \in Total
    /\ NORMAL \in Pressures
<1>1. 0 \in U16 /\ 0 \in ResourceIds /\ 0 \in LeaseIds /\ 0 \in OpIds
  BY SizesAssumption DEF U16, ResourceIds, LeaseIds, OpIds
<1>2. NoEntry \in Resource /\ Sound(NoEntry)
  BY <1>1 DEF NoEntry, Resource, Kinds, Sound
<1>3. NORMAL \in Pressures
  BY DEF NORMAL, LOCKDOWN, Pressures
<1>4. NoProfile \in Profile
  BY DEF NoProfile, Profile, Actions
<1>5. NoNeed \in Need
  BY <1>1 DEF NoNeed, Need
<1>6. NoMagic \in Magics
  BY <1>1 DEF NoMagic, Magics, Bases
<1>7. FreeSlot \in Slot /\ ZeroLease \in Token
  BY <1>1, <1>3, <1>6 DEF FreeSlot, Slot, ZeroLease, Token
<1>8. NoHold \in Hold
  BY <1>1 DEF NoHold, Hold
<1>9. NoHal \in HalConfig /\ NoTotal \in Total
  BY InputsAssumption DEF NoHal, HalConfig, NoTotal, Total
<1> QED
  BY <1>2, <1>3, <1>4, <1>5, <1>7, <1>8, <1>9 DEF NeedList

(* Before the first loxbudget_init every account is zero. *)
LEMMA AccountsInit == Init => AccountsInv
<1> SUFFICES ASSUME Init PROVE AccountsInv
  OBVIOUS
<1>1. hal \in [Preconds -> BOOLEAN]
  BY InputsAssumption DEF Init
<1>2. TypeOK
  BY <1>1, ZeroTables DEF Init, TypeOK, Bases
<1> QED
  BY <1>2, ZeroTables DEF Init, AccountsInv

(* loxbudget_init, loxbudget_deinit. *)
LEMMA AccountsStartStop ==
    ASSUME AccountsInv,
           \/ \E b \in MagicBases, hc \in HalConfigs : InitOk(b, hc)
           \/ InitNoSpace
           \/ Deinit
    PROVE  AccountsInv'
<1>1. ASSUME NEW b \in MagicBases, NEW hc \in HalConfigs, InitOk(b, hc)
      PROVE  AccountsInv'
  <2>1. b \in Bases /\ hc \in HalConfig
    BY InputsAssumption DEF Bases
  <2> QED
    BY <1>1, <2>1, ZeroTables DEF AccountsInv, TypeOK, InitOk
<1>2. CASE InitNoSpace
  BY <1>2, ZeroTables DEF AccountsInv, TypeOK, InitNoSpace, tables, Bases
<1>3. CASE Deinit
  BY <1>3, ZeroTables DEF AccountsInv, TypeOK, Deinit, tables
<1> QED
  BY <1>1, <1>2, <1>3

(* loxbudget_set_resource, loxbudget_register_op, loxbudget_op_set_need.   *)
LEMMA AccountsConfigure ==
    ASSUME AccountsInv,
           \/ \E x \in ResourceCalls : SetResource(x[1], x[2], x[3])
           \/ \E x \in ProfileCalls : RegisterOp(x[1], x[2])
           \/ \E x \in NeedCalls : OpSetNeed(x[1], x[2], x[3])
    PROVE  AccountsInv'
<1>1. ASSUME NEW x \in ResourceCalls, SetResource(x[1], x[2], x[3])
      PROVE  AccountsInv'
  <2> DEFINE e == [cfg |-> TRUE, kind |-> x[3], limit |-> x[2], used |-> 0,
                   reserved |-> 0, high_watermark |-> 0]
  <2>1. x[1] \in ResourceIds /\ x[2] \in U16 /\ x[3] \in Kinds
    BY InputsAssumption
  <2>2. e \in Resource /\ Sound(e)
    BY <2>1, SizesAssumption DEF Resource, Sound, U16
  <2>3. res' = [res EXCEPT ![x[1]] = e]
    BY <1>1 DEF SetResource
  <2> HIDE DEF e
  <2>4. res' \in [ResourceIds -> Resource]
        /\ \A r \in ResourceIds : Sound(res'[r])
    BY <2>1, <2>2, <2>3 DEF AccountsInv, TypeOK
  <2> QED
    BY <1>1, <2>4 DEF AccountsInv, TypeOK, SetResource
<1>2. ASSUME NEW x \in ProfileCalls, RegisterOp(x[1], x[2])
      PROVE  AccountsInv'
  <2>1. x[1] \in OpIds /\ x[2] \in Profile
    BY InputsAssumption
  <2> QED
    BY <1>2, <2>1, ZeroTables DEF AccountsInv, TypeOK, RegisterOp
<1>3. ASSUME NEW x \in NeedCalls, OpSetNeed(x[1], x[2], x[3])
      PROVE  AccountsInv'
  <2> DEFINE k == Min(NeedPlaces(x[1], x[2]))
             n == [resource |-> x[2], amount |-> x[3]]
  <2>1. x[1] \in OpIds /\ x[2] \in ResourceIds /\ x[3] \in U16
    BY InputsAssumption
  <2>2. NeedPlaces(x[1], x[2]) \in SUBSET Nat
        /\ NeedPlaces(x[1], x[2]) \subseteq NeedIndex
    BY SizesAssumption DEF NeedPlaces, NeedIndex
  <2>3. k \in NeedIndex
    BY <1>3, <2>2, MinIn DEF OpSetNeed
  <2>4. n \in Need
    BY <2>1 DEF Need
  <2>5. needs' = [needs EXCEPT ![x[1]][k] = n]
    BY <1>3 DEF OpSetNeed
  <2> HIDE DEF k, n
  <2>6. needs' \in [OpIds -> NeedList]
    BY <2>1, <2>3, <2>4, <2>5 DEF AccountsInv, TypeOK, NeedList
  <2> QED
    BY <1>3, <2>6 DEF AccountsInv, TypeOK, OpSetNeed
<1> QED
  BY <1>1, <1>2, <1>3

(* What phase A lets pass is available, entry by entry. *)
LEMMA NeedAvailable ==
    ASSUME AccountsInv, NEW op \in OpIds, NEW r \in ResourceIds,
           PhaseAPasses(op), NeedOf(op, r) # 0, res[r].kind # "STATE"
    PROVE  AvailableOf(res[r]) >= NeedOf(op, r)
<1>1. res[r] \in Resource /\ Sound(res[r]) /\ NeedOf(op, r) \in U16
  BY NeedOfEntry DEF AccountsInv, TypeOK
<1>2. PICK i \in NeedIndex : /\ needs[op][i].resource = r
                             /\ needs[op][i].amount = NeedOf(op, r)
  BY NeedOfEntry DEF AccountsInv
<1>3. ~PhaseAFails(needs[op][i], res)
  BY DEF PhaseAPasses
<1>4. ~(AvailableOf(res[r]) < NeedOf(op, r))
  BY <1>2, <1>3 DEF PhaseAFails
<1>5. AvailableOf(res[r]) = res[r].limit - res[r].used - res[r].reserved
  BY <1>1, AvailableExact DEF AvailableOf, Resource, Sound
<1> QED
  BY <1>1, <1>4, <1>5 DEF Resource, U16

(* The resource table after a granted loxbudget_enter. *)
LEMMA CommittedSound ==
    ASSUME AccountsInv, NEW op \in OpIds, PhaseAPasses(op)
    PROVE  /\ Committed(op) \in [ResourceIds -> Resource]
           /\ \A r \in ResourceIds : Sound(Committed(op)[r])
<1> SUFFICES ASSUME NEW r \in ResourceIds
             PROVE  /\ Committed(op)[r] \in Resource
                    /\ Sound(Committed(op)[r])
  BY DEF Committed
<1>1. res[r] \in Resource /\ Sound(res[r])
  BY DEF AccountsInv, TypeOK
<1>2. NeedOf(op, r) \in U16
  BY NeedOfEntry DEF AccountsInv
<1>3. CASE NeedOf(op, r) = 0
  BY <1>1, <1>3 DEF Committed
<1>4. CASE NeedOf(op, r) # 0
  <2>1. res[r].kind # "STATE" => AvailableOf(res[r]) >= NeedOf(op, r)
    BY <1>4, NeedAvailable
  <2>2. Committed(op)[r] = CommitNeed(res[r], NeedOf(op, r))
    BY <1>4 DEF Committed
  <2> QED
    BY <1>1, <1>2, <2>1, <2>2, CommitSound
<1> QED
  BY <1>3, <1>4

(* The resource table after an accepted loxbudget_leave. *)
LEMMA ReleasedSound ==
    ASSUME AccountsInv, NEW op \in OpIds
    PROVE  /\ Released(op) \in [ResourceIds -> Resource]
           /\ \A r \in ResourceIds : Sound(Released(op)[r])
<1> SUFFICES ASSUME NEW r \in ResourceIds
             PROVE  /\ Released(op)[r] \in Resource
                    /\ Sound(Released(op)[r])
  BY DEF Released
<1>1. res[r] \in Resource /\ Sound(res[r])
  BY DEF AccountsInv, TypeOK
<1>2. NeedOf(op, r) \in U16
  BY NeedOfEntry DEF AccountsInv
<1> QED
  BY <1>1, <1>2, ReleaseSound DEF Released

(* loxbudget_set_pressure, loxbudget_check and the world outside. *)
LEMMA AccountsQuery ==
    ASSUME AccountsInv,
           \/ \E p \in PressureCalls : SetPressure(p)
           \/ \E op \in OpInputs : Check(op)
           \/ \E h \in HalStates : HalChange(h)
    PROVE  AccountsInv'
<1>1. ASSUME NEW p \in PressureCalls, SetPressure(p) PROVE AccountsInv'
  BY <1>1, InputsAssumption DEF AccountsInv, TypeOK, SetPressure, tables
<1>2. ASSUME NEW op \in OpInputs, Check(op) PROVE AccountsInv'
  <2>1. Counted(Decide(op)) \in Total
    BY CountedType DEF AccountsInv, TypeOK
  <2> QED
    BY <1>2, <2>1 DEF AccountsInv, TypeOK, Check, tables
<1>3. ASSUME NEW h \in HalStates, HalChange(h) PROVE AccountsInv'
  BY <1>3, InputsAssumption DEF AccountsInv, TypeOK, HalChange, tables
<1> QED
  BY <1>1, <1>2, <1>3

(* loxbudget_enter. *)
LEMMA AccountsEnter ==
    ASSUME AccountsInv, NEW c \in Callers, NEW op \in OpInputs, Enter(c, op)
    PROVE  AccountsInv'
<1>1. Counted(Decide(op)) \in Total
  BY CountedType DEF AccountsInv, TypeOK
<1>2. CASE EnterDenied(c, op)
  <2>1. lease' \in [Callers -> Token]
    BY <1>2, ZeroTables DEF AccountsInv, TypeOK, EnterDenied
  <2> QED
    BY <1>1, <1>2, <2>1 DEF AccountsInv, TypeOK, EnterDenied, tables
<1>3. CASE EnterRefused(c, op)
  BY <1>1, <1>3 DEF AccountsInv, TypeOK, EnterRefused, tables
<1>4. CASE EnterGranted(c, op)
  <2> DEFINE id == Min(FreeSlots)
             sl == [active |-> TRUE, magic |-> MagicFor(id),
                    acquired_pressure |-> pressure]
             tk == [id |-> id, magic |-> MagicFor(id), op |-> op]
             hd == [on |-> TRUE,
                    amount |-> [r \in ResourceIds |->
                                  IF res[r].kind = "REUSABLE"
                                  THEN NeedOf(op, r) ELSE 0]]
  <2>1. op \in OpIds
    BY <1>4, AllowedRegistered DEF EnterGranted
  <2>2. id \in LeaseIds
    BY <1>4, FreeSlotIn DEF EnterGranted
  <2>3. MagicFor(id) \in Magics
    BY <2>2 DEF MagicFor, Magics, AccountsInv, TypeOK
  <2>4. sl \in Slot /\ tk \in Token
    BY <2>1, <2>2, <2>3 DEF Slot, Token, AccountsInv, TypeOK
  <2>5. \A r \in ResourceIds : NeedOf(op, r) \in U16 /\ 0 \in U16
    BY <2>1, NeedOfEntry, SizesAssumption DEF AccountsInv, U16
  <2>6. hd \in Hold
    BY <2>5 DEF Hold
  <2>7. /\ slots' = [slots EXCEPT ![id] = sl]
        /\ lease' = [lease EXCEPT ![c] = tk]
        /\ holds' = [holds EXCEPT ![c] = hd]
    BY <1>4 DEF EnterGranted
  <2> HIDE DEF id, sl, tk, hd
  <2>8. /\ slots' \in [LeaseIds -> Slot]
        /\ lease' \in [Callers -> Token]
        /\ holds' \in [Callers -> Hold]
    BY <2>2, <2>4, <2>6, <2>7 DEF AccountsInv, TypeOK
  <2>9. /\ res' \in [ResourceIds -> Resource]
        /\ \A r \in ResourceIds : Sound(res'[r])
    BY <1>4, <2>1, CommittedSound DEF EnterGranted
  <2> QED
    BY <1>1, <1>4, <2>8, <2>9 DEF AccountsInv, TypeOK, EnterGranted
<1> QED
  BY <1>2, <1>3, <1>4 DEF Enter

(* loxbudget_leave, of an outstanding lease or of any other. *)
LEMMA AccountsLeave ==
    ASSUME AccountsInv, NEW c \in Callers, Leave(c)
    PROVE  AccountsInv'
<1>1. lease[c] \in Token /\ lease[c].op \in OpIds /\ lease[c].id \in LeaseIds
  BY DEF AccountsInv, TypeOK, Token
<1>2. /\ res' \in [ResourceIds -> Resource]
      /\ \A r \in ResourceIds : Sound(res'[r])
  BY <1>1, ReleasedSound DEF Leave
<1>3. NoMagic \in Magics
  BY SizesAssumption DEF NoMagic, Magics, Bases, LeaseIds
<1>4. slots' \in [LeaseIds -> Slot]
  BY <1>1, <1>3 DEF Leave, AccountsInv, TypeOK, Slot
<1>5. holds' \in [Callers -> Hold]
  BY ZeroTables DEF Leave, AccountsInv, TypeOK
<1> QED
  BY <1>2, <1>4, <1>5 DEF Leave, AccountsInv, TypeOK

(* Every public call keeps the accounts of every resource in order. *)
LEMMA AccountsStep == AccountsInv /\ [Next]_vars => AccountsInv'
<1> SUFFICES ASSUME AccountsInv, [Next]_vars PROVE AccountsInv'
  OBVIOUS
<1>1. CASE UNCHANGED vars
  BY <1>1 DEF AccountsInv, TypeOK, vars, tables
<1>2. CASE Next
  BY <1>2, AccountsStartStop, AccountsConfigure, AccountsQuery,
     AccountsEnter, AccountsLeave DEF Next
<1> QED
  BY <1>1, <1>2

(* The accounts of every resource stay in order: the inductive invariant   *)
(* from which the type, the limits and the watermark follow.               *)
THEOREM AccountsInvariant == Spec => []AccountsInv
  BY AccountsInit, AccountsStep, PTL DEF Spec

(* Every table, counter and token keeps the type the C code declares, for  *)
(* all callers, also those that replay leases and reconfigure at any time. *)
THEOREM TypeCorrect == Spec => []TypeOK
<1>1. AccountsInv => TypeOK
  BY DEF AccountsInv
<1> QED
  BY <1>1, AccountsInvariant, PTL

(* No sequence of calls, whatever the callers do with old leases and with  *)
(* the configuration, commits more of a resource than its limit.           *)
THEOREM NeverOvercommitted == Spec => []NoOvercommit
<1>1. AccountsInv => NoOvercommit
  BY DEF AccountsInv, Sound, NoOvercommit
<1> QED
  BY <1>1, AccountsInvariant, PTL

(* The high watermark lies between the present usage and the limit.        *)
THEOREM WatermarkCorrect == Spec => []WatermarkBounds
<1>1. AccountsInv => WatermarkBounds
  BY DEF AccountsInv, Sound, WatermarkBounds
<1> QED
  BY <1>1, AccountsInvariant, PTL

(* No call lowers what is consumed of a resource; only a new limit or a    *)
(* new loxbudget_init starts it from zero, with its watermark.             *)
LEMMA ConsumedStep ==
    ASSUME AccountsInv, [Next]_vars, NEW r \in ResourceIds
    PROVE  \/ res'[r].used >= res[r].used
           \/ res'[r].used = 0 /\ res'[r].high_watermark = 0
<1>1. res \in [ResourceIds -> Resource] /\ res[r] \in Resource /\ Sound(res[r])
  BY DEF AccountsInv, TypeOK
<1>2. res[r].used \in Nat
  BY <1>1, SizesAssumption DEF Resource, U16
<1>3. CASE UNCHANGED res
  BY <1>2, <1>3
<1>4. ASSUME NEW b \in MagicBases, NEW hc \in HalConfigs, InitOk(b, hc)
      PROVE  res'[r].used = 0 /\ res'[r].high_watermark = 0
  BY <1>4 DEF InitOk, NoEntry
<1>5. ASSUME NEW x \in ResourceCalls, SetResource(x[1], x[2], x[3])
      PROVE  \/ res'[r] = res[r]
             \/ res'[r].used = 0 /\ res'[r].high_watermark = 0
  BY <1>1, <1>5 DEF SetResource
<1>6. ASSUME NEW c \in Callers, NEW op \in OpInputs, EnterGranted(c, op)
      PROVE  res'[r].used >= res[r].used
  <2>1. op \in OpIds /\ PhaseAPasses(op)
    BY <1>6, AllowedRegistered DEF EnterGranted
  <2>2. CASE NeedOf(op, r) = 0
    BY <1>2, <1>6, <2>2 DEF EnterGranted, Committed
  <2>3. CASE NeedOf(op, r) # 0
    <3>1. NeedOf(op, r) \in U16
      BY <2>1, NeedOfEntry DEF AccountsInv
    <3>2. res[r].kind # "STATE" => AvailableOf(res[r]) >= NeedOf(op, r)
      BY <2>1, <2>3, NeedAvailable
    <3>3. res'[r] = CommitNeed(res[r], NeedOf(op, r))
      BY <1>6, <2>3 DEF EnterGranted, Committed
    <3> QED
      BY <1>1, <3>1, <3>2, <3>3, CommitConsumes
  <2> QED
    BY <2>2, <2>3
<1>7. ASSUME NEW c \in Callers, Leave(c) PROVE res'[r].used = res[r].used
  BY <1>1, <1>7 DEF Leave, Released, ReleaseNeed, Resource
<1>8. CASE \/ InitNoSpace
           \/ Deinit
           \/ \E x \in ProfileCalls : RegisterOp(x[1], x[2])
           \/ \E x \in NeedCalls : OpSetNeed(x[1], x[2], x[3])
           \/ \E p \in PressureCalls : SetPressure(p)
           \/ \E op \in OpInputs : Check(op)
           \/ \E h \in HalStates : HalChange(h)
           \/ UNCHANGED vars
  BY <1>3, <1>8 DEF InitNoSpace, Deinit, RegisterOp, OpSetNeed, SetPressure,
     Check, HalChange, vars, tables
<1>9. ASSUME NEW c \in Callers, NEW op \in OpInputs, Enter(c, op)
      PROVE  res'[r].used >= res[r].used
  BY <1>2, <1>6, <1>9 DEF Enter, EnterDenied, EnterRefused, tables
<1> QED
  BY <1>2, <1>4, <1>5, <1>7, <1>8, <1>9 DEF Next

(* Consumption is not given back, whatever is released and however often.  *)
THEOREM ConsumptionStays == Spec => ConsumedStays
<1>1. AccountsInv /\ [Next]_vars =>
        [\A r \in ResourceIds :
            \/ res'[r].used >= res[r].used
            \/ res'[r].used = 0 /\ res'[r].high_watermark = 0]_vars
  BY ConsumedStep
<1> QED
  BY <1>1, AccountsInvariant, PTL DEF Spec, ConsumedStays

-----------------------------------------------------------------------------
(* Decisions. *)

(* The decision for an operation that is allowed is its profile's. *)
LEMMA AllowedStages ==
    ASSUME NEW op, Allowed(Decide(op).action)
    PROVE  /\ ~PressureBlocks(ops[op], pressure)
           /\ HalFailures(ops[op], halcfg, hal) = {}
           /\ NeedFailures(needs[op], res) = {}
<1>1. Decide(op) = ProfileDecision(ops[op], pressure, halcfg, hal, needs[op],
                                   res)
  BY DEF Decide, Verdict, Allowed
<1> QED
  BY <1>1, AllowedPasses

(* Phase A of loxbudget_enter never refuses what loxbudget_check allowed   *)
(* in the same state, although it does not look at res_cfg.                *)
THEOREM PhaseANeverDisagrees == Spec => []PhaseAAgrees
<1>1. ASSUME NEW op \in OpIds, Allowed(Decide(op).action)
      PROVE  PhaseAPasses(op)
  <2>1. NeedFailures(needs[op], res) = {}
    BY <1>1, AllowedStages
  <2> QED
    BY <2>1, PhaseAFollows DEF NeedFailures, PhaseAPasses
<1>2. PhaseAAgrees
  BY <1>1 DEF PhaseAAgrees
<1> QED
  BY <1>2, PTL

(* An operation that asks for a HAL precondition is allowed only if a      *)
(* callback vouches for it now, for every mixture of strict and lax        *)
(* instances and of installed callbacks.                                   *)
THEOREM FailsClosed == Spec => []FailClosed
<1>1. ASSUME NEW op \in OpIds, Allowed(Decide(op).action),
             NEW x \in ops[op].flags \cap Preconds
      PROVE  x \in halcfg.callbacks /\ hal[x]
  <2>1. HalFailures(ops[op], halcfg, hal) = {}
    BY <1>1, AllowedStages
  <2>2. PICK i \in 1 .. 3 : x = HalOrder[i]
    <3>1. /\ HalOrder[1] = "BOOT_PROVEN" /\ HalOrder[2] = "VOLTAGE_OK"
          /\ HalOrder[3] = "NETWORK_UP"
      BY DEF HalOrder
    <3>2. 1 \in 1 .. 3 /\ 2 \in 1 .. 3 /\ 3 \in 1 .. 3
      OBVIOUS
    <3> QED
      BY <3>1, <3>2 DEF Preconds
  <2>3. HalAnswer(halcfg, hal, x) = "TRUE"
    BY <2>1, <2>2 DEF HalFailures
  <2> QED
    BY <2>3 DEF HalAnswer, WeakAnswer
<1>2. FailClosed
  BY <1>1 DEF FailClosed
<1> QED
  BY <1>2, PTL

-----------------------------------------------------------------------------
(* The counters. *)

(* Counting one decision more on each side keeps two wrapping sums equal.  *)
LEMMA WrappedSums ==
    ASSUME NEW m \in Nat, NEW d \in 0 .. m, NEW g \in 0 .. m, NEW n \in 0 .. m,
           d = (g + n) % (m + 1)
    PROVE  (d + 1) % (m + 1) = (((g + 1) % (m + 1)) + n) % (m + 1)
<1>1. CASE g + n <= m
  <2>1. d = g + n
    BY <1>1, ModSmall
  <2>2. CASE g < m
    <3>1. (g + 1) % (m + 1) = g + 1
      BY <2>2, ModSmall
    <3> QED
      BY <2>1, <3>1
  <2>3. CASE g = m
    <3>1. (g + 1) % (m + 1) = 0 /\ n = 0
      BY <1>1, <2>3
    <3> QED
      BY <2>1, <3>1
  <2> QED
    BY <2>2, <2>3
<1>2. CASE g + n > m
  <2>1. g + n - (m + 1) \in 0 .. m
    BY <1>2
  <2>2. d = g + n - (m + 1)
    BY <2>1, ModOver
  <2>3. CASE g < m
    <3>1. (g + 1) % (m + 1) = g + 1
      BY <2>3, ModSmall
    <3>2. (d + 1) + (m + 1) = (g + 1) + n
      BY <2>2
    <3>3. d + 1 \in 0 .. m
      BY <2>2, <2>3
    <3>4. (d + 1) % (m + 1) = d + 1
      BY <3>3, ModSmall
    <3>5. ((d + 1) + (m + 1)) % (m + 1) = d + 1
      BY <3>3, ModOver
    <3> QED
      BY <3>1, <3>2, <3>4, <3>5
  <2>4. CASE g = m
    <3>1. (g + 1) % (m + 1) = 0
      BY <2>4
    <3>2. d + 1 = n
      BY <2>2, <2>4
    <3> QED
      BY <3>1, <3>2
  <2> QED
    BY <2>3, <2>4
<1> QED
  BY <1>1, <1>2

(* Every decision is one grant or one denial. *)
LEMMA CountedBalances ==
    ASSUME total \in Total, CountersBalance, NEW d
    PROVE  LET t == Counted(d)
           IN  t.decisions = (t.grants + t.denials) % (U32_MAX + 1)
<1> DEFINE t == Counted(d)
<1>1. /\ total.decisions \in 0 .. U32_MAX /\ total.grants \in 0 .. U32_MAX
      /\ total.denials \in 0 .. U32_MAX /\ U32_MAX \in Nat
  BY InputsAssumption DEF Total
<1>2. t.decisions = (total.decisions + 1) % (U32_MAX + 1)
  BY DEF Counted
<1>3. /\ Allowed(d.action) =>
           /\ t.grants = (total.grants + 1) % (U32_MAX + 1)
           /\ t.denials = total.denials
      /\ ~Allowed(d.action) =>
           /\ t.denials = (total.denials + 1) % (U32_MAX + 1)
           /\ t.grants = total.grants
  BY DEF Counted
<1>4. /\ total.decisions = (total.grants + total.denials) % (U32_MAX + 1)
      /\ total.decisions = (total.denials + total.grants) % (U32_MAX + 1)
  BY <1>1 DEF CountersBalance
<1>5. /\ (total.decisions + 1) % (U32_MAX + 1) =
           (((total.grants + 1) % (U32_MAX + 1)) + total.denials) % (U32_MAX + 1)
      /\ (total.decisions + 1) % (U32_MAX + 1) =
           (((total.denials + 1) % (U32_MAX + 1)) + total.grants) % (U32_MAX + 1)
  BY <1>1, <1>4, WrappedSums, Zenon
<1>6. ((total.denials + 1) % (U32_MAX + 1)) + total.grants =
        total.grants + ((total.denials + 1) % (U32_MAX + 1))
  <2>1. \A x, y \in Nat : x + y = y + x
    OBVIOUS
  <2>2. total.denials + 1 \in Nat /\ total.grants \in Nat
    BY <1>1
  <2>3. (total.denials + 1) % (U32_MAX + 1) \in Nat
    BY <1>1, <2>2, ModRange
  <2> QED
    BY <2>1, <2>2, <2>3, Zenon
<1> HIDE DEF t
<1>7. t.decisions = (t.grants + t.denials) % (U32_MAX + 1)
  BY <1>2, <1>3, <1>5, <1>6, Zenon
<1> QED
  BY <1>7 DEF t

(* Every decision is counted once as a grant or as a denial, also across   *)
(* the wrap of the uint32_t counters.                                      *)
THEOREM CountersAlwaysBalance == Spec => []CountersBalance
<1>1. Init => CountersBalance
  BY InputsAssumption, ModSmall DEF Init, NoTotal, CountersBalance
<1>2. ASSUME TypeOK, CountersBalance, [Next]_vars PROVE CountersBalance'
  <2>1. CASE UNCHANGED total
    BY <1>2, <2>1 DEF CountersBalance
  <2>2. CASE total' = NoTotal
    BY <2>2, InputsAssumption, ModSmall DEF NoTotal, CountersBalance
  <2>3. CASE \E op \in OpInputs : total' = Counted(Decide(op))
    BY <1>2, <2>3, CountedBalances DEF TypeOK, CountersBalance
  <2>4. \/ UNCHANGED total
        \/ total' = NoTotal
        \/ \E op \in OpInputs : total' = Counted(Decide(op))
    BY <1>2 DEF Next, vars, InitOk, InitNoSpace, Deinit, SetResource,
       RegisterOp, OpSetNeed, SetPressure, Check, Enter, EnterDenied,
       EnterRefused, EnterGranted, Leave, HalChange
  <2> QED
    BY <2>1, <2>2, <2>3, <2>4
<1> QED
  BY <1>1, <1>2, TypeCorrect, PTL DEF Spec

-----------------------------------------------------------------------------
(* Need lists. *)

NeedsInv == TypeOK /\ NeedsDistinct

(* Before the first loxbudget_init every need list is empty. *)
LEMMA NeedsInit == Init => NeedsInv
<1>1. Init => TypeOK
  BY AccountsInit DEF AccountsInv
<1>2. Init => NeedsDistinct
  BY DEF Init, NeedsDistinct, NoNeed
<1> QED
  BY <1>1, <1>2 DEF NeedsInv

(* The place op_set_need writes is the only one that may name r. *)
LEMMA PlaceForNeed ==
    ASSUME TypeOK, NEW op \in OpIds, NEW r \in ResourceIds,
           NeedPlaces(op, r) # {},
           NEW j \in NeedIndex,
           \A i, k \in NeedIndex :
               (/\ needs[op][i].amount # 0 /\ needs[op][k].amount # 0
                /\ needs[op][i].resource = needs[op][k].resource) => i = k,
           needs[op][j].amount # 0, needs[op][j].resource = r
    PROVE  j = Min(NeedPlaces(op, r))
<1> DEFINE S == {i \in NeedIndex : /\ needs[op][i].amount # 0
                                   /\ needs[op][i].resource = r}
<1>1. j \in S
  OBVIOUS
<1>2. NeedPlaces(op, r) = S
  BY <1>1 DEF NeedPlaces
<1>3. S \in SUBSET Nat
  BY SizesAssumption DEF NeedIndex
<1>4. Min(S) \in S
  BY <1>1, <1>3, MinIn
<1> QED
  BY <1>1, <1>2, <1>4

(* loxbudget_op_set_need reuses the entry of a resource already listed,    *)
(* and no other call adds an entry.                                        *)
LEMMA NeedsStep == NeedsInv /\ TypeOK' /\ [Next]_vars => NeedsDistinct'
<1> SUFFICES ASSUME NeedsInv, TypeOK', [Next]_vars PROVE NeedsDistinct'
  OBVIOUS
<1>1. ASSUME UNCHANGED needs PROVE NeedsDistinct'
  BY <1>1 DEF NeedsInv, NeedsDistinct
<1>2. ASSUME NEW b \in MagicBases, NEW hc \in HalConfigs, InitOk(b, hc)
      PROVE  NeedsDistinct'
  BY <1>2 DEF InitOk, NeedsDistinct, NoNeed
<1>3. ASSUME NEW x \in ProfileCalls, RegisterOp(x[1], x[2])
      PROVE  NeedsDistinct'
  <2>1. x[1] \in OpIds
    BY InputsAssumption
  <2> QED
    BY <1>3, <2>1 DEF RegisterOp, NeedsInv, NeedsDistinct, TypeOK, NoNeed
<1>4. ASSUME NEW x \in NeedCalls, OpSetNeed(x[1], x[2], x[3])
      PROVE  NeedsDistinct'
  <2> DEFINE o == x[1]
             r == x[2]
             k == Min(NeedPlaces(o, r))
             n == [resource |-> r, amount |-> x[3]]
  <2>1. o \in OpIds /\ r \in ResourceIds
    BY InputsAssumption
  <2>2. needs' = [needs EXCEPT ![o][k] = n]
    BY <1>4 DEF OpSetNeed
  <2>3. \A i \in NeedIndex :
          (needs[o][i].amount # 0 /\ needs[o][i].resource = r) => i = k
    BY <1>4, <2>1, PlaceForNeed DEF OpSetNeed, NeedsInv, NeedsDistinct
  <2>4. n.resource = r
    OBVIOUS
  <2> HIDE DEF o, r, k, n
  <2>5. SUFFICES ASSUME NEW op \in OpIds, NEW i \in NeedIndex,
                        NEW j \in NeedIndex,
                        needs'[op][i].amount # 0, needs'[op][j].amount # 0,
                        needs'[op][i].resource = needs'[op][j].resource
                 PROVE  i = j
    BY DEF NeedsDistinct
  <2>6. needs \in [OpIds -> [NeedIndex -> Need]]
    BY DEF NeedsInv, TypeOK, NeedList
  <2>7. CASE op # o
    BY <2>2, <2>5, <2>6, <2>7 DEF NeedsInv, NeedsDistinct
  <2>8. CASE op = o
    <3>1. \A m \in NeedIndex :
            needs'[o][m] = IF m = k THEN n ELSE needs[o][m]
      BY <2>1, <2>2, <2>6
    <3>2. CASE i = k /\ j # k
      BY <2>3, <2>4, <2>5, <2>8, <3>1, <3>2
    <3>3. CASE j = k /\ i # k
      BY <2>3, <2>4, <2>5, <2>8, <3>1, <3>3
    <3>4. CASE i # k /\ j # k
      BY <2>5, <2>8, <3>1, <3>4 DEF NeedsInv, NeedsDistinct
    <3> QED
      BY <3>2, <3>3, <3>4
  <2> QED
    BY <2>7, <2>8
<1>5. CASE UNCHANGED vars
  BY <1>1, <1>5 DEF vars, tables
<1>6. CASE Next
  <2>1. CASE \/ InitNoSpace
             \/ Deinit
             \/ \E x \in ResourceCalls : SetResource(x[1], x[2], x[3])
             \/ \E p \in PressureCalls : SetPressure(p)
             \/ \E op \in OpInputs : Check(op)
             \/ \E c \in Callers, op \in OpInputs : Enter(c, op)
             \/ \E c \in Callers : Leave(c)
             \/ \E h \in HalStates : HalChange(h)
    BY <1>1, <2>1 DEF InitNoSpace, Deinit, SetResource, SetPressure, Check,
       Enter, EnterDenied, EnterRefused, EnterGranted, Leave, HalChange, tables
  <2> QED
    BY <1>2, <1>3, <1>4, <1>6, <2>1 DEF Next
<1> QED
  BY <1>5, <1>6

(* A need list never names a resource twice, whatever is registered and    *)
(* configured: entry-by-entry tests bound the whole request.               *)
THEOREM NeedListsDistinct == Spec => []NeedsDistinct
<1>1. Init => NeedsDistinct
  BY NeedsInit DEF NeedsInv
<1>2. TypeOK /\ TypeOK' /\ NeedsDistinct /\ [Next]_vars => NeedsDistinct'
  BY NeedsStep DEF NeedsInv
<1> QED
  BY <1>1, <1>2, TypeCorrect, PTL DEF Spec

-----------------------------------------------------------------------------
(* Leases.  Callers release a lease at most once (~CallerMayReplay); they  *)
(* may still reconfigure under outstanding leases, deinit and init at any  *)
(* time, and get the same magic base again.                                *)

(* An outstanding lease was granted at a pressure that allows it. *)
AdmittedAt(c) ==
    ~PressureBlocks(ops[lease[c].op], slots[lease[c].id].acquired_pressure)

LeaseInv ==
    /\ TypeOK
    /\ HeldLeasesOwnSlots
    /\ \A c \in Callers : holds[c].on => AdmittedAt(c)

(* Before the first loxbudget_init there is no lease. *)
LEMMA LeaseInit == Init => LeaseInv
<1> SUFFICES ASSUME Init PROVE LeaseInv
  OBVIOUS
<1>1. TypeOK
  BY AccountsInit DEF AccountsInv
<1>2. \A c \in Callers : ~holds[c].on
  BY DEF Init, NoHold
<1> QED
  BY <1>1, <1>2 DEF Init, LeaseInv, HeldLeasesOwnSlots

(* A step that keeps the tables leases rest on, and every outstanding      *)
(* lease, keeps the invariant.                                             *)
LEMMA LeaseFrame ==
    ASSUME LeaseInv, TypeOK',
           UNCHANGED <<magic, lease_magic_base, slots, holds>>,
           \A c \in Callers : holds[c].on => lease'[c] = lease[c],
           \A o \in OpIds : op_cfg[o] => op_cfg'[o] /\ ops'[o] = ops[o]
    PROVE  LeaseInv'
<1>1. \A c \in Callers : lease[c].op \in OpIds /\ lease[c].id \in LeaseIds
  BY DEF LeaseInv, TypeOK, Token
<1>2. \A c \in Callers : holds[c].on =>
          /\ lease'[c] = lease[c]
          /\ op_cfg[lease[c].op]
          /\ op_cfg'[lease[c].op] /\ ops'[lease[c].op] = ops[lease[c].op]
  BY <1>1 DEF LeaseInv, HeldLeasesOwnSlots, LeaseAccepted, Registered
<1>3. \A c \in Callers : holds'[c].on => LeaseAccepted(lease[c])'
  BY <1>1, <1>2
     DEF LeaseInv, HeldLeasesOwnSlots, LeaseAccepted, Registered, MagicFor
<1>4. \A c \in Callers : holds'[c].on => AdmittedAt(c)'
  BY <1>2 DEF LeaseInv, AdmittedAt
<1>5. \A c, d \in Callers :
         (holds'[c].on /\ holds'[d].on /\ lease'[c].id = lease'[d].id) => c = d
  BY <1>2 DEF LeaseInv, HeldLeasesOwnSlots
<1>6. magic' => \A i \in LeaseIds : slots'[i].active =>
         \E c \in Callers : holds'[c].on /\ lease'[c].id = i
  BY <1>2 DEF LeaseInv, HeldLeasesOwnSlots
<1> QED
  BY <1>3, <1>4, <1>5, <1>6 DEF LeaseInv, HeldLeasesOwnSlots

(* The slot loxbudget_enter takes was free, so the lease it publishes      *)
(* there is not shared and no other lease is disturbed.                    *)
LEMMA LeaseGranted ==
    ASSUME LeaseInv, TypeOK', NEW c \in Callers, NEW op \in OpInputs,
           ~holds[c].on, EnterGranted(c, op)
    PROVE  LeaseInv'
<1> DEFINE id == Min(FreeSlots)
<1>1. op \in OpIds /\ op_cfg[op]
  BY AllowedRegistered DEF EnterGranted
<1>2. id \in LeaseIds /\ ~slots[id].active
  BY FreeSlotIn DEF EnterGranted
<1>3. ~PressureBlocks(ops[op], pressure)
  BY AllowedStages DEF EnterGranted
<1>4. /\ slots' = [slots EXCEPT ![id] =
                     [active |-> TRUE, magic |-> MagicFor(id),
                      acquired_pressure |-> pressure]]
      /\ lease' = [lease EXCEPT ![c] =
                     [id |-> id, magic |-> MagicFor(id), op |-> op]]
      /\ magic
      /\ UNCHANGED <<magic, lease_magic_base, op_cfg, ops>>
  BY DEF EnterGranted
<1>5. /\ holds'[c].on
      /\ \A d \in Callers \ {c} : holds'[d] = holds[d]
  BY DEF EnterGranted, LeaseInv, TypeOK
<1> HIDE DEF id
<1>6. /\ lease'[c] = [id |-> id, magic |-> MagicFor(id), op |-> op]
      /\ \A d \in Callers \ {c} : lease'[d] = lease[d]
      /\ slots'[id] = [active |-> TRUE, magic |-> MagicFor(id),
                       acquired_pressure |-> pressure]
      /\ \A i \in LeaseIds \ {id} : slots'[i] = slots[i]
  BY <1>2, <1>4 DEF LeaseInv, TypeOK
<1>7. \A d \in Callers : lease[d].op \in OpIds /\ lease[d].id \in LeaseIds
  BY DEF LeaseInv, TypeOK, Token
<1>8. \A d \in Callers \ {c} : holds[d].on =>
         LeaseAccepted(lease[d]) /\ lease[d].id # id
  BY <1>2 DEF LeaseInv, HeldLeasesOwnSlots, LeaseAccepted
<1>9. \A d \in Callers : holds'[d].on =>
         LeaseAccepted(lease[d])' /\ AdmittedAt(d)'
  <2> SUFFICES ASSUME NEW d \in Callers, holds'[d].on
               PROVE  LeaseAccepted(lease[d])' /\ AdmittedAt(d)'
    OBVIOUS
  <2>1. CASE d = c
    BY <1>1, <1>3, <1>4, <1>6, <2>1
       DEF LeaseAccepted, AdmittedAt, MagicFor, Registered
  <2>2. CASE d # c
    BY <1>4, <1>5, <1>6, <1>7, <1>8, <2>2
       DEF LeaseAccepted, AdmittedAt, MagicFor, Registered, LeaseInv
  <2> QED
    BY <2>1, <2>2
<1>10. \A d, e \in Callers :
          (holds'[d].on /\ holds'[e].on /\ lease'[d].id = lease'[e].id) => d = e
  BY <1>5, <1>6, <1>8 DEF LeaseInv, HeldLeasesOwnSlots
<1>11. \A i \in LeaseIds : slots'[i].active =>
          \E d \in Callers : holds'[d].on /\ lease'[d].id = i
  <2> SUFFICES ASSUME NEW i \in LeaseIds, slots'[i].active
               PROVE  \E d \in Callers : holds'[d].on /\ lease'[d].id = i
    OBVIOUS
  <2>1. CASE i = id
    BY <1>5, <1>6, <2>1
  <2>2. CASE i # id
    <3>1. PICK d \in Callers : holds[d].on /\ lease[d].id = i
      BY <1>4, <1>6, <2>2 DEF LeaseInv, HeldLeasesOwnSlots
    <3> QED
      BY <1>5, <1>6, <3>1
  <2> QED
    BY <2>1, <2>2
<1> QED
  BY <1>9, <1>10, <1>11 DEF LeaseInv, HeldLeasesOwnSlots

(* loxbudget_leave of an outstanding lease frees its own slot only. *)
LEMMA LeaseLeft ==
    ASSUME LeaseInv, TypeOK', ~CallerMayReplay, NEW c \in Callers, Leave(c)
    PROVE  LeaseInv'
<1>1. holds[c].on
  BY DEF Leave
<1>2. \A d \in Callers : lease[d].op \in OpIds /\ lease[d].id \in LeaseIds
  BY DEF LeaseInv, TypeOK, Token
<1>3. /\ ~holds'[c].on
      /\ \A d \in Callers \ {c} : holds'[d] = holds[d]
  BY DEF Leave, NoHold, LeaseInv, TypeOK
<1>4. /\ ~slots'[lease[c].id].active
      /\ \A i \in LeaseIds \ {lease[c].id} : slots'[i] = slots[i]
  BY <1>2 DEF Leave, LeaseInv, TypeOK, Slot
<1>5. UNCHANGED <<magic, lease_magic_base, op_cfg, ops, lease>>
  BY DEF Leave
<1>6. \A d \in Callers \ {c} : holds[d].on => lease[d].id # lease[c].id
  BY <1>1 DEF LeaseInv, HeldLeasesOwnSlots
<1>7. \A d \in Callers : holds'[d].on =>
         LeaseAccepted(lease[d])' /\ AdmittedAt(d)'
  BY <1>2, <1>3, <1>4, <1>5, <1>6
     DEF LeaseInv, HeldLeasesOwnSlots, LeaseAccepted, AdmittedAt, MagicFor,
         Registered
<1>8. \A d, e \in Callers :
         (holds'[d].on /\ holds'[e].on /\ lease'[d].id = lease'[e].id) => d = e
  BY <1>3, <1>5 DEF LeaseInv, HeldLeasesOwnSlots
<1>9. magic' => \A i \in LeaseIds : slots'[i].active =>
         \E d \in Callers : holds'[d].on /\ lease'[d].id = i
  <2> SUFFICES ASSUME magic', NEW i \in LeaseIds, slots'[i].active
               PROVE  \E d \in Callers : holds'[d].on /\ lease'[d].id = i
    OBVIOUS
  <2>1. i # lease[c].id /\ slots[i].active
    BY <1>4
  <2>2. PICK d \in Callers : holds[d].on /\ lease[d].id = i
    BY <1>5, <2>1 DEF LeaseInv, HeldLeasesOwnSlots
  <2> QED
    BY <1>3, <1>5, <2>1, <2>2
<1> QED
  BY <1>7, <1>8, <1>9 DEF LeaseInv, HeldLeasesOwnSlots

(* Every public call keeps outstanding leases and the slots in use paired, *)
(* if no caller passes a lease it already released.                        *)
LEMMA LeaseStep ==
    ASSUME ~CallerMayReplay
    PROVE  LeaseInv /\ TypeOK' /\ [Next]_vars => LeaseInv'
<1> SUFFICES ASSUME LeaseInv, TypeOK', [Next]_vars PROVE LeaseInv'
  OBVIOUS
<1>1. ASSUME holds' = [c \in Callers |-> NoHold],
             ~magic' \/ slots' = [i \in LeaseIds |-> FreeSlot]
      PROVE  LeaseInv'
  BY <1>1 DEF LeaseInv, HeldLeasesOwnSlots, NoHold, FreeSlot
<1>2. ASSUME NEW b \in MagicBases, NEW hc \in HalConfigs, InitOk(b, hc)
      PROVE  LeaseInv'
  BY <1>1, <1>2 DEF InitOk
<1>3. CASE InitNoSpace
  BY <1>1, <1>3 DEF InitNoSpace
<1>4. CASE Deinit
  BY <1>1, <1>4 DEF Deinit
<1>5. ASSUME NEW x \in ResourceCalls, SetResource(x[1], x[2], x[3])
      PROVE  LeaseInv'
  BY <1>5, LeaseFrame DEF SetResource
<1>6. ASSUME NEW x \in ProfileCalls, RegisterOp(x[1], x[2])
      PROVE  LeaseInv'
  <2>1. x[1] \in OpIds
    BY InputsAssumption
  <2>2. \A o \in OpIds : op_cfg[o] => op_cfg'[o] /\ ops'[o] = ops[o]
    BY <1>6, <2>1 DEF RegisterOp, LeaseInv, TypeOK
  <2> QED
    BY <1>6, <2>2, LeaseFrame DEF RegisterOp
<1>7. ASSUME NEW x \in NeedCalls, OpSetNeed(x[1], x[2], x[3])
      PROVE  LeaseInv'
  BY <1>7, LeaseFrame DEF OpSetNeed
<1>8. ASSUME NEW p \in PressureCalls, SetPressure(p) PROVE LeaseInv'
  BY <1>8, LeaseFrame DEF SetPressure, tables
<1>9. ASSUME NEW op \in OpInputs, Check(op) PROVE LeaseInv'
  BY <1>9, LeaseFrame DEF Check, tables
<1>10. ASSUME NEW c \in Callers, NEW op \in OpInputs, Enter(c, op)
       PROVE  LeaseInv'
  <2>1. CASE EnterDenied(c, op)
    <3>1. \A d \in Callers : holds[d].on => lease'[d] = lease[d]
      BY <1>10, <2>1 DEF Enter, EnterDenied, LeaseInv, TypeOK
    <3> QED
      BY <2>1, <3>1, LeaseFrame DEF EnterDenied, tables
  <2>2. CASE EnterRefused(c, op)
    BY <2>2, LeaseFrame DEF EnterRefused, tables
  <2>3. CASE EnterGranted(c, op)
    BY <1>10, <2>3, LeaseGranted DEF Enter
  <2> QED
    BY <1>10, <2>1, <2>2, <2>3 DEF Enter
<1>11. ASSUME NEW c \in Callers, Leave(c) PROVE LeaseInv'
  BY <1>11, LeaseLeft
<1>12. ASSUME NEW h \in HalStates, HalChange(h) PROVE LeaseInv'
  BY <1>12, LeaseFrame DEF HalChange, tables
<1>13. CASE UNCHANGED vars
  BY <1>13, LeaseFrame DEF vars, tables
<1> QED
  BY <1>2, <1>3, <1>4, <1>5, <1>6, <1>7, <1>8, <1>9, <1>10, <1>11, <1>12,
     <1>13 DEF Next

(* Outstanding leases and slots in use stay paired: the inductive          *)
(* invariant of the lease theorems.                                        *)
LEMMA LeaseInvariant ==
    ASSUME ~CallerMayReplay
    PROVE  Spec => []LeaseInv
<1>1. LeaseInv /\ TypeOK' /\ [Next]_vars => LeaseInv'
  BY LeaseStep
<1> QED
  BY <1>1, LeaseInit, TypeCorrect, PTL DEF Spec

(* A lease granted and not yet released is always accepted, shares its     *)
(* slot with no other, and no slot is lost: for any number of callers and  *)
(* slots, across deinit and init with a repeated magic base.               *)
THEOREM LeasesOwnSlots ==
    ASSUME ~CallerMayReplay
    PROVE  Spec => []HeldLeasesOwnSlots
<1>1. LeaseInv => HeldLeasesOwnSlots
  BY DEF LeaseInv
<1> QED
  BY <1>1, LeaseInvariant, PTL

(* A lease that was released is refused by loxbudget_leave until its slot  *)
(* is granted to another caller.                                           *)
THEOREM DoubleLeavesDetected ==
    ASSUME ~CallerMayReplay
    PROVE  Spec => []DoubleLeaveDetected
<1>1. ASSUME LeaseInv PROVE DoubleLeaveDetected
  <2> SUFFICES ASSUME NEW c \in Callers, ~holds[c].on, LeaseAccepted(lease[c])
               PROVE  \E d \in Callers \ {c} :
                          holds[d].on /\ lease[d].id = lease[c].id
    BY DEF DoubleLeaveDetected
  <2>1. lease[c].id \in LeaseIds
    BY <1>1 DEF LeaseInv, TypeOK, Token
  <2>2. PICK d \in Callers : holds[d].on /\ lease[d].id = lease[c].id
    BY <1>1, <2>1 DEF LeaseInv, HeldLeasesOwnSlots, LeaseAccepted
  <2> QED
    BY <2>2
<1> QED
  BY <1>1, LeaseInvariant, PTL

(* A holder is told HOLDING exactly while the pressure is the one it was   *)
(* admitted at, and was admitted at a pressure that allows its operation.  *)
THEOREM LeasesAdmitted ==
    ASSUME ~CallerMayReplay
    PROVE  Spec => []LeaseAdmitted
<1>1. ASSUME LeaseInv PROVE LeaseAdmitted
  <2> SUFFICES ASSUME NEW c \in Callers, holds[c].on
               PROVE  LET a == slots[lease[c].id].acquired_pressure
                          h == YieldHint(ops[lease[c].op], a, pressure)
                      IN  /\ a = pressure => h = "HOLDING"
                          /\ h = "HOLDING" => a = pressure
                          /\ ~PressureBlocks(ops[lease[c].op], a)
    BY DEF LeaseAdmitted
  <2> DEFINE p == ops[lease[c].op]
             a == slots[lease[c].id].acquired_pressure
  <2>1. ~PressureBlocks(p, a)
    BY <1>1 DEF LeaseInv, AdmittedAt
  <2>2. ~LockedOut(p, a) /\ Allowed(MappedAction(p, a))
    BY <2>1 DEF PressureBlocks
  <2>3. a = pressure => YieldHint(p, a, pressure) = "HOLDING"
    BY <2>2 DEF YieldHint, Allowed
  <2>4. YieldHint(p, a, pressure) = "HOLDING" => a = pressure
    BY DEF YieldHint
  <2> QED
    BY <2>1, <2>3, <2>4
<1> QED
  BY <1>1, LeaseInvariant, PTL

-----------------------------------------------------------------------------
(* HAL preconditions. *)

HalInv == TypeOK /\ \A o \in OpIds : (magic /\ op_cfg[o]) => StrictHalOk(ops[o])

(* Only loxbudget_register_op adds a profile, after its strict HAL tests,  *)
(* and only loxbudget_init changes the HAL, dropping all profiles.         *)
LEMMA HalStep == HalInv /\ TypeOK' /\ [Next]_vars => HalInv'
<1> SUFFICES ASSUME HalInv, TypeOK', [Next]_vars PROVE HalInv'
  OBVIOUS
<1>1. ASSUME UNCHANGED <<op_cfg, ops, halcfg>>, magic' => magic PROVE HalInv'
  BY <1>1 DEF HalInv, StrictHalOk
<1>2. ASSUME NEW b \in MagicBases, NEW hc \in HalConfigs, InitOk(b, hc)
      PROVE  HalInv'
  BY <1>2 DEF InitOk, HalInv
<1>3. CASE InitNoSpace
  BY <1>3 DEF InitNoSpace, HalInv
<1>4. ASSUME NEW x \in ProfileCalls, RegisterOp(x[1], x[2]) PROVE HalInv'
  <2>1. x[1] \in OpIds
    BY InputsAssumption
  <2>2. /\ magic /\ StrictHalOk(x[2])
        /\ ops' = [ops EXCEPT ![x[1]] = x[2]]
        /\ op_cfg' = [op_cfg EXCEPT ![x[1]] = TRUE]
        /\ halcfg' = halcfg
    BY <1>4 DEF RegisterOp
  <2>3. \A o \in OpIds : op_cfg'[o] => StrictHalOk(ops'[o])
    BY <2>1, <2>2 DEF HalInv, TypeOK
  <2> QED
    BY <2>2, <2>3 DEF HalInv, StrictHalOk
<1>5. CASE UNCHANGED vars
  BY <1>1, <1>5 DEF vars, tables
<1>6. CASE Next
  <2>1. CASE \/ Deinit
             \/ \E x \in ResourceCalls : SetResource(x[1], x[2], x[3])
             \/ \E x \in NeedCalls : OpSetNeed(x[1], x[2], x[3])
             \/ \E p \in PressureCalls : SetPressure(p)
             \/ \E op \in OpInputs : Check(op)
             \/ \E c \in Callers, op \in OpInputs : Enter(c, op)
             \/ \E c \in Callers : Leave(c)
             \/ \E h \in HalStates : HalChange(h)
    BY <1>1, <2>1 DEF Deinit, SetResource, OpSetNeed, SetPressure, Check,
       Enter, EnterDenied, EnterRefused, EnterGranted, Leave, HalChange, tables
  <2> QED
    BY <1>2, <1>3, <1>4, <1>6, <2>1 DEF Next
<1> QED
  BY <1>5, <1>6

(* The profiles registered on a strict instance have their callbacks. *)
LEMMA HalInvariant == Spec => []HalInv
<1>1. Init => HalInv
  BY AccountsInit DEF AccountsInv, Init, HalInv
<1> QED
  BY <1>1, HalStep, TypeCorrect, PTL DEF Spec

(* On a strict instance no registered operation meets a precondition       *)
(* without a callback, however init, deinit and registration are ordered.  *)
THEOREM StrictHalSuffices == Spec => []StrictHalResolved
<1>1. ASSUME HalInv, NEW o \in OpIds, magic, Registered(o)
      PROVE  Decide(o).reason # "HAL_NOT_CONFIGURED"
  <2> DEFINE p == ops[o]
             F == HalFailures(p, halcfg, hal)
  <2>1. StrictHalOk(p) /\ p \in Profile
    BY <1>1 DEF HalInv, Registered, TypeOK
  <2>2. Decide(o) = ProfileDecision(p, pressure, halcfg, hal, needs[o], res)
    BY <1>1 DEF Decide
  <2>3. PressureVerdict(p, pressure).reason # "HAL_NOT_CONFIGURED"
    BY DEF PressureVerdict, Verdict
  <2>4. ASSUME F # {}
        PROVE  HalVerdict(p, pressure, halcfg, hal).reason
                 # "HAL_NOT_CONFIGURED"
    <3>1. F \in SUBSET Nat
      BY DEF HalFailures
    <3>2. Min(F) \in F
      BY <2>4, <3>1, MinIn
    <3>3. Min(F) \in 1 .. 3 /\ HalOrder[Min(F)] \in p.flags
      BY <3>2 DEF HalFailures
    <3> HIDE DEF F
    <3>4. HalOrder[Min(F)] \in Preconds
      BY <3>3 DEF HalOrder, Preconds
    <3>5. HalAnswer(halcfg, hal, HalOrder[Min(F)]) # "NOT_CONFIGURED"
      BY <2>1, <3>3, <3>4 DEF HalAnswer, StrictHalOk
    <3> QED
      BY <3>5 DEF HalVerdict, Verdict, F
  <2>5. \A n : NeedVerdict(n, res, pressure).reason # "HAL_NOT_CONFIGURED"
    BY DEF NeedVerdict, NeedDenied
  <2>6. Verdict(MappedAction(p, pressure), "OK", pressure).reason
          # "HAL_NOT_CONFIGURED"
    BY DEF Verdict
  <2> QED
    BY <2>2, <2>3, <2>4, <2>5, <2>6 DEF ProfileDecision
<1>2. HalInv => StrictHalResolved
  BY <1>1 DEF StrictHalResolved
<1> QED
  BY <1>2, HalInvariant, PTL

-----------------------------------------------------------------------------
(* Reservations.  Callers release a lease at most once and configure only  *)
(* while none is outstanding; init and deinit come at any time.            *)

(* What a need list asks of r: NeedOf as a function of the list. *)
Listed(list, r) ==
    LET I == {i \in NeedIndex : list[i].amount # 0 /\ list[i].resource = r}
    IN  IF I = {} THEN 0 ELSE list[Min(I)].amount

(* What one lease of op reserves of r. *)
Share(op, r) == IF res[r].kind = "REUSABLE" THEN Listed(needs[op], r) ELSE 0

(* NeedOf depends on the list only. *)
LEMMA NeedOfList ==
    ASSUME NEW op, NEW r
    PROVE  NeedOf(op, r) = Listed(needs[op], r)
  BY DEF NeedOf, Listed

(* A lease still reserves what its release will give back. *)
HeldIsShare ==
    \A c \in Callers, r \in ResourceIds :
        holds[c].amount[r] = IF holds[c].on THEN Share(lease[c].op, r) ELSE 0

(* Nothing of a reusable resource is consumed. *)
ReusableUnused ==
    \A r \in ResourceIds : res[r].kind = "REUSABLE" => res[r].used = 0

PoolInv == /\ AccountsInv /\ LeaseInv
           /\ HeldIsShare /\ ReusableUnused /\ ReservedIsHeld

(* What the callers hold of r. *)
Amounts(r) == [c \in Callers |-> holds[c].amount[r]]

(* Those amounts are numbers. *)
LEMMA AmountsType ==
    ASSUME TypeOK, NEW r \in ResourceIds
    PROVE  Amounts(r) \in [Callers -> Nat]
  BY SizesAssumption DEF TypeOK, Hold, U16, Amounts

(* Nobody holds anything while no lease is outstanding. *)
LEMMA NothingHeld ==
    ASSUME TypeOK, HeldIsShare, ~Outstanding
    PROVE  /\ \A c \in Callers : holds[c].amount = [r \in ResourceIds |-> 0]
           /\ \A r \in ResourceIds : Amounts(r) = [c \in Callers |-> 0]
<1>1. \A c \in Callers, r \in ResourceIds : holds[c].amount[r] = 0
  BY DEF HeldIsShare, Outstanding
<1>2. \A c \in Callers : holds[c].amount \in [ResourceIds -> U16]
  BY DEF TypeOK, Hold
<1> QED
  BY <1>1, <1>2 DEF Amounts

(* Before the first loxbudget_init nothing is reserved. *)
LEMMA PoolInitial == Init => PoolInv
<1> SUFFICES ASSUME Init PROVE PoolInv
  OBVIOUS
<1>1. AccountsInv /\ LeaseInv
  BY AccountsInit, LeaseInit
<1>2. HeldIsShare
  BY DEF Init, HeldIsShare, NoHold
<1>3. ReusableUnused /\ ReservedIsHeld
  BY DEF Init, ReusableUnused, ReservedIsHeld, NoEntry
<1> QED
  BY <1>1, <1>2, <1>3 DEF PoolInv

(* A step that leaves the resources and the reservations alone, and the    *)
(* operations of outstanding leases.                                       *)
LEMMA PoolFrame ==
    ASSUME PoolInv, AccountsInv', LeaseInv',
           UNCHANGED <<magic, res, holds>>,
           \A c \in Callers : holds[c].on =>
               /\ lease'[c] = lease[c]
               /\ needs'[lease[c].op] = needs[lease[c].op]
    PROVE  PoolInv'
<1>1. HeldIsShare'
  BY DEF PoolInv, HeldIsShare, Share
<1>2. ReusableUnused' /\ ReservedIsHeld'
  BY DEF PoolInv, ReusableUnused, ReservedIsHeld
<1> QED
  BY <1>1, <1>2 DEF PoolInv

(* loxbudget_init, also without space, and loxbudget_deinit. *)
LEMMA PoolReset ==
    ASSUME PoolInv, AccountsInv', LeaseInv',
           holds' = [c \in Callers |-> NoHold],
           \/ ~magic' /\ UNCHANGED res
           \/ res' = [r \in ResourceIds |-> NoEntry]
    PROVE  PoolInv'
<1>1. HeldIsShare'
  BY DEF HeldIsShare, NoHold
<1>2. ReusableUnused'
  BY DEF PoolInv, ReusableUnused, NoEntry
<1>3. CASE ~magic' /\ UNCHANGED res
  BY <1>1, <1>2, <1>3 DEF PoolInv, ReservedIsHeld
<1>4. CASE res' = [r \in ResourceIds |-> NoEntry]
  <2>1. \A r \in ResourceIds :
          [c \in Callers |-> holds'[c].amount[r]] = [c \in Callers |-> 0]
    BY DEF NoHold
  <2>2. ReservedIsHeld'
    BY <1>4, <2>1, SumZero DEF ReservedIsHeld, NoEntry
  <2> QED
    BY <1>1, <1>2, <2>2 DEF PoolInv
<1> QED
  BY <1>3, <1>4

(* loxbudget_set_resource while nothing is held. *)
LEMMA PoolResized ==
    ASSUME PoolInv, AccountsInv', LeaseInv', ~CallerMayReconfigure,
           NEW x \in ResourceCalls, SetResource(x[1], x[2], x[3])
    PROVE  PoolInv'
<1> DEFINE e == [cfg |-> TRUE, kind |-> x[3], limit |-> x[2], used |-> 0,
                 reserved |-> 0, high_watermark |-> 0]
<1>1. res' = [res EXCEPT ![x[1]] = e] /\ UNCHANGED <<magic, holds>> /\ magic
  BY DEF SetResource, MayConfigure
<1>2. ~Outstanding
  BY DEF SetResource, MayConfigure
<1>3. e.used = 0 /\ e.reserved = 0
  OBVIOUS
<1>4. res \in [ResourceIds -> Resource] /\ TypeOK /\ HeldIsShare
  BY DEF PoolInv, AccountsInv, TypeOK
<1> HIDE DEF e
<1>5. HeldIsShare'
  BY <1>1, <1>2, <1>4 DEF HeldIsShare, Outstanding
<1>6. ReusableUnused'
  BY <1>1, <1>3, <1>4 DEF PoolInv, ReusableUnused
<1>7. \A r \in ResourceIds : res[r].reserved = SumOf(Amounts(r))
  BY <1>1 DEF PoolInv, ReservedIsHeld, Amounts
<1>8. \A r \in ResourceIds : SumOf(Amounts(r)) = 0
  BY <1>2, <1>4, NothingHeld, SumZero
<1>9. \A r \in ResourceIds : res'[r].reserved = SumOf(Amounts(r))
  BY <1>1, <1>3, <1>4, <1>7, <1>8
<1>10. ReservedIsHeld'
  BY <1>1, <1>9 DEF ReservedIsHeld, Amounts
<1> QED
  BY <1>5, <1>6, <1>10 DEF PoolInv

(* The resources after a granted loxbudget_enter. *)
LEMMA CommittedShares ==
    ASSUME AccountsInv, NEW op \in OpIds, PhaseAPasses(op),
           NEW r \in ResourceIds
    PROVE  LET s == Committed(op)[r]
           IN  /\ s.kind = res[r].kind /\ s.limit = res[r].limit
               /\ s.reserved = res[r].reserved + Share(op, r)
               /\ res[r].kind = "REUSABLE" => s.used = res[r].used
<1>1. res[r] \in Resource /\ Sound(res[r]) /\ NeedOf(op, r) \in U16
  BY NeedOfEntry DEF AccountsInv, TypeOK
<1>2. CASE NeedOf(op, r) = 0
  <2>1. Committed(op)[r] = res[r] /\ Share(op, r) = 0
    BY <1>2, NeedOfList DEF Committed, Share
  <2>2. res[r].reserved + 0 = res[r].reserved
    BY <1>1, SizesAssumption DEF Resource, U16
  <2> QED
    BY <2>1, <2>2
<1>3. CASE NeedOf(op, r) # 0
  <2>1. res[r].kind # "STATE" => AvailableOf(res[r]) >= NeedOf(op, r)
    BY <1>3, NeedAvailable
  <2>2. Committed(op)[r] = CommitNeed(res[r], NeedOf(op, r))
    BY <1>3 DEF Committed
  <2> QED
    BY <1>1, <2>1, <2>2, CommitReserves, NeedOfList DEF Share
<1> QED
  BY <1>2, <1>3

(* A granted loxbudget_enter reserves exactly what the new lease holds.    *)
LEMMA PoolGranted ==
    ASSUME PoolInv, AccountsInv', LeaseInv', NEW c \in Callers,
           NEW op \in OpInputs, ~holds[c].on, EnterGranted(c, op)
    PROVE  PoolInv'
<1> DEFINE h == [r \in ResourceIds |-> Share(op, r)]
<1>1. op \in OpIds /\ PhaseAPasses(op)
  BY AllowedRegistered DEF EnterGranted
<1>2. res' = Committed(op) /\ magic /\ magic' = magic /\ needs' = needs
  BY DEF EnterGranted
<1>3. holds' = [holds EXCEPT ![c] = [on |-> TRUE, amount |-> h]]
  BY NeedOfList DEF EnterGranted, Share
<1>4. lease'[c].op = op /\ \A d \in Callers \ {c} : lease'[d] = lease[d]
  BY DEF EnterGranted, PoolInv, AccountsInv, TypeOK
<1>5. /\ TypeOK /\ TypeOK' /\ AccountsInv
      /\ holds \in [Callers -> Hold] /\ res \in [ResourceIds -> Resource]
  BY DEF PoolInv, AccountsInv, TypeOK
<1>6. \A r \in ResourceIds :
        /\ res'[r].kind = res[r].kind
        /\ res'[r].reserved = res[r].reserved + Share(op, r)
        /\ res[r].kind = "REUSABLE" => res'[r].used = res[r].used
  BY <1>1, <1>2, <1>5, CommittedShares
<1>8. /\ holds'[c].on /\ holds'[c].amount = h
      /\ \A d \in Callers \ {c} : holds'[d] = holds[d]
  BY <1>3, <1>5
<1>9. HeldIsShare'
  <2> SUFFICES ASSUME NEW d \in Callers, NEW r \in ResourceIds
               PROVE  holds'[d].amount[r] =
                        IF holds'[d].on THEN Share(lease[d].op, r)' ELSE 0
    BY DEF HeldIsShare
  <2>1. CASE d = c
    BY <1>2, <1>4, <1>6, <1>8, <2>1 DEF Share
  <2>2. CASE d # c
    BY <1>2, <1>4, <1>6, <1>8, <2>2 DEF PoolInv, HeldIsShare, Share
  <2> QED
    BY <2>1, <2>2
<1>10. ReusableUnused'
  BY <1>6 DEF PoolInv, ReusableUnused
<1>11. ASSUME NEW r \in ResourceIds PROVE res'[r].reserved = SumOf(Amounts(r)')
  <2>1. Amounts(r) \in [Callers -> Nat] /\ Amounts(r)[c] = 0
    BY <1>5, AmountsType DEF Amounts, PoolInv, HeldIsShare
  <2>2. Amounts(r)' = [Amounts(r) EXCEPT ![c] = Share(op, r)]
    BY <1>8 DEF Amounts
  <2>3. Share(op, r) \in Nat
    BY <1>1, <1>5, NeedOfEntry, NeedOfList, SizesAssumption DEF Share, U16
  <2>4. IsFiniteSet(Callers)
    BY InputsAssumption
  <2>5. /\ SumOf(Amounts(r)) \in Nat
        /\ SumOf([Amounts(r) EXCEPT ![c] = Share(op, r)]) =
             SumOf(Amounts(r)) - 0 + Share(op, r)
    BY <2>1, <2>3, <2>4, SumUpdate
  <2>6. res[r].reserved = SumOf(Amounts(r))
    BY <1>2 DEF PoolInv, ReservedIsHeld, Amounts
  <2> QED
    BY <1>6, <2>2, <2>3, <2>5, <2>6
<1>12. ReservedIsHeld'
  BY <1>11 DEF ReservedIsHeld, Amounts
<1> QED
  BY <1>9, <1>10, <1>12 DEF PoolInv

(* The resources after loxbudget_leave of an outstanding lease: the        *)
(* saturating subtraction never saturates.                                 *)
LEMMA ReleasedShares ==
    ASSUME PoolInv, magic, NEW c \in Callers, holds[c].on,
           NEW r \in ResourceIds
    PROVE  LET s == Released(lease[c].op)[r]
           IN  /\ s.kind = res[r].kind /\ s.limit = res[r].limit
               /\ s.used = res[r].used
               /\ s.reserved = res[r].reserved - holds[c].amount[r]
<1> DEFINE op == lease[c].op
           a == NeedOf(op, r)
<1>1. op \in OpIds /\ TypeOK
  BY DEF PoolInv, AccountsInv, TypeOK, Token
<1>2. res[r] \in Resource /\ a \in U16
  BY <1>1, NeedOfEntry DEF TypeOK
<1>3. holds[c].amount[r] = Share(op, r)
  BY DEF PoolInv, HeldIsShare
<1>4. res[r].reserved = SumOf(Amounts(r)) /\ Amounts(r)[c] = Share(op, r)
  BY <1>3 DEF PoolInv, ReservedIsHeld, Amounts
<1>5. SumOf(Amounts(r)) \in Nat /\ Amounts(r)[c] =< SumOf(Amounts(r))
  <2>1. IsFiniteSet(Callers) /\ Amounts(r) \in [Callers -> Nat]
    BY <1>1, AmountsType, InputsAssumption
  <2> QED
    BY <2>1, SumUpdate
<1>6. res[r].kind = "REUSABLE" => res[r].reserved >= a
  BY <1>2, <1>4, <1>5, NeedOfList, SizesAssumption DEF Share, Resource, U16
<1>7. CASE a = 0
  <2>1. Released(op)[r] = res[r] /\ Share(op, r) = 0
    BY <1>7, NeedOfList DEF Released, Share
  <2>2. res[r].reserved - 0 = res[r].reserved
    BY <1>2, SizesAssumption DEF Resource, U16
  <2> QED
    BY <1>3, <2>1, <2>2
<1>8. CASE a # 0
  <2>1. Released(op)[r] = ReleaseNeed(res[r], a)
    BY <1>8 DEF Released
  <2>2. Share(op, r) = IF res[r].kind = "REUSABLE" THEN a ELSE 0
    BY NeedOfList DEF Share
  <2> HIDE DEF a, op
  <2>3. /\ Released(op)[r].kind = res[r].kind
        /\ Released(op)[r].limit = res[r].limit
        /\ Released(op)[r].used = res[r].used
        /\ Released(op)[r].reserved = res[r].reserved - Share(op, r)
    BY <1>2, <1>6, <2>1, <2>2, ReleaseReserves
  <2> QED
    BY <1>3, <2>3 DEF op
<1> QED
  BY <1>7, <1>8

(* loxbudget_leave gives back exactly what the lease held. *)
LEMMA PoolLeft ==
    ASSUME PoolInv, AccountsInv', LeaseInv', ~CallerMayReplay,
           NEW c \in Callers, Leave(c)
    PROVE  PoolInv'
<1>1. /\ holds[c].on /\ magic /\ res' = Released(lease[c].op)
      /\ holds' = [holds EXCEPT ![c] = NoHold]
      /\ UNCHANGED <<magic, needs, lease>>
  BY DEF Leave, LeaseAccepted
<1>2. /\ TypeOK /\ holds \in [Callers -> Hold]
  BY DEF PoolInv, AccountsInv, TypeOK
<1>3. \A r \in ResourceIds :
        /\ res'[r].kind = res[r].kind /\ res'[r].used = res[r].used
        /\ res'[r].reserved = res[r].reserved - holds[c].amount[r]
  BY <1>1, ReleasedShares
<1>5. holds'[c] = NoHold /\ \A d \in Callers \ {c} : holds'[d] = holds[d]
  BY <1>1, <1>2
<1>6. HeldIsShare'
  <2> SUFFICES ASSUME NEW d \in Callers, NEW r \in ResourceIds
               PROVE  holds'[d].amount[r] =
                        IF holds'[d].on THEN Share(lease[d].op, r)' ELSE 0
    BY DEF HeldIsShare
  <2>1. CASE d = c
    BY <1>5, <2>1 DEF NoHold
  <2>2. CASE d # c
    BY <1>1, <1>3, <1>5, <2>2 DEF PoolInv, HeldIsShare, Share
  <2> QED
    BY <2>1, <2>2
<1>7. ReusableUnused'
  BY <1>3 DEF PoolInv, ReusableUnused
<1>8. ASSUME NEW r \in ResourceIds PROVE res'[r].reserved = SumOf(Amounts(r)')
  <2>1. Amounts(r) \in [Callers -> Nat] /\ Amounts(r)[c] = holds[c].amount[r]
    BY <1>2, AmountsType DEF Amounts
  <2>2. Amounts(r)' = [Amounts(r) EXCEPT ![c] = 0]
    <3>1. holds'[c].amount[r] = 0
      BY <1>5 DEF NoHold
    <3> QED
      BY <1>5, <3>1 DEF Amounts
  <2>3. IsFiniteSet(Callers)
    BY InputsAssumption
  <2>4. /\ SumOf(Amounts(r)) \in Nat
        /\ \A a \in Nat : SumOf([Amounts(r) EXCEPT ![c] = a]) =
             SumOf(Amounts(r)) - Amounts(r)[c] + a
    BY <2>1, <2>3, SumUpdate
  <2>5. res[r].reserved = SumOf(Amounts(r))
    BY <1>1 DEF PoolInv, ReservedIsHeld, Amounts
  <2>6. holds[c].amount[r] \in Nat
    BY <2>1
  <2>7. SumOf(Amounts(r)') = SumOf(Amounts(r)) - holds[c].amount[r] + 0
    <3>1. 0 \in Nat
      OBVIOUS
    <3> QED
      BY <2>1, <2>2, <2>4, <3>1, Zenon
  <2>8. SumOf(Amounts(r)) - holds[c].amount[r] + 0 =
          SumOf(Amounts(r)) - holds[c].amount[r]
    BY <2>4, <2>6
  <2>9. res'[r].reserved = res[r].reserved - holds[c].amount[r]
    BY <1>3
  <2> QED
    BY <2>5, <2>7, <2>8, <2>9, Zenon
<1>9. ReservedIsHeld'
  BY <1>8 DEF ReservedIsHeld, Amounts
<1> QED
  BY <1>6, <1>7, <1>9 DEF PoolInv

(* Every public call keeps what is reserved and what is held equal, if no  *)
(* caller replays a lease or reconfigures under one.                       *)
LEMMA PoolStep ==
    ASSUME ~CallerMayReplay, ~CallerMayReconfigure
    PROVE  PoolInv /\ AccountsInv' /\ LeaseInv' /\ [Next]_vars => PoolInv'
<1> SUFFICES ASSUME PoolInv, AccountsInv', LeaseInv', [Next]_vars
             PROVE  PoolInv'
  OBVIOUS
<1>1. \A c \in Callers : holds[c].on =>
        lease[c].op \in OpIds /\ op_cfg[lease[c].op]
  BY DEF PoolInv, LeaseInv, HeldLeasesOwnSlots, LeaseAccepted, Registered
<1>2. ASSUME NEW b \in MagicBases, NEW hc \in HalConfigs, InitOk(b, hc)
      PROVE  PoolInv'
  BY <1>2, PoolReset DEF InitOk
<1>3. CASE InitNoSpace
  BY <1>3, PoolReset DEF InitNoSpace, tables
<1>4. CASE Deinit
  BY <1>4, PoolReset DEF Deinit, tables
<1>5. ASSUME NEW x \in ResourceCalls, SetResource(x[1], x[2], x[3])
      PROVE  PoolInv'
  BY <1>5, PoolResized
<1>6. ASSUME NEW x \in ProfileCalls, RegisterOp(x[1], x[2])
      PROVE  PoolInv'
  <2>1. \A c \in Callers : holds[c].on => lease[c].op # x[1]
    BY <1>1, <1>6 DEF RegisterOp
  <2>2. \A c \in Callers : holds[c].on =>
          needs'[lease[c].op] = needs[lease[c].op]
    BY <1>1, <1>6, <2>1 DEF RegisterOp, PoolInv, AccountsInv, TypeOK
  <2> QED
    BY <1>6, <2>2, PoolFrame DEF RegisterOp
<1>7. ASSUME NEW x \in NeedCalls, OpSetNeed(x[1], x[2], x[3])
      PROVE  PoolInv'
  BY <1>7, PoolFrame DEF OpSetNeed, MayConfigure, Outstanding
<1>8. ASSUME NEW p \in PressureCalls, SetPressure(p) PROVE PoolInv'
  BY <1>8, PoolFrame DEF SetPressure, tables
<1>9. ASSUME NEW op \in OpInputs, Check(op) PROVE PoolInv'
  BY <1>9, PoolFrame DEF Check, tables
<1>10. ASSUME NEW c \in Callers, NEW op \in OpInputs, Enter(c, op)
       PROVE  PoolInv'
  <2>1. CASE EnterDenied(c, op)
    <3>1. \A d \in Callers : holds[d].on => lease'[d] = lease[d]
      BY <1>10, <2>1 DEF Enter, EnterDenied, PoolInv, LeaseInv, TypeOK
    <3> QED
      BY <2>1, <3>1, PoolFrame DEF EnterDenied, tables
  <2>2. CASE EnterRefused(c, op)
    BY <2>2, PoolFrame DEF EnterRefused, tables
  <2>3. CASE EnterGranted(c, op)
    BY <1>10, <2>3, PoolGranted DEF Enter
  <2> QED
    BY <1>10, <2>1, <2>2, <2>3 DEF Enter
<1>11. ASSUME NEW c \in Callers, Leave(c) PROVE PoolInv'
  BY <1>11, PoolLeft
<1>12. ASSUME NEW h \in HalStates, HalChange(h) PROVE PoolInv'
  BY <1>12, PoolFrame DEF HalChange, tables
<1>13. CASE UNCHANGED vars
  BY <1>13, PoolFrame DEF vars, tables
<1> QED
  BY <1>2, <1>3, <1>4, <1>5, <1>6, <1>7, <1>8, <1>9, <1>10, <1>11, <1>12,
     <1>13 DEF Next

(* The inductive invariant of the reservation theorems. *)
LEMMA PoolInvariant ==
    ASSUME ~CallerMayReplay, ~CallerMayReconfigure
    PROVE  Spec => []PoolInv
<1>1. PoolInv /\ AccountsInv' /\ LeaseInv' /\ [Next]_vars => PoolInv'
  BY PoolStep
<1>2. Spec => []LeaseInv
  BY LeaseInvariant
<1> QED
  BY <1>1, <1>2, PoolInitial, AccountsInvariant, PTL DEF Spec

(* What is reserved of a resource is at all times what the outstanding     *)
(* leases hold of it, for any number of callers, leases and resources.     *)
THEOREM ReservedAlwaysHeld ==
    ASSUME ~CallerMayReplay, ~CallerMayReconfigure
    PROVE  Spec => []ReservedIsHeld
<1>1. PoolInv => ReservedIsHeld
  BY DEF PoolInv
<1>2. Spec => []PoolInv
  BY PoolInvariant
<1> QED
  BY <1>1, <1>2, PTL

(* A caller told to WAIT for a resource that could ever be enough waits    *)
(* for somebody who holds some of it.                                      *)
THEOREM WaitsAreHonest ==
    ASSUME ~CallerMayReplay, ~CallerMayReconfigure
    PROVE  Spec => []WaitIsHonest
<1>1. ASSUME PoolInv, NEW op \in OpIds, magic,
             Decide(op).action = "WAIT",
             Decide(op).reason = "INSUFFICIENT_RES",
             Decide(op).requested <= res[Decide(op).denied_resource].limit
      PROVE  \E c \in Callers :
                 holds[c].amount[Decide(op).denied_resource] > 0
  <2> DEFINE F == NeedFailures(needs[op], res)
             n == needs[op][Min(F)]
             r == n.resource
  <2>1. Decide(op) = ProfileDecision(ops[op], pressure, halcfg, hal, needs[op],
                                     res)
    BY <1>1 DEF Decide, Verdict
  <2>2. PressureVerdict(ops[op], pressure).reason # "INSUFFICIENT_RES"
    BY DEF PressureVerdict, Verdict
  <2>3. HalVerdict(ops[op], pressure, halcfg, hal).reason # "INSUFFICIENT_RES"
    BY DEF HalVerdict, Verdict
  <2>4. Verdict(MappedAction(ops[op], pressure), "OK", pressure).reason
          # "INSUFFICIENT_RES"
    BY DEF Verdict
  <2>5. F # {} /\ Decide(op) = NeedVerdict(n, res, pressure)
    BY <1>1, <2>1, <2>2, <2>3, <2>4 DEF ProfileDecision
  <2>6. Min(F) \in F
    <3>1. F \in SUBSET Nat
      BY SizesAssumption DEF NeedFailures, NeedIndex
    <3> QED
      BY <2>5, <3>1, MinIn
  <2>7. Min(F) \in NeedIndex /\ NeedFails(n, res)
    BY <2>6 DEF NeedFailures
  <2> HIDE DEF F
  <2>8. n \in Need /\ TypeOK
    BY <1>1, <2>7 DEF PoolInv, AccountsInv, TypeOK, NeedList
  <2> HIDE DEF n
  <2>9. r \in ResourceIds /\ n.amount \in U16
    BY <2>8 DEF Need
  <2>10. /\ Decide(op).denied_resource = r /\ Decide(op).requested = n.amount
         /\ res[r].kind = "REUSABLE" /\ res[r].cfg
    BY <1>1, <2>5 DEF NeedVerdict, NeedDenied
  <2>11. AvailableOf(res[r]) < n.amount /\ n.amount <= res[r].limit
    BY <1>1, <2>7, <2>10 DEF NeedFails
  <2> HIDE DEF r
  <2>12. res[r] \in Resource /\ Sound(res[r]) /\ res[r].used = 0
    BY <1>1, <2>9, <2>10 DEF PoolInv, AccountsInv, TypeOK, ReusableUnused
  <2>13. AvailableOf(res[r]) = res[r].limit - res[r].used - res[r].reserved
    BY <2>12, AvailableExact DEF AvailableOf, Resource, Sound
  <2>14. res[r].reserved # 0
    BY <2>9, <2>11, <2>12, <2>13, SizesAssumption DEF Resource, U16
  <2>15. SumOf(Amounts(r)) # 0
    BY <1>1, <2>9, <2>14 DEF PoolInv, ReservedIsHeld, Amounts
  <2>16. PICK c \in Callers : Amounts(r)[c] > 0
    BY <2>8, <2>9, <2>15, AmountsType, SumPositive
  <2> QED
    BY <2>10, <2>16 DEF Amounts
<1>2. PoolInv => WaitIsHonest
  BY <1>1 DEF WaitIsHonest
<1>3. Spec => []PoolInv
  BY PoolInvariant
<1> QED
  BY <1>2, <1>3, PTL

-----------------------------------------------------------------------------
(* The refinement: the instance implements ReservationPool. *)

(* The pool counts with the Cardinality of FiniteSets. *)
LEMMA PoolCounts ==
    ASSUME NEW S
    PROVE  Pool!Cardinality(S) = Cardinality(S)
  BY DEF Pool!Cardinality, Cardinality

(* Handed counts the same units as SumOf. *)
LEMMA HandedIsSum ==
    ASSUME NEW r \in ResourceIds
    PROVE  Pool!Handed([c \in Callers |-> holds[c].amount], r) =
               SumOf(Amounts(r))
<1>1. UNION {{c} \X (1 .. [d \in Callers |-> holds[d].amount][c][r]) :
               c \in Callers} = Units(Amounts(r))
  BY DEF Units, Amounts
<1> QED
  BY <1>1, PoolCounts DEF Pool!Handed, SumOf

(* The untouched instance is the empty pool. *)
LEMMA PoolStarts == Init => Pool!PoolInit
  BY DEF Init, Pool!PoolInit, Pool!Nothing, NoEntry, NoHold

(* A granted loxbudget_enter takes everything the operation needs in one   *)
(* step of the pool.                                                       *)
LEMMA PoolAcquires ==
    ASSUME PoolInv, PoolInv', NEW c \in Callers, NEW op \in OpInputs,
           ~holds[c].on, EnterGranted(c, op)
    PROVE  Pool!Acquire(c)
<1>1. op \in OpIds /\ PhaseAPasses(op) /\ res' = Committed(op)
      /\ magic /\ magic'
  BY AllowedRegistered DEF EnterGranted
<1>2. AccountsInv /\ AccountsInv' /\ TypeOK /\ TypeOK'
  BY DEF PoolInv, AccountsInv
<1>3. holds[c].amount = Pool!Nothing
  <2>1. holds[c].amount \in [ResourceIds -> U16]
    BY <1>2 DEF TypeOK, Hold
  <2>2. \A r \in ResourceIds : holds[c].amount[r] = 0
    BY DEF PoolInv, HeldIsShare
  <2> QED
    BY <2>1, <2>2 DEF Pool!Nothing
<1>4. \A d \in Callers \ {c} : holds'[d] = holds[d]
  BY <1>2 DEF EnterGranted, TypeOK
<1>5. \A r \in ResourceIds : res'[r].limit = res[r].limit
  BY <1>1, <1>2, CommittedShares
<1>6. \A r \in ResourceIds : res'[r].used >= res[r].used
  <2> SUFFICES ASSUME NEW r \in ResourceIds
               PROVE  res'[r].used >= res[r].used
    OBVIOUS
  <2>1. res[r] \in Resource /\ Sound(res[r]) /\ NeedOf(op, r) \in U16
    BY <1>1, <1>2, NeedOfEntry DEF AccountsInv, TypeOK
  <2>2. CASE NeedOf(op, r) = 0
    BY <1>1, <2>1, <2>2, SizesAssumption DEF Committed, Resource, U16
  <2>3. CASE NeedOf(op, r) # 0
    <3>1. res[r].kind # "STATE" => AvailableOf(res[r]) >= NeedOf(op, r)
      BY <1>1, <1>2, <2>3, NeedAvailable
    <3>2. res'[r] = CommitNeed(res[r], NeedOf(op, r))
      BY <1>1, <2>3 DEF Committed
    <3> QED
      BY <2>1, <3>1, <3>2, CommitConsumes
  <2> QED
    BY <2>2, <2>3
<1>7. \A r \in ResourceIds :
         SumOf(Amounts(r)') + res'[r].used <= res[r].limit
  <2> SUFFICES ASSUME NEW r \in ResourceIds
               PROVE  SumOf(Amounts(r)') + res'[r].used <= res[r].limit
    OBVIOUS
  <2>1. res'[r].reserved = SumOf(Amounts(r)')
    BY <1>1 DEF PoolInv, ReservedIsHeld, Amounts
  <2>2. res'[r] \in Resource /\ Sound(res'[r])
    BY <1>2 DEF AccountsInv, TypeOK
  <2>3. res'[r].used + res'[r].reserved <= res[r].limit
    BY <1>5, <2>2 DEF Sound
  <2>4. res'[r].used \in Nat /\ res'[r].reserved \in Nat
    BY <2>2, SizesAssumption DEF Resource, U16
  <2> QED
    BY <2>1, <2>3, <2>4
<1>8. \A r \in ResourceIds :
         Pool!Handed([d \in Callers |-> holds'[d].amount], r) =
             SumOf(Amounts(r)')
  <2> SUFFICES ASSUME NEW r \in ResourceIds
               PROVE  Pool!Handed([d \in Callers |-> holds'[d].amount], r) =
                          SumOf(Amounts(r)')
    OBVIOUS
  <2>1. UNION {{d} \X (1 .. [e \in Callers |-> holds'[e].amount][d][r]) :
                 d \in Callers} = Units(Amounts(r)')
    BY DEF Units, Amounts
  <2> QED
    BY <2>1, PoolCounts DEF Pool!Handed, SumOf
<1>9. Pool!Fits([d \in Callers |-> holds'[d].amount],
                [r \in ResourceIds |-> res'[r].used])
  BY <1>7, <1>8 DEF Pool!Fits
<1>10. [d \in Callers |-> holds'[d].amount] =
         [[d \in Callers |-> holds[d].amount] EXCEPT ![c] =
             [d \in Callers |-> holds'[d].amount][c]]
  BY <1>4
<1> QED
  BY <1>3, <1>5, <1>6, <1>9, <1>10 DEF Pool!Acquire

(* loxbudget_leave of an outstanding lease is a release of the pool. *)
LEMMA PoolReleases ==
    ASSUME PoolInv, ~CallerMayReplay, NEW c \in Callers, Leave(c)
    PROVE  Pool!Release(c)
<1>1. /\ holds[c].on /\ magic /\ res' = Released(lease[c].op)
      /\ holds' = [holds EXCEPT ![c] = NoHold]
  BY DEF Leave, LeaseAccepted
<1>2. \A r \in ResourceIds :
        res'[r].limit = res[r].limit /\ res'[r].used = res[r].used
  BY <1>1, ReleasedShares
<1>3. holds'[c] = NoHold /\ \A d \in Callers \ {c} : holds'[d] = holds[d]
  BY <1>1 DEF PoolInv, AccountsInv, TypeOK
<1>4. NoHold.amount = Pool!Nothing
  BY DEF NoHold, Pool!Nothing
<1>5. [d \in Callers |-> holds'[d].amount] =
        [[d \in Callers |-> holds[d].amount] EXCEPT ![c] = Pool!Nothing]
  BY <1>3, <1>4
<1> QED
  BY <1>2, <1>5 DEF Pool!Release

(* loxbudget_set_resource while nothing is held resizes one thing. *)
LEMMA PoolResizes ==
    ASSUME PoolInv, ~CallerMayReconfigure,
           NEW x \in ResourceCalls, SetResource(x[1], x[2], x[3])
    PROVE  Pool!Resize(x[1]) /\ x[1] \in ResourceIds
<1> DEFINE e == [cfg |-> TRUE, kind |-> x[3], limit |-> x[2], used |-> 0,
                 reserved |-> 0, high_watermark |-> 0]
<1>1. res' = [res EXCEPT ![x[1]] = e] /\ UNCHANGED holds /\ e.used = 0
  BY DEF SetResource
<1>2. x[1] \in ResourceIds /\ res \in [ResourceIds -> Resource] /\ TypeOK
  BY InputsAssumption DEF PoolInv, AccountsInv, TypeOK
<1>3. \A c \in Callers : holds[c].amount = Pool!Nothing
  BY <1>2, NothingHeld DEF SetResource, MayConfigure, PoolInv, Pool!Nothing
<1> HIDE DEF e
<1>4. res'[x[1]].used = 0 /\ \A r \in ResourceIds \ {x[1]} : res'[r] = res[r]
  BY <1>1, <1>2
<1>5. [r \in ResourceIds |-> res'[r].limit] =
        [[r \in ResourceIds |-> res[r].limit] EXCEPT ![x[1]] =
            [r \in ResourceIds |-> res'[r].limit][x[1]]]
  BY <1>2, <1>4
<1>6. [r \in ResourceIds |-> res'[r].used] =
        [[r \in ResourceIds |-> res[r].used] EXCEPT ![x[1]] = 0]
  BY <1>2, <1>4
<1> QED
  BY <1>1, <1>2, <1>3, <1>5, <1>6 DEF Pool!Resize

(* Every call of the instance is a step of the pool or invisible in it. *)
LEMMA PoolSimulates ==
    ASSUME ~CallerMayReplay, ~CallerMayReconfigure
    PROVE  PoolInv /\ PoolInv' /\ [Next]_vars => [Pool!PoolNext]_(Pool!poolVars)
<1> SUFFICES ASSUME PoolInv, PoolInv', [Next]_vars
             PROVE  [Pool!PoolNext]_(Pool!poolVars)
  OBVIOUS
<1>1. ASSUME UNCHANGED <<res, holds>> PROVE UNCHANGED Pool!poolVars
  BY <1>1 DEF Pool!poolVars
<1>2. ASSUME NEW b \in MagicBases, NEW hc \in HalConfigs, InitOk(b, hc)
      PROVE  Pool!Open
  BY <1>2 DEF InitOk, Pool!Open, Pool!Nothing, NoEntry, NoHold
<1>3. ASSUME InitNoSpace \/ Deinit PROVE Pool!Close
  BY <1>3 DEF InitNoSpace, Deinit, tables, Pool!Close, Pool!Nothing, NoHold
<1>4. ASSUME NEW x \in ResourceCalls, SetResource(x[1], x[2], x[3])
      PROVE  \E r \in ResourceIds : Pool!Resize(r)
  BY <1>4, PoolResizes
<1>5. ASSUME NEW c \in Callers, NEW op \in OpInputs, Enter(c, op)
      PROVE  Pool!Acquire(c) \/ UNCHANGED Pool!poolVars
  BY <1>1, <1>5, PoolAcquires DEF Enter, EnterDenied, EnterRefused, tables
<1>6. ASSUME NEW c \in Callers, Leave(c) PROVE Pool!Release(c)
  BY <1>6, PoolReleases
<1>7. CASE \/ \E x \in ProfileCalls : RegisterOp(x[1], x[2])
           \/ \E x \in NeedCalls : OpSetNeed(x[1], x[2], x[3])
           \/ \E p \in PressureCalls : SetPressure(p)
           \/ \E op \in OpInputs : Check(op)
           \/ \E h \in HalStates : HalChange(h)
           \/ UNCHANGED vars
  BY <1>1, <1>7 DEF RegisterOp, OpSetNeed, SetPressure, Check, HalChange,
     vars, tables
<1> QED
  BY <1>2, <1>3, <1>4, <1>5, <1>6, <1>7 DEF Next, Pool!PoolNext

(* loxbudget implements the pool of atomic reservations: counters, slots   *)
(* and tokens promise their callers no less than the abstract pool does.   *)
THEOREM PoolImplemented ==
    ASSUME ~CallerMayReplay, ~CallerMayReconfigure
    PROVE  Spec => ImplementsPool
<1>1. PoolInv /\ PoolInv' /\ [Next]_vars => [Pool!PoolNext]_(Pool!poolVars)
  BY PoolSimulates
<1>2. Spec => []PoolInv
  BY PoolInvariant
<1> QED
  BY <1>1, <1>2, PoolStarts, PTL DEF Spec, ImplementsPool, Pool!PoolSpec

-----------------------------------------------------------------------------
(* The storage layout. *)

(* Alignment adds at most three bytes, and nothing to a whole number of    *)
(* words.                                                                  *)
LEMMA AlignUpBounds ==
    ASSUME NEW v \in Nat
    PROVE  /\ AlignUp(v) \in Nat
           /\ v =< AlignUp(v) /\ AlignUp(v) =< v + 3
           /\ AlignUp(v) % 4 = 0
  BY DEF AlignUp

LEMMA AlignUpWords ==
    ASSUME NEW v \in Nat, NEW s \in Nat, v % 4 = 0, s % 4 = 0
    PROVE  v + s \in Nat /\ (v + s) % 4 = 0 /\ AlignUp(v + s) = v + s
  BY DEF AlignUp

LEMMA WordsOf ==
    ASSUME NEW k \in Nat
    PROVE  k * 4 \in Nat /\ (k * 4) % 4 = 0
  OBVIOUS

(* Every table starts at a word, directly behind the one before.           *)
LEMMA Offsets ==
    ASSUME NEW b \in Builds, NEW c \in Configs(b)
    PROVE  /\ ResourcesOff = 32
           /\ OpsOff(c) = ResourcesOff + c.resources * 12
           /\ NeedsOff(c) = OpsOff(c) + c.ops * 8
           /\ LeaseSlotsOff(b, c) = NeedsOff(c) + c.ops * b.max_needs * 4
           /\ AuditOff(b, c) = LeaseSlotsOff(b, c) + c.leases * 4
           /\ RateOff(b, c) = AuditOff(b, c) + c.audit * 16
           /\ CalibOff(b, c) = RateOff(b, c)
                               + IF b.rate THEN c.resources * 72 ELSE 0
           /\ CalibEnd(b, c) = CalibOff(b, c)
                + IF b.calibration THEN c.ops * (b.calib_words * 4) ELSE 0
           /\ \A o \in {ResourcesOff, OpsOff(c), NeedsOff(c),
                        LeaseSlotsOff(b, c), AuditOff(b, c), RateOff(b, c),
                        CalibOff(b, c), CalibEnd(b, c)} :
                 o \in Nat /\ o % 4 = 0
<1>1. /\ c.resources \in Nat /\ c.ops \in Nat /\ c.leases \in Nat
      /\ c.audit \in Nat /\ b.max_needs \in Nat /\ b.calib_words \in Nat
  BY DEF Builds, Configs
<1>r. c.resources * 12 \in Nat /\ (c.resources * 12) % 4 = 0
  BY <1>1
<1>w. c.resources * 72 \in Nat /\ (c.resources * 72) % 4 = 0
  BY <1>1
<1>o. c.ops * 8 \in Nat /\ (c.ops * 8) % 4 = 0
  BY <1>1
<1>l. c.leases * 4 \in Nat /\ (c.leases * 4) % 4 = 0
  BY <1>1
<1>a. c.audit * 16 \in Nat /\ (c.audit * 16) % 4 = 0
  BY <1>1
<1>3. /\ c.ops * b.max_needs * 4 \in Nat
      /\ (c.ops * b.max_needs * 4) % 4 = 0
  <2>1. c.ops * b.max_needs \in Nat
    BY <1>1
  <2> QED
    BY <2>1, WordsOf
<1>4. /\ c.ops * (b.calib_words * 4) \in Nat
      /\ (c.ops * (b.calib_words * 4)) % 4 = 0
  <2>1. c.ops * b.calib_words \in Nat
    BY <1>1
  <2>2. c.ops * (b.calib_words * 4) = (c.ops * b.calib_words) * 4
    BY <1>1
  <2> QED
    BY <2>1, <2>2, WordsOf
<1>5. ResourcesOff = 32 /\ ResourcesOff \in Nat /\ ResourcesOff % 4 = 0
  BY DEF ResourcesOff, AlignUp
<1>6. /\ OpsOff(c) = ResourcesOff + c.resources * 12
      /\ OpsOff(c) \in Nat /\ OpsOff(c) % 4 = 0
  BY <1>r, <1>5, AlignUpWords, Zenon DEF OpsOff
<1>7. /\ NeedsOff(c) = OpsOff(c) + c.ops * 8
      /\ NeedsOff(c) \in Nat /\ NeedsOff(c) % 4 = 0
  BY <1>o, <1>6, AlignUpWords, Zenon DEF NeedsOff
<1>8. /\ LeaseSlotsOff(b, c) = NeedsOff(c) + c.ops * b.max_needs * 4
      /\ LeaseSlotsOff(b, c) \in Nat /\ LeaseSlotsOff(b, c) % 4 = 0
  BY <1>3, <1>7, AlignUpWords, Zenon DEF LeaseSlotsOff
<1>9. /\ AuditOff(b, c) = LeaseSlotsOff(b, c) + c.leases * 4
      /\ AuditOff(b, c) \in Nat /\ AuditOff(b, c) % 4 = 0
  BY <1>l, <1>8, AlignUpWords, Zenon DEF AuditOff
<1>10. /\ RateOff(b, c) = AuditOff(b, c) + c.audit * 16
       /\ RateOff(b, c) \in Nat /\ RateOff(b, c) % 4 = 0
  BY <1>a, <1>9, AlignUpWords, Zenon DEF RateOff
<1>11. /\ CalibOff(b, c) = RateOff(b, c)
                           + IF b.rate THEN c.resources * 72 ELSE 0
       /\ CalibOff(b, c) \in Nat /\ CalibOff(b, c) % 4 = 0
  <2>1. CASE b.rate
    <3>1. CalibOff(b, c) = AlignUp(RateOff(b, c) + c.resources * 72)
      BY <2>1 DEF CalibOff
    <3>2. \A s \in Nat : s % 4 = 0 =>
            /\ RateOff(b, c) + s \in Nat /\ (RateOff(b, c) + s) % 4 = 0
            /\ AlignUp(RateOff(b, c) + s) = RateOff(b, c) + s
      BY <1>10, AlignUpWords, Zenon
    <3>3. /\ CalibOff(b, c) = RateOff(b, c) + c.resources * 72
          /\ CalibOff(b, c) \in Nat /\ CalibOff(b, c) % 4 = 0
      <4> DEFINE rw == c.resources * 72
      <4>1. rw \in Nat /\ rw % 4 = 0 /\ CalibOff(b, c) = AlignUp(RateOff(b, c) + rw)
        BY <1>w, <3>1
      <4> HIDE DEF rw
      <4>2. /\ CalibOff(b, c) = RateOff(b, c) + rw
            /\ CalibOff(b, c) \in Nat /\ CalibOff(b, c) % 4 = 0
        BY <4>1, <3>2, Zenon
      <4> QED
        BY <4>2 DEF rw
    <3> QED
      BY <2>1, <3>3
  <2>2. CASE ~b.rate
    BY <1>10, <2>2 DEF CalibOff
  <2> QED
    BY <2>1, <2>2
<1>12. /\ CalibEnd(b, c) = CalibOff(b, c)
            + IF b.calibration THEN c.ops * (b.calib_words * 4) ELSE 0
       /\ CalibEnd(b, c) \in Nat /\ CalibEnd(b, c) % 4 = 0
  <2>1. CASE b.calibration
    <3>1. CalibEnd(b, c) = AlignUp(CalibOff(b, c) + c.ops * (b.calib_words * 4))
      BY <2>1 DEF CalibEnd
    <3>2. \A s \in Nat : s % 4 = 0 =>
            /\ CalibOff(b, c) + s \in Nat /\ (CalibOff(b, c) + s) % 4 = 0
            /\ AlignUp(CalibOff(b, c) + s) = CalibOff(b, c) + s
      BY <1>11, AlignUpWords, Zenon
    <3> DEFINE cw == c.ops * (b.calib_words * 4)
    <3>3. cw \in Nat /\ cw % 4 = 0 /\ CalibEnd(b, c) = AlignUp(CalibOff(b, c) + cw)
      BY <1>4, <3>1
    <3> HIDE DEF cw
    <3>4. /\ CalibEnd(b, c) = CalibOff(b, c) + cw
          /\ CalibEnd(b, c) \in Nat /\ CalibEnd(b, c) % 4 = 0
      BY <3>2, <3>3, Zenon
    <3> QED
      BY <2>1, <3>4 DEF cw
  <2>2. CASE ~b.calibration
    BY <1>11, <2>2 DEF CalibEnd
  <2> QED
    BY <2>1, <2>2
<1> QED
  BY <1>5, <1>6, <1>7, <1>8, <1>9, <1>10, <1>11, <1>12

(* loxbudget_init never lets two tables share a byte: each ends where or   *)
(* before the next begins, the last before the 16 bytes of slack, and each *)
(* begins at a word, as its struct requires.                               *)
THEOREM TablesDisjoint ==
    ASSUME NEW b \in Builds, NEW c \in Configs(b)
    PROVE  /\ 32 =< ResourcesOff
           /\ ResourcesOff + c.resources * 12 =< OpsOff(c)
           /\ OpsOff(c) + c.ops * 8 =< NeedsOff(c)
           /\ NeedsOff(c) + c.ops * b.max_needs * 4 =< LeaseSlotsOff(b, c)
           /\ LeaseSlotsOff(b, c) + c.leases * 4 =< AuditOff(b, c)
           /\ AuditOff(b, c) + c.audit * 16 =< RateOff(b, c)
           /\ b.rate => RateOff(b, c) + c.resources * 72 =< CalibOff(b, c)
           /\ b.calibration =>
                CalibOff(b, c) + c.ops * (b.calib_words * 4) =< CalibEnd(b, c)
           /\ CalibEnd(b, c) + 16 =< InitSize(b, c)
           /\ \A o \in {ResourcesOff, OpsOff(c), NeedsOff(c),
                        LeaseSlotsOff(b, c), AuditOff(b, c), RateOff(b, c),
                        CalibOff(b, c), CalibEnd(b, c)} : o % 4 = 0
<1>1. CausalityBytes(b, c) \in Nat /\ CalibEnd(b, c) \in Nat
  <2>1. c.ops \in Nat /\ b.max_edges \in Nat
    BY DEF Builds, Configs
  <2> QED
    BY <2>1, Offsets DEF CausalityBytes, VisitedBytes
<1>2. CalibEnd(b, c) + 16 =< InitSize(b, c)
  <2>1. CASE b.causality
    <3>1. CalibEnd(b, c) + CausalityBytes(b, c) \in Nat
      BY <1>1
    <3> QED
      BY <1>1, <2>1, <3>1, AlignUpBounds DEF InitSize
  <2>2. CASE ~b.causality
    BY <1>1, <2>2 DEF InitSize
  <2> QED
    BY <2>1, <2>2
<1>3. /\ c.resources \in Nat /\ c.ops \in Nat /\ c.leases \in Nat
      /\ c.audit \in Nat /\ b.max_needs \in Nat /\ b.calib_words \in Nat
  BY DEF Builds, Configs
<1>5. \A o \in {ResourcesOff, OpsOff(c), NeedsOff(c), LeaseSlotsOff(b, c),
                AuditOff(b, c), RateOff(b, c), CalibOff(b, c),
                CalibEnd(b, c)} : o \in Nat /\ o % 4 = 0
  BY Offsets, Zenon
<1>6. \A x, y \in Nat : x = y => x =< y
  OBVIOUS
<1>7. /\ 32 =< ResourcesOff
      /\ ResourcesOff + c.resources * 12 =< OpsOff(c)
      /\ OpsOff(c) + c.ops * 8 =< NeedsOff(c)
      /\ LeaseSlotsOff(b, c) + c.leases * 4 =< AuditOff(b, c)
      /\ AuditOff(b, c) + c.audit * 16 =< RateOff(b, c)
  BY <1>3, <1>5, Offsets
<1>8. NeedsOff(c) + c.ops * b.max_needs * 4 =< LeaseSlotsOff(b, c)
  <2>1. /\ NeedsOff(c) + c.ops * b.max_needs * 4 = LeaseSlotsOff(b, c)
        /\ LeaseSlotsOff(b, c) \in Nat
    BY <1>5, Offsets, Zenon
  <2> QED
    BY <2>1, <1>6, Zenon
<1>9. ASSUME b.rate
      PROVE  RateOff(b, c) + c.resources * 72 =< CalibOff(b, c)
  <2>1. CalibOff(b, c) = RateOff(b, c)
                         + IF b.rate THEN c.resources * 72 ELSE 0
    BY Offsets
  <2>2. RateOff(b, c) \in Nat
    BY <1>5, Zenon
  <2> QED
    BY <1>3, <1>9, <2>1, <2>2
<1>10. ASSUME b.calibration
       PROVE  CalibOff(b, c) + c.ops * (b.calib_words * 4) =< CalibEnd(b, c)
  <2>1. CalibEnd(b, c) = CalibOff(b, c)
                         + IF b.calibration THEN c.ops * (b.calib_words * 4) ELSE 0
    BY Offsets, Zenon
  <2>2. CalibOff(b, c) + c.ops * (b.calib_words * 4) = CalibEnd(b, c)
    BY <2>1, <1>10, Zenon
  <2>3. CalibEnd(b, c) \in Nat
    BY <1>5, Zenon
  <2> QED
    BY <2>2, <2>3, <1>6, Zenon
<1> QED
  BY <1>2, <1>5, <1>7, <1>8, <1>9, <1>10, Zenon

(* "Must match the storage layout in loxbudget_init": the causality module *)
(* finds its block where init ended the other tables, its edges are words, *)
(* its bitmap ends within what init demanded, and an initialised instance  *)
(* always passes lb__causality_has_storage_.                               *)
THEOREM CausalityBlockFits ==
    ASSUME NEW b \in Builds, NEW c \in Configs(b), b.causality,
           NEW size \in Nat, InitSize(b, c) =< size
    PROVE  /\ CausalityOff(b, c) = CalibEnd(b, c)
           /\ EdgesOff(b, c) % 4 = 0
           /\ VisitedOff(b, c) + VisitedBytes(c) =< size
           /\ CausalityHasStorage(b, c, size)
<1>1. CausalityOff(b, c) = CalibEnd(b, c)
  BY DEF CausalityOff, CalibEnd, CalibOff, RateOff, AuditOff, LeaseSlotsOff,
         NeedsOff, OpsOff, ResourcesOff
<1>2. CalibEnd(b, c) \in Nat /\ CalibEnd(b, c) % 4 = 0
  BY Offsets
<1>3. b.max_edges \in Nat /\ VisitedBytes(c) \in Nat
  BY DEF Builds, Configs, VisitedBytes
<1>4. CalibEnd(b, c) + CausalityBytes(b, c) =< size
  <2>1. CalibEnd(b, c) + CausalityBytes(b, c) \in Nat
    BY <1>2, <1>3 DEF CausalityBytes
  <2> QED
    BY <2>1, AlignUpBounds DEF InitSize
<1> QED
  BY <1>1, <1>2, <1>3, <1>4
  DEF EdgesOff, VisitedOff, CausalityHasStorage, CausalityBytes

(* A buffer of LOXBUDGET_REQUIRED_SIZE bytes is enough for loxbudget_init, *)
(* whatever the configuration and the build: the macro's spare four bytes  *)
(* for each lease cover the alignment of the bitmap, the only table that   *)
(* is not a whole number of words.                                         *)
THEOREM RequiredSizeSuffices ==
    ASSUME NEW b \in Builds, NEW c \in Configs(b)
    PROVE  InitSize(b, c) =< RequiredSize(b, c)
<1> DEFINE nw == c.ops * b.max_needs * 4
           cw == c.ops * (b.calib_words * 4)
           ew == b.max_edges * 4
           vb == VisitedBytes(c)
<1>1. /\ c.resources \in Nat /\ c.ops \in Nat /\ c.leases \in Nat
      /\ c.audit \in Nat /\ b.max_leases \in Nat
      /\ 1 =< b.max_leases /\ c.leases =< b.max_leases
  BY DEF Builds, Configs
<1>2. nw \in Nat /\ cw \in Nat
  <2>1. b.max_needs \in Nat /\ b.calib_words \in Nat
    BY DEF Builds
  <2> QED
    BY <1>1, <2>1
<1>3. ew \in Nat /\ vb \in Nat
  BY <1>1 DEF Builds, VisitedBytes
<1>4. CalibEnd(b, c) =
        32 + c.resources * 12 + c.ops * 8 + nw + c.leases * 4 + c.audit * 16
        + (IF b.rate THEN c.resources * 72 ELSE 0)
        + (IF b.calibration THEN cw ELSE 0)
  <2> HIDE DEF nw, cw
  <2>1. LeaseSlotsOff(b, c) = NeedsOff(c) + nw
    BY Offsets DEF nw
  <2>2. CalibEnd(b, c) = CalibOff(b, c) + IF b.calibration THEN cw ELSE 0
    BY Offsets DEF cw
  <2>3. /\ ResourcesOff = 32
        /\ OpsOff(c) = ResourcesOff + c.resources * 12
        /\ NeedsOff(c) = OpsOff(c) + c.ops * 8
        /\ AuditOff(b, c) = LeaseSlotsOff(b, c) + c.leases * 4
        /\ RateOff(b, c) = AuditOff(b, c) + c.audit * 16
        /\ CalibOff(b, c) = RateOff(b, c)
                            + IF b.rate THEN c.resources * 72 ELSE 0
    BY Offsets
  <2> QED
    BY <1>1, <1>2, <2>1, <2>2, <2>3
<1>5. CausalityBytes(b, c) = 4 + ew + vb
  BY DEF CausalityBytes
<1>6. RequiredSize(b, c) =
        32 + c.resources * 12 + c.ops * 8 + nw + b.max_leases * 8
        + (IF b.rate THEN c.resources * 72 ELSE 0)
        + (IF b.calibration THEN cw ELSE 0)
        + (IF b.causality THEN 4 + ew + vb ELSE 0) + c.audit * 16 + 16
  BY DEF RequiredSize
<1> HIDE DEF nw, cw, ew, vb
<1>7. CalibEnd(b, c) \in Nat
  BY Offsets
<1>8. CASE b.causality
  <2>1. CalibEnd(b, c) + CausalityBytes(b, c) \in Nat
    BY <1>3, <1>5, <1>7
  <2>2. InitSize(b, c) =< 16 + CalibEnd(b, c) + CausalityBytes(b, c) + 3
    BY <1>3, <1>5, <1>7, <1>8, <2>1, AlignUpBounds DEF InitSize
  <2>3. InitSize(b, c) \in Nat
    BY <1>8, <2>1, AlignUpBounds DEF InitSize
  <2> QED
    BY <1>1, <1>2, <1>3, <1>4, <1>5, <1>6, <1>7, <1>8, <2>2, <2>3
<1>9. CASE ~b.causality
  BY <1>1, <1>2, <1>4, <1>6, <1>7, <1>9 DEF InitSize
<1> QED
  BY <1>8, <1>9

(* Nor does it matter that a buffer declared as that many bytes / 4 words, *)
(* as the tests and examples do, rounds down: what init demands is a       *)
(* number of words.                                                        *)
THEOREM RequiredWordsSuffice ==
    ASSUME NEW b \in Builds, NEW c \in Configs(b)
    PROVE  InitSize(b, c) =< (RequiredSize(b, c) \div 4) * 4
<1>1. \A m, n \in Nat : m % 4 = 0 /\ m =< n => m =< (n \div 4) * 4
  OBVIOUS
<1>2. /\ InitSize(b, c) \in Nat /\ InitSize(b, c) % 4 = 0
      /\ RequiredSize(b, c) \in Nat
  <2>1. CalibEnd(b, c) \in Nat /\ CalibEnd(b, c) % 4 = 0
    BY Offsets
  <2>2. /\ c.resources \in Nat /\ c.ops \in Nat /\ c.audit \in Nat
        /\ b.max_needs \in Nat /\ b.calib_words \in Nat
        /\ b.max_edges \in Nat /\ b.max_leases \in Nat
    BY DEF Builds, Configs
  <2>3. CalibEnd(b, c) + CausalityBytes(b, c) \in Nat
    BY <2>1, <2>2 DEF CausalityBytes, VisitedBytes
  <2>4. InitSize(b, c) \in Nat /\ InitSize(b, c) % 4 = 0
    <3> DEFINE e == IF b.causality
                    THEN AlignUp(CalibEnd(b, c) + CausalityBytes(b, c))
                    ELSE CalibEnd(b, c)
    <3>1. e \in Nat /\ e % 4 = 0
      BY <2>1, <2>3, AlignUpBounds
    <3>2. InitSize(b, c) = 16 + e
      BY DEF InitSize
    <3> HIDE DEF e
    <3> QED
      BY <3>1, <3>2
  <2>5. c.ops * b.max_needs * 4 \in Nat /\ c.ops * (b.calib_words * 4) \in Nat
    BY <2>2
  <2>6. RequiredSize(b, c) \in Nat
    <3> DEFINE nw == c.ops * b.max_needs * 4
               cw == c.ops * (b.calib_words * 4)
               tw == IF b.rate THEN c.resources * 72 ELSE 0
               kw == IF b.calibration THEN cw ELSE 0
               gw == IF b.causality
                     THEN 4 + b.max_edges * 4 + VisitedBytes(c) ELSE 0
    <3>1. RequiredSize(b, c) =
            32 + c.resources * 12 + c.ops * 8 + nw + b.max_leases * 8
            + tw + kw + gw + c.audit * 16 + 16
      BY DEF RequiredSize
    <3>2. nw \in Nat /\ cw \in Nat
      BY <2>5
    <3>3. c.resources * 72 \in Nat /\ 4 + b.max_edges * 4 + VisitedBytes(c) \in Nat
      BY <2>2 DEF VisitedBytes
    <3>4. tw \in Nat /\ kw \in Nat /\ gw \in Nat
      BY <3>2, <3>3
    <3> HIDE DEF nw, cw, tw, kw, gw
    <3> QED
      BY <2>2, <3>1, <3>2, <3>4
  <2> QED
    BY <2>4, <2>6
<1> QED
  BY <1>1, <1>2, RequiredSizeSuffices

=============================================================================
