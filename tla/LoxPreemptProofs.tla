-------------------------- MODULE LoxPreemptProofs --------------------------
(***************************************************************************)
(* Theorems about LoxPreempt for every number of contexts, every size of   *)
(* the tables and every interleaving of the contexts.                      *)
(***************************************************************************)
EXTENDS LoxPreempt, LoxDecisionProofs

-----------------------------------------------------------------------------
(* Facts about the operators. *)

(* Whatever the accounts are, a commit and a release keep their widths.    *)
LEMMA CommitType ==
    ASSUME NEW r \in Resource, NEW a \in U16
    PROVE  CommitNeed(r, a) \in Resource
<1>1. \A x, y \in U16 : (x + y) % (U16_MAX + 1) \in U16
  <2> TAKE x, y \in U16
  <2>1. x + y \in Nat /\ U16_MAX \in Nat
    BY SizesAssumption DEF U16
  <2> QED
    BY <2>1, ModRange DEF U16
<1>2. CASE r.kind = "REUSABLE"
  <2>1. (r.reserved + a) % (U16_MAX + 1) \in U16
    BY <1>1 DEF Resource
  <2> QED
    BY <1>2, <2>1 DEF CommitNeed, Resource
<1>3. CASE r.kind = "CONSUMABLE"
  <2>1. (r.used + a) % (U16_MAX + 1) \in U16
    BY <1>1 DEF Resource
  <2> QED
    BY <1>3, <2>1 DEF CommitNeed, Resource
<1>4. CASE r.kind \notin {"REUSABLE", "CONSUMABLE"}
  BY <1>4 DEF CommitNeed
<1> QED
  BY <1>2, <1>3, <1>4

LEMMA ReleaseType ==
    ASSUME NEW r \in Resource, NEW a \in U16
    PROVE  ReleaseNeed(r, a) \in Resource
  BY SizesAssumption DEF ReleaseNeed, Resource, U16

(* The entry a context looks at is an entry of a configured need list.     *)
LEMMA EntryType ==
    ASSUME NEW t, arg[t] \in OpIds, idx[t] \in 1 .. MaxNeedsPerOp
    PROVE  /\ Entry(t) \in Need
           /\ Entry(t).resource \in ResourceIds /\ Entry(t).amount \in U16
<1>1. NeedLists[arg[t]] \in [NeedIndex -> Need]
  BY PreemptAssumption DEF NeedList
<1>2. idx[t] \in NeedIndex
  BY DEF NeedIndex
<1>3. Entry(t) \in Need
  BY <1>1, <1>2 DEF Entry
<1> QED
  BY <1>3 DEF Need

(* What is left to count after the next counter. *)
LEMMA TodoTail ==
    ASSUME NEW S, NEW s \in Seq(S), s # <<>>
    PROVE  /\ Head(s) \in S /\ Tail(s) \in Seq(S)
           /\ Len(s) # 1 => Tail(s) # <<>>
<1>1. Head(s) \in S /\ Tail(s) \in Seq(S)
  OBVIOUS
<1>2. Len(s) # 1 => Len(Tail(s)) # 0
  OBVIOUS
<1>3. Len(<<>>) = 0
  OBVIOUS
<1> QED
  BY <1>1, <1>2, <1>3, Zenon

LEMMA IncrementsType ==
    ASSUME NEW a
    PROVE  Increments(a) \in Seq(Counters) /\ Increments(a) # <<>>
<1>1. /\ <<"decisions", "grants">> \in Seq(Counters)
      /\ <<"decisions", "degradations", "grants">> \in Seq(Counters)
      /\ <<"decisions", "denials">> \in Seq(Counters)
  BY DEF Counters
<1>2. /\ <<"decisions", "grants">> # <<>>
      /\ <<"decisions", "degradations", "grants">> # <<>>
      /\ <<"decisions", "denials">> # <<>>
  OBVIOUS
<1> QED
  BY <1>1, <1>2 DEF Increments

(* The first free slot is a slot of the table. *)
LEMMA FirstFree ==
    ASSUME FreeSlots # {}
    PROVE  Min(FreeSlots) \in LeaseIds /\ ~slots[Min(FreeSlots)].active
<1>1. FreeSlots \in SUBSET Nat
  BY SizesAssumption DEF FreeSlots, LeaseIds
<1>2. Min(FreeSlots) \in FreeSlots
  BY <1>1, MinIn
<1> QED
  BY <1>2 DEF FreeSlots

(* What an operation reserves is an amount of its list. *)
LEMMA ReservesType ==
    ASSUME NEW op \in OpIds, NEW r \in ResourceIds
    PROVE  Reserves(op, r) \in U16
<1> DEFINE I == {i \in NeedIndex : /\ NeedLists[op][i].amount # 0
                                   /\ NeedLists[op][i].resource = r}
<1>1. CASE I = {} \/ ResourceTable[r].kind # "REUSABLE"
  BY <1>1, SizesAssumption DEF Reserves, U16
<1>2. CASE ~(I = {} \/ ResourceTable[r].kind # "REUSABLE")
  <2>1. I \in SUBSET Nat
    BY SizesAssumption DEF NeedIndex
  <2>2. Min(I) \in I
    BY <1>2, <2>1, MinIn
  <2>3. Reserves(op, r) = NeedLists[op][Min(I)].amount
    BY <1>2 DEF Reserves
  <2>4. NeedLists[op] \in [NeedIndex -> Need] /\ Min(I) \in NeedIndex
    BY <2>2, PreemptAssumption DEF NeedList
  <2> QED
    BY <2>3, <2>4 DEF Need
<1> QED
  BY <1>1, <1>2

(* An entry that cannot be met is never allowed. *)
LEMMA VerdictRefuses ==
    ASSUME NEW n, NEW rs, NEW p
    PROVE  /\ NeedVerdict(n, rs, p).action \in Actions
           /\ ~Allowed(NeedVerdict(n, rs, p).action)
  BY DEF NeedVerdict, NeedDenied, Allowed, Actions

-----------------------------------------------------------------------------
(* Types.  What a context's local variables mean depends on where it is:   *)
(* the argument is an operation of the table in every part of check and    *)
(* enter that indexes with it, the loops start at the first entry, and a   *)
(* context enters with no outstanding lease and leaves with one, or again. *)

Control(t) ==
    /\ pc[t] = "idle" => call[t] = "none"
    /\ pc[t] \in {"mapped", "lockdown", "hal", "need", "load", "store",
                  "decided"} => call[t] \in {"check", "enter"}
    /\ pc[t] \in {"phaseA", "slot", "commit", "publish"} => call[t] = "enter"
    /\ pc[t] \in {"match", "release", "clear"} => call[t] = "leave"
    /\ pc[t] = "setp" => call[t] = "pressure"
    /\ pc[t] \in {"lock", "unlock"} => call[t] \in {"enter", "leave",
                                                    "pressure"}
    /\ pc[t] \in {"lockdown", "hal", "need"} => arg[t] \in OpIds
    /\ pc[t] \in {"load", "store"} => todo[t] # <<>>
    /\ pc[t] \in {"hal", "need"} => Allowed(act[t])
    /\ pc[t] \in {"load", "store", "decided"} /\ Allowed(act[t])
         => arg[t] \in OpIds
    /\ call[t] = "enter" /\ pc[t] \in {"phaseA", "lock", "slot", "commit",
                                       "publish"}
         => arg[t] \in OpIds /\ Allowed(act[t])
    /\ call[t] = "pressure" => arg[t] \in Pressures
    /\ call[t] = "enter" /\ pc[t] # "unlock" => ~hold[t].on
    /\ call[t] = "leave" /\ pc[t] # "unlock" => /\ hold[t].on \/ Replays(t)
                                                /\ arg[t] = lease[t].op
    /\ pc[t] \notin {"need", "phaseA", "commit", "publish", "release",
                     "clear", "unlock"} => idx[t] = 1

TypeInv == TypeOK /\ \A t \in Contexts : Control(t)

LEMMA TypeInit == Init => TypeInv
<1> SUFFICES ASSUME Init PROVE TypeInv
  OBVIOUS
<1>1. 0 \in U16 /\ 0 \in LeaseIds /\ 0 \in OpIds /\ 0 \in OpInputs
      /\ 0 \in 0 .. U32_MAX /\ 1 \in 1 .. MaxNeedsPerOp + 1
  BY SizesAssumption, PreemptAssumption
     DEF U16, LeaseIds, OpIds, OpInputs
<1>2. NORMAL \in Pressures
  BY DEF NORMAL, LOCKDOWN, Pressures
<1>3. FreeSlot \in Slot /\ ZeroLease \in Token /\ NoHold \in Hold
  BY <1>1, <1>2 DEF FreeSlot, Slot, ZeroLease, Token, NoHold, Hold, Nothing
<1>4. <<>> \in Seq(Counters) /\ "ALLOW_FULL" \in Actions /\ {} \in SUBSET Pressures
  BY DEF Actions
<1>5. TypeOK
  BY <1>1, <1>2, <1>3, <1>4, PreemptAssumption DEF Init, TypeOK, Labels
<1>6. ASSUME NEW t \in Contexts PROVE Control(t)
  BY DEF Init, Control
<1> QED
  BY <1>5, <1>6 DEF TypeInv

(* A return leaves the local variables of the context at rest.             *)
LEMMA ReturnType ==
    ASSUME TypeOK, NEW t \in Contexts, Return(t)
    PROVE  /\ pc' \in [Contexts -> Labels]
           /\ call' \in [Contexts -> {"none", "check", "enter", "leave",
                                     "pressure"}]
           /\ arg' \in [Contexts -> OpInputs \cup Pressures]
           /\ act' \in [Contexts -> Actions]
           /\ idx' \in [Contexts -> 1 .. MaxNeedsPerOp + 1]
           /\ reg' \in [Contexts -> 0 .. U32_MAX]
           /\ todo' \in [Contexts -> Seq(Counters)]
           /\ slot' \in [Contexts -> LeaseIds]
           /\ seen' \in [Contexts -> SUBSET Pressures]
<1>1. 0 \in LeaseIds /\ 0 \in OpInputs /\ 0 \in 0 .. U32_MAX
      /\ 1 \in 1 .. MaxNeedsPerOp + 1
  BY SizesAssumption, PreemptAssumption DEF LeaseIds, OpInputs
<1>2. <<>> \in Seq(Counters) /\ "ALLOW_FULL" \in Actions
  BY DEF Actions
<1> QED
  BY <1>1, <1>2 DEF Return, Goto, TypeOK, Labels

(* A context that starts a call, one step per public function.             *)
LEMMA TypeStart ==
    ASSUME TypeInv, NEW t \in Contexts, Calls(t)
    PROVE  TypeInv'
<1> USE DEF TypeInv
<1>1. ASSUME NEW f \in {"check", "enter"}, NEW op \in OpInputs,
             f = "enter" => ~hold[t].on, Start(t, f, op, "mapped")
      PROVE  TypeInv'
  <2>1. TypeOK'
    BY <1>1 DEF Start, Goto, TypeOK, Labels
  <2>2. ASSUME NEW u \in Contexts PROVE Control(u)'
    BY <1>1 DEF Start, MayStart, Goto, TypeOK, Control
  <2> QED
    BY <2>1, <2>2
<1>2. CASE CallCheck(t)
  BY <1>1, <1>2 DEF CallCheck
<1>3. CASE CallEnter(t)
  BY <1>1, <1>3 DEF CallEnter
<1>4. CASE CallLeave(t)
  <2>1. lease[t].op \in OpInputs
    BY SizesAssumption DEF TypeOK, Token, OpIds, OpInputs
  <2>2. TypeOK'
    BY <1>4, <2>1 DEF CallLeave, Start, Goto, TypeOK, Labels
  <2>3. ASSUME NEW u \in Contexts PROVE Control(u)'
    BY <1>4 DEF CallLeave, Start, MayStart, Goto, TypeOK, Control
  <2> QED
    BY <2>2, <2>3
<1>5. CASE CallSetPressure(t)
  <2>1. PICK p \in PressureCalls : Start(t, "pressure", p, "lock")
    BY <1>5 DEF CallSetPressure
  <2>2. p \in Pressures
    BY PreemptAssumption
  <2>3. TypeOK'
    BY <2>1, <2>2 DEF Start, Goto, TypeOK, Labels
  <2>4. ASSUME NEW u \in Contexts PROVE Control(u)'
    BY <2>1, <2>2 DEF Start, MayStart, Goto, TypeOK, Control
  <2> QED
    BY <2>3, <2>4
<1> QED
  BY <1>2, <1>3, <1>4, <1>5 DEF Calls

(* loxbudget_check, up to its return.                                      *)
LEMMA TypeCheck ==
    ASSUME TypeInv, NEW t \in Contexts,
           \/ Mapped(t) \/ Lockdown(t) \/ Hal(t) \/ TestNeed(t)
           \/ Load(t) \/ Store(t) \/ Decided(t)
    PROVE  TypeInv'
<1> USE DEF TypeInv
<1>0. /\ TypeOK /\ Control(t) /\ \A u \in Contexts : Control(u)
      /\ arg[t] \in OpIds => Profiles[arg[t]] \in Profile
      /\ pressure \in Pressures /\ "REJECT" \in Actions
      /\ "LOCKDOWN" \in Actions /\ act[t] \in Actions
      /\ 1 \in 1 .. MaxNeedsPerOp + 1
  BY PreemptAssumption, SizesAssumption DEF TypeOK, Actions
<1>1. ASSUME NEW a \in Actions, Conclude(t, a),
             Allowed(a) => arg[t] \in OpIds,
             call[t] \in {"check", "enter"},
             call[t] = "enter" => ~hold[t].on,
             UNCHANGED <<pressure, total, res, slots, lock, call, arg, reg,
                         slot, lease, hold, seen, serial>>
      PROVE  TypeInv'
  <2>1. TypeOK'
    BY <1>0, <1>1, IncrementsType DEF Conclude, Goto, TypeOK, Labels
  <2>2. ASSUME NEW u \in Contexts PROVE Control(u)'
    BY <1>0, <1>1, IncrementsType DEF Conclude, Goto, TypeOK, Control
  <2> QED
    BY <2>1, <2>2
<1>2. CASE Mapped(t)
  <2>1. CASE Known(t)
    <3>1. MappedAction(Profiles[arg[t]], pressure) \in Actions
      BY <1>0, <2>1 DEF Known, MappedAction, Profile
    <3>2. act' \in [Contexts -> Actions]
      BY <1>0, <1>2, <2>1, <3>1 DEF Mapped, TypeOK
    <3>3. pc' = [pc EXCEPT ![t] = "lockdown"]
      BY <1>2, <2>1 DEF Mapped, Goto
    <3>4. TypeOK'
      BY <1>0, <1>2, <2>1, <3>2, <3>3 DEF Mapped, TypeOK, Labels
    <3>5. ASSUME NEW u \in Contexts PROVE Control(u)'
      BY <1>0, <1>2, <2>1 DEF Mapped, Known, Goto, TypeOK, Control
    <3> QED
      BY <3>4, <3>5
  <2>2. CASE ~Known(t)
    BY <1>0, <1>1, <1>2, <2>2 DEF Mapped, Control, Allowed
  <2> QED
    BY <2>1, <2>2
<1>3. CASE Lockdown(t)
  <2>1. CASE LockedOut(Profiles[arg[t]], pressure)
    BY <1>0, <1>1, <1>3, <2>1 DEF Lockdown, Control, Allowed
  <2>2. CASE ~LockedOut(Profiles[arg[t]], pressure) /\ ~Allowed(act[t])
    BY <1>0, <1>1, <1>3, <2>2 DEF Lockdown, Control
  <2>3. CASE ~LockedOut(Profiles[arg[t]], pressure) /\ Allowed(act[t])
    <3>1. TypeOK'
      BY <1>0, <1>3, <2>3 DEF Lockdown, Goto, TypeOK, Labels
    <3>2. ASSUME NEW u \in Contexts PROVE Control(u)'
      BY <1>0, <1>3, <2>3 DEF Lockdown, Goto, TypeOK, Control
    <3> QED
      BY <3>1, <3>2
  <2> QED
    BY <2>1, <2>2, <2>3
<1>4. CASE Hal(t)
  <2>1. CASE Goto(t, "need") /\ UNCHANGED <<act, todo, idx>>
    <3>1. TypeOK'
      BY <1>0, <1>4, <2>1 DEF Hal, Goto, TypeOK, Labels
    <3>2. ASSUME NEW u \in Contexts PROVE Control(u)'
      BY <1>0, <1>4, <2>1 DEF Hal, Goto, TypeOK, Control
    <3> QED
      BY <3>1, <3>2
  <2>2. CASE Conclude(t, "REJECT")
    BY <1>0, <1>1, <1>4, <2>2 DEF Hal, Control, Allowed
  <2> QED
    BY <1>4, <2>1, <2>2 DEF Hal
<1>5. CASE TestNeed(t)
  <2>1. CASE idx[t] > MaxNeedsPerOp
    BY <1>0, <1>1, <1>5, <2>1 DEF TestNeed, Control
  <2>2. CASE ~(idx[t] > MaxNeedsPerOp) /\ NeedFails(Entry(t), res)
    BY <1>0, <1>1, <1>5, <2>2, VerdictRefuses DEF TestNeed, Control
  <2>3. CASE ~(idx[t] > MaxNeedsPerOp) /\ ~NeedFails(Entry(t), res)
    <3>1. idx[t] + 1 \in 1 .. MaxNeedsPerOp + 1
      BY <1>0, <2>3, SizesAssumption DEF TypeOK
    <3>2. TypeOK'
      BY <1>0, <1>5, <2>3, <3>1 DEF TestNeed, TypeOK
    <3>3. ASSUME NEW u \in Contexts PROVE Control(u)'
      BY <1>0, <1>5, <2>3 DEF TestNeed, TypeOK, Control
    <3> QED
      BY <3>2, <3>3
  <2> QED
    BY <2>1, <2>2, <2>3
<1>6. CASE Load(t)
  <2>1. Head(todo[t]) \in Counters
    BY <1>0, <1>6, TodoTail DEF Load, Control, TypeOK
  <2>2. TypeOK'
    BY <1>0, <1>6, <2>1 DEF Load, Goto, TypeOK, Labels
  <2>3. ASSUME NEW u \in Contexts PROVE Control(u)'
    BY <1>0, <1>6 DEF Load, Goto, TypeOK, Control
  <2> QED
    BY <2>2, <2>3
<1>7. CASE Store(t)
  <2>1. /\ Head(todo[t]) \in Counters /\ Tail(todo[t]) \in Seq(Counters)
        /\ Len(todo[t]) # 1 => Tail(todo[t]) # <<>>
    BY <1>0, <1>7, TodoTail DEF Store, Control, TypeOK
  <2>2. (reg[t] + 1) % (U32_MAX + 1) \in 0 .. U32_MAX
    BY <1>0, ModRange, PreemptAssumption DEF TypeOK
  <2>3. TypeOK'
    BY <1>0, <1>7, <2>1, <2>2 DEF Store, Goto, TypeOK, Labels
  <2>4. ASSUME NEW u \in Contexts PROVE Control(u)'
    BY <1>0, <1>7, <2>1 DEF Store, Goto, TypeOK, Control
  <2> QED
    BY <2>3, <2>4
<1>8. CASE Decided(t)
  <2>1. CASE call[t] = "enter" /\ Allowed(act[t])
    <3>1. TypeOK'
      BY <1>0, <1>8, <2>1 DEF Decided, Goto, TypeOK, Labels
    <3>2. ASSUME NEW u \in Contexts PROVE Control(u)'
      BY <1>0, <1>8, <2>1 DEF Decided, Goto, TypeOK, Control
    <3> QED
      BY <3>1, <3>2
  <2>2. CASE ~(call[t] = "enter" /\ Allowed(act[t]))
    <3>1. ZeroLease \in Token
      BY SizesAssumption DEF ZeroLease, Token, LeaseIds, OpIds
    <3>2. lease' \in [Contexts -> Token]
      BY <1>0, <1>8, <2>2, <3>1 DEF Decided, TypeOK
    <3>3. Return(t)
      BY <1>8, <2>2 DEF Decided
    <3>4. TypeOK'
      BY <1>0, <1>8, <3>2, <3>3, ReturnType DEF Decided, TypeOK
    <3>5. ASSUME NEW u \in Contexts PROVE Control(u)'
      <4>1. u # t => lease'[u] = lease[u]
        BY <1>0, <1>8, <2>2 DEF Decided, TypeOK
      <4> QED
        BY <1>0, <1>8, <3>3, <4>1 DEF Decided, Return, Goto, TypeOK, Control
    <3> QED
      BY <3>4, <3>5
  <2> QED
    BY <2>1, <2>2
<1> QED
  BY <1>2, <1>3, <1>4, <1>5, <1>6, <1>7, <1>8

(* loxbudget_enter after check, and what is inside the critical section.   *)
LEMMA TypeSection ==
    ASSUME TypeInv, NEW t \in Contexts,
           \/ PhaseA(t) \/ Acquire(t) \/ FindSlot(t) \/ Commit(t)
           \/ Publish(t) \/ Match(t) \/ ReleaseEntry(t) \/ ClearSlot(t)
           \/ StorePressure(t) \/ Unlock(t)
    PROVE  TypeInv'
<1> USE DEF TypeInv
<1>0. /\ TypeOK /\ Control(t) /\ \A u \in Contexts : Control(u)
      /\ 1 \in 1 .. MaxNeedsPerOp + 1
      /\ ~(idx[t] > MaxNeedsPerOp) =>
            /\ idx[t] \in 1 .. MaxNeedsPerOp
            /\ idx[t] + 1 \in 1 .. MaxNeedsPerOp + 1
      /\ \A u \in Contexts : lease[u] \in Token /\ lease[u].op \in OpIds
  BY SizesAssumption DEF TypeOK, Token
<1>1. ASSUME Return(t),
             UNCHANGED <<pressure, total, res, slots, lease, hold, serial>>,
             lock' \in Contexts \cup {NoContext}
      PROVE  TypeInv'
  <2>1. TypeOK'
    BY <1>0, <1>1, ReturnType DEF TypeOK
  <2>2. ASSUME NEW u \in Contexts PROVE Control(u)'
    BY <1>0, <1>1 DEF Return, Goto, TypeOK, Control
  <2> QED
    BY <2>1, <2>2
<1>2. CASE PhaseA(t)
  <2>1. CASE idx[t] > MaxNeedsPerOp
    <3>1. TypeOK'
      BY <1>0, <1>2, <2>1 DEF PhaseA, Goto, TypeOK, Labels
    <3>2. ASSUME NEW u \in Contexts PROVE Control(u)'
      BY <1>0, <1>2, <2>1 DEF PhaseA, Goto, TypeOK, Control
    <3> QED
      BY <3>1, <3>2
  <2>2. CASE ~(idx[t] > MaxNeedsPerOp) /\ PhaseAFails(Entry(t), res)
    BY <1>0, <1>1, <1>2, <2>2 DEF PhaseA, TypeOK
  <2>3. CASE ~(idx[t] > MaxNeedsPerOp) /\ ~PhaseAFails(Entry(t), res)
    <3>1. TypeOK'
      BY <1>0, <1>2, <2>3 DEF PhaseA, TypeOK
    <3>2. ASSUME NEW u \in Contexts PROVE Control(u)'
      BY <1>0, <1>2, <2>3 DEF PhaseA, TypeOK, Control
    <3> QED
      BY <3>1, <3>2
  <2> QED
    BY <2>1, <2>2, <2>3
<1>3. CASE Acquire(t)
  <2>1. TypeOK'
    BY <1>0, <1>3 DEF Acquire, Goto, local, TypeOK, Labels
  <2>2. ASSUME NEW u \in Contexts PROVE Control(u)'
    BY <1>0, <1>3 DEF Acquire, Goto, local, TypeOK, Control
  <2> QED
    BY <2>1, <2>2
<1>4. CASE FindSlot(t)
  <2>1. slot' \in [Contexts -> LeaseIds]
    BY <1>0, <1>4, FirstFree DEF FindSlot, TypeOK
  <2>2. \/ Goto(t, "unlock") \/ Goto(t, "commit")
    BY <1>4 DEF FindSlot
  <2>3. TypeOK'
    BY <1>0, <1>4, <2>1, <2>2 DEF FindSlot, Goto, TypeOK, Labels
  <2>4. ASSUME NEW u \in Contexts PROVE Control(u)'
    BY <1>0, <1>4, <2>2 DEF FindSlot, Goto, TypeOK, Control
  <2> QED
    BY <2>3, <2>4
<1>5. ASSUME ~(idx[t] > MaxNeedsPerOp), pc[t] \in {"commit", "release"}
      PROVE  /\ Entry(t).resource \in ResourceIds
             /\ Entry(t).amount \in U16
             /\ res[Entry(t).resource] \in Resource
  <2>1. arg[t] \in OpIds
    BY <1>0, <1>5 DEF Control
  <2> QED
    BY <1>0, <1>5, <2>1, EntryType DEF TypeOK
<1>6. CASE Commit(t)
  <2>1. CASE idx[t] > MaxNeedsPerOp
    <3>1. TypeOK'
      BY <1>0, <1>6, <2>1 DEF Commit, Goto, TypeOK, Labels
    <3>2. ASSUME NEW u \in Contexts PROVE Control(u)'
      BY <1>0, <1>6, <2>1 DEF Commit, Goto, TypeOK, Control
    <3> QED
      BY <3>1, <3>2
  <2>2. CASE ~(idx[t] > MaxNeedsPerOp)
    <3> DEFINE n == Entry(t)
    <3>1. n.resource \in ResourceIds /\ n.amount \in U16
          /\ CommitNeed(res[n.resource], n.amount) \in Resource
      BY <1>5, <1>6, <2>2, CommitType DEF Commit
    <3>2. res' \in [ResourceIds -> Resource]
      <4>1. res' = IF n.amount = 0 THEN res
                   ELSE [res EXCEPT ![n.resource] =
                           CommitNeed(@, n.amount)]
        BY <1>6, <2>2 DEF Commit
      <4> HIDE DEF n
      <4> QED
        BY <1>0, <3>1, <4>1 DEF TypeOK
    <3>3. TypeOK'
      BY <1>0, <1>6, <2>2, <3>2 DEF Commit, TypeOK
    <3>4. ASSUME NEW u \in Contexts PROVE Control(u)'
      BY <1>0, <1>6, <2>2 DEF Commit, TypeOK, Control
    <3> QED
      BY <3>3, <3>4
  <2> QED
    BY <2>1, <2>2
<1>7. CASE Publish(t)
  <2>1. /\ [active |-> TRUE, acquired_pressure |-> pressure] \in Slot
        /\ [id |-> slot[t], op |-> arg[t], magic |-> TRUE] \in Token
    BY <1>0, <1>7 DEF Publish, Control, TypeOK, Slot, Token
  <2>2. [on |-> TRUE, amount |-> [r \in ResourceIds |-> Reserves(arg[t], r)]]
          \in Hold
    BY <1>0, <1>7, ReservesType DEF Publish, Control, Hold
  <2>3. TypeOK'
    BY <1>0, <1>7, <2>1, <2>2 DEF Publish, Goto, TypeOK, Labels
  <2>4. ASSUME NEW u \in Contexts PROVE Control(u)'
    BY <1>0, <1>7 DEF Publish, Goto, TypeOK, Control
  <2> QED
    BY <2>3, <2>4
<1>8. CASE Match(t)
  <2>1. \/ Goto(t, "release") \/ Goto(t, "unlock")
    BY <1>8 DEF Match
  <2>2. TypeOK'
    BY <1>0, <1>8, <2>1 DEF Match, Goto, local, TypeOK, Labels
  <2>3. ASSUME NEW u \in Contexts PROVE Control(u)'
    BY <1>0, <1>8, <2>1 DEF Match, Goto, local, TypeOK, Control
  <2> QED
    BY <2>2, <2>3
<1>9. CASE ReleaseEntry(t)
  <2>1. CASE idx[t] > MaxNeedsPerOp
    <3>1. TypeOK'
      BY <1>0, <1>9, <2>1 DEF ReleaseEntry, Goto, TypeOK, Labels
    <3>2. ASSUME NEW u \in Contexts PROVE Control(u)'
      BY <1>0, <1>9, <2>1 DEF ReleaseEntry, Goto, TypeOK, Control
    <3> QED
      BY <3>1, <3>2
  <2>2. CASE ~(idx[t] > MaxNeedsPerOp)
    <3> DEFINE n == Entry(t)
    <3>1. n.resource \in ResourceIds /\ n.amount \in U16
          /\ ReleaseNeed(res[n.resource], n.amount) \in Resource
      BY <1>5, <1>9, <2>2, ReleaseType DEF ReleaseEntry
    <3>2. res' \in [ResourceIds -> Resource]
      <4>1. res' = IF n.amount = 0 THEN res
                   ELSE [res EXCEPT ![n.resource] =
                           ReleaseNeed(@, n.amount)]
        BY <1>9, <2>2 DEF ReleaseEntry
      <4> HIDE DEF n
      <4> QED
        BY <1>0, <3>1, <4>1 DEF TypeOK
    <3>3. TypeOK'
      BY <1>0, <1>9, <2>2, <3>2 DEF ReleaseEntry, TypeOK
    <3>4. ASSUME NEW u \in Contexts PROVE Control(u)'
      <4>1. CASE u = t
        BY <1>0, <1>9, <2>2, <4>1 DEF ReleaseEntry, TypeOK, Control
      <4>2. CASE u # t
        BY <1>0, <1>9, <2>2, <4>2 DEF ReleaseEntry, TypeOK, Control
      <4> QED
        BY <4>1, <4>2
    <3> QED
      BY <3>3, <3>4
  <2> QED
    BY <2>1, <2>2
<1>10. CASE ClearSlot(t)
  <2>1. slots' \in [LeaseIds -> Slot]
    <3>1. slots \in [LeaseIds -> Slot]
      BY <1>0 DEF TypeOK
    <3>2. slots' = [slots EXCEPT ![lease[t].id].active = FALSE]
      BY <1>10 DEF ClearSlot
    <3>3. \A s \in Slot : [s EXCEPT !.active = FALSE] \in Slot
      BY DEF Slot
    <3> QED
      BY ONLY <3>1, <3>2, <3>3
  <2>2. NoHold \in Hold
    BY SizesAssumption DEF NoHold, Hold, Nothing, U16
  <2>3. TypeOK'
    BY <1>0, <1>10, <2>1, <2>2 DEF ClearSlot, Goto, TypeOK, Labels
  <2>4. ASSUME NEW u \in Contexts PROVE Control(u)'
    BY <1>0, <1>10 DEF ClearSlot, Goto, TypeOK, Control
  <2> QED
    BY <2>3, <2>4
<1>11. CASE StorePressure(t)
  <2>1. arg[t] \in Pressures
    BY <1>0, <1>11 DEF StorePressure, Control
  <2>2. TypeOK'
    BY <1>0, <1>11, <2>1 DEF StorePressure, Goto, TypeOK, Labels
  <2>3. ASSUME NEW u \in Contexts PROVE Control(u)'
    BY <1>0, <1>11 DEF StorePressure, Goto, TypeOK, Control
  <2> QED
    BY <2>2, <2>3
<1>12. CASE Unlock(t)
  BY <1>1, <1>12 DEF Unlock
<1> QED
  BY <1>2, <1>3, <1>4, <1>6, <1>7, <1>8, <1>9, <1>10, <1>11, <1>12

LEMMA TypeStep ==
    ASSUME TypeInv, [Next]_vars
    PROVE  TypeInv'
<1>1. CASE UNCHANGED vars
  BY <1>1 DEF TypeInv, TypeOK, Control, vars, local
<1>2. CASE Next
  BY <1>2, TypeStart, TypeCheck, TypeSection DEF Next, Step
<1> QED
  BY <1>1, <1>2

(* Whatever the interleaving, every variable keeps its type.               *)
THEOREM TypeCorrect == Spec => []TypeOK
<1>1. Init => TypeInv
  BY TypeInit
<1>2. TypeInv /\ [Next]_vars => TypeInv'
  BY TypeStep
<1>3. TypeInv => TypeOK
  BY DEF TypeInv
<1> QED
  BY <1>1, <1>2, <1>3, PTL DEF Spec

-----------------------------------------------------------------------------
(* The critical section and the slots.  A context is inside exactly when   *)
(* it has the lock; a slot found free stays free until its lease is        *)
(* published, because nobody else is inside meanwhile.                     *)

Exclusive == \A t \in Contexts : pc[t] \in InSection <=> lock = t

SlotsInv ==
    /\ \A t \in Contexts : hold[t].on => slots[lease[t].id].active
    /\ \A t, u \in Contexts :
          (hold[t].on /\ hold[u].on /\ lease[t].id = lease[u].id) => t = u
    /\ \A i \in LeaseIds :
          slots[i].active => \E t \in Contexts : hold[t].on /\ lease[t].id = i
    /\ \A t \in Contexts :
          pc[t] \in {"commit", "publish"} => ~slots[slot[t]].active

OwnInv == TypeInv /\ Exclusive /\ SlotsInv

(* A step of t that neither enters nor leaves the section nor touches a    *)
(* slot or an outstanding lease.                                           *)
LEMMA OwnQuiet ==
    ASSUME OwnInv, NEW t \in Contexts, NEW l, pc' = [pc EXCEPT ![t] = l],
           pc[t] \in InSection <=> l \in InSection,
           l \in {"commit", "publish"} => pc[t] \in {"commit", "publish"},
           UNCHANGED <<lock, slots, hold>>,
           \A u \in Contexts : hold[u].on => lease'[u] = lease[u],
           \A u \in Contexts : pc'[u] \in {"commit", "publish"} =>
                                  slot'[u] = slot[u]
    PROVE  Exclusive' /\ SlotsInv'
<1>1. pc \in [Contexts -> Labels]
  BY DEF OwnInv, TypeInv, TypeOK
<1>2. Exclusive'
  BY <1>1 DEF OwnInv, Exclusive
<1>3. \A u \in Contexts : pc'[u] \in {"commit", "publish"} =>
                             pc[u] \in {"commit", "publish"}
  BY <1>1
<1>4. SlotsInv'
  BY <1>3 DEF OwnInv, SlotsInv
<1> QED
  BY <1>2, <1>4

LEMMA OwnInit == Init => OwnInv
<1> SUFFICES ASSUME Init PROVE OwnInv
  OBVIOUS
<1>1. Exclusive
  BY PreemptAssumption DEF Init, Exclusive, InSection
<1>2. SlotsInv
  BY DEF Init, SlotsInv, NoHold, FreeSlot
<1> QED
  BY <1>1, <1>2, TypeInit DEF OwnInv

LEMMA OwnStep ==
    ASSUME NoReplay, OwnInv, [Next]_vars
    PROVE  OwnInv'
<1>0. TypeOK /\ TypeInv' /\ \A u \in Contexts : Control(u)
  BY TypeStep DEF OwnInv, TypeInv
<1>1. CASE UNCHANGED vars
  BY <1>0, <1>1 DEF OwnInv, Exclusive, SlotsInv, vars, local
<1>2. ASSUME NEW t \in Contexts, Calls(t)
      PROVE  OwnInv'
  <2>1. PICK f, a, l : Start(t, f, a, l) /\ l \in {"mapped", "lock"}
    BY <1>2 DEF Calls, CallCheck, CallEnter, CallLeave, CallSetPressure
  <2>2. Exclusive' /\ SlotsInv'
    BY <1>2, <2>1, OwnQuiet DEF Start, MayStart, Goto, InSection
  <2> QED
    BY <1>0, <2>2 DEF OwnInv
<1>3. ASSUME NEW t \in Contexts,
             \/ Mapped(t) \/ Lockdown(t) \/ Hal(t) \/ TestNeed(t)
             \/ Load(t) \/ Store(t)
      PROVE  OwnInv'
  <2>1. PICK l \in {"lockdown", "hal", "need", "load", "store", "decided"} :
                pc' = [pc EXCEPT ![t] = l]
    <3>1. CASE TestNeed(t) /\ UNCHANGED pc
      <4>1. pc' = [pc EXCEPT ![t] = "need"]
        BY <1>0, <3>1 DEF TestNeed, TypeOK
      <4> QED
        BY <4>1
    <3> QED
      BY <1>3, <3>1 DEF Mapped, Lockdown, Hal, TestNeed, Load, Store,
                        Conclude, Goto
  <2>2. /\ pc[t] \notin InSection
        /\ UNCHANGED <<lock, slots, hold, lease, slot>>
    BY <1>3 DEF Mapped, Lockdown, Hal, TestNeed, Load, Store, InSection
  <2>3. l \notin InSection /\ l \notin {"commit", "publish"}
    BY DEF InSection
  <2>4. Exclusive' /\ SlotsInv'
    BY <2>1, <2>2, <2>3, OwnQuiet
  <2> QED
    BY <1>0, <2>4 DEF OwnInv
<1>4. ASSUME NEW t \in Contexts, Decided(t)
      PROVE  OwnInv'
  <2>1. call[t] = "enter" => ~hold[t].on
    BY <1>0, <1>4 DEF Decided, Control
  <2>2. \A u \in Contexts : hold[u].on => lease'[u] = lease[u]
    BY <1>0, <1>4, <2>1 DEF Decided, TypeOK
  <2>3. PICK l \in {"idle", "phaseA"} : pc' = [pc EXCEPT ![t] = l]
    BY <1>4 DEF Decided, Return, Goto
  <2>4. \A u \in Contexts : u # t => slot'[u] = slot[u]
    BY <1>0, <1>4 DEF Decided, Return, TypeOK
  <2>5. pc'[t] = l
    BY <1>0, <2>3 DEF TypeOK
  <2>6. pc[t] \notin InSection /\ UNCHANGED <<lock, slots, hold>>
    BY <1>4 DEF Decided, InSection
  <2>7. Exclusive' /\ SlotsInv'
    BY <2>2, <2>3, <2>4, <2>5, <2>6, OwnQuiet DEF InSection
  <2> QED
    BY <1>0, <2>7 DEF OwnInv
<1>5. ASSUME NEW t \in Contexts, PhaseA(t)
      PROVE  OwnInv'
  <2>1. PICK l \in {"idle", "phaseA", "lock"} : pc' = [pc EXCEPT ![t] = l]
    <3>1. CASE UNCHANGED pc
      <4>1. pc' = [pc EXCEPT ![t] = "phaseA"]
        BY <1>0, <1>5, <3>1 DEF PhaseA, TypeOK
      <4> QED
        BY <4>1
    <3> QED
      BY <1>5, <3>1 DEF PhaseA, Return, Goto
  <2>2. \A u \in Contexts : u # t => slot'[u] = slot[u]
    BY <1>0, <1>5 DEF PhaseA, Return, TypeOK
  <2>3. pc'[t] = l
    BY <1>0, <2>1 DEF TypeOK
  <2>4. pc[t] \notin InSection /\ UNCHANGED <<lock, slots, hold, lease>>
    BY <1>5 DEF PhaseA, InSection
  <2>5. Exclusive' /\ SlotsInv'
    BY <2>1, <2>2, <2>3, <2>4, OwnQuiet DEF InSection
  <2> QED
    BY <1>0, <2>5 DEF OwnInv
<1>6. ASSUME NEW t \in Contexts, Acquire(t)
      PROVE  OwnInv'
  <2>1. PICK l \in {"slot", "match", "setp"} : pc' = [pc EXCEPT ![t] = l]
    BY <1>6 DEF Acquire, Goto
  <2>2. /\ pc[t] = "lock" /\ lock = NoContext /\ lock' = t
        /\ UNCHANGED <<slots, slot, lease, hold>>
    BY <1>6 DEF Acquire, local
  <2>3. \A u \in Contexts : lock # u
    BY <2>2, PreemptAssumption
  <2>4. Exclusive'
    BY <1>0, <2>1, <2>2, <2>3 DEF OwnInv, Exclusive, InSection, TypeOK
  <2>5. SlotsInv'
    BY <1>0, <2>1, <2>2 DEF OwnInv, SlotsInv, TypeOK
  <2> QED
    BY <1>0, <2>4, <2>5 DEF OwnInv
<1>7. ASSUME NEW t \in Contexts, FindSlot(t)
      PROVE  OwnInv'
  <2>1. Exclusive'
    BY <1>0, <1>7 DEF OwnInv, Exclusive, FindSlot, Goto, InSection, TypeOK
  <2>2. \A u \in Contexts \ {t} : pc'[u] = pc[u] /\ slot'[u] = slot[u]
    BY <1>0, <1>7 DEF FindSlot, Goto, TypeOK
  <2>3. pc'[t] \in {"commit", "publish"} => ~slots[slot'[t]].active
    BY <1>0, <1>7, FirstFree DEF FindSlot, Goto, TypeOK
  <2>4. UNCHANGED <<slots, hold, lease>>
    BY <1>7 DEF FindSlot
  <2>5. SlotsInv'
    BY <2>2, <2>3, <2>4 DEF OwnInv, SlotsInv
  <2> QED
    BY <1>0, <2>1, <2>5 DEF OwnInv
<1>8. ASSUME NEW t \in Contexts,
             \/ Commit(t) \/ Match(t) \/ ReleaseEntry(t) \/ StorePressure(t)
      PROVE  OwnInv'
  <2>1. PICK l \in InSection : /\ pc' = [pc EXCEPT ![t] = l]
                               /\ l \in {"commit", "publish"} =>
                                     pc[t] \in {"commit", "publish"}
    <3>1. CASE UNCHANGED pc
      <4>1. pc' = [pc EXCEPT ![t] = pc[t]] /\ pc[t] \in InSection
        BY <1>0, <1>8, <3>1 DEF Commit, Match, ReleaseEntry, StorePressure,
                                TypeOK, InSection
      <4> QED
        BY <4>1
    <3> QED
      BY <1>8, <3>1 DEF Commit, Match, ReleaseEntry, StorePressure, Goto,
                        InSection
  <2>2. pc[t] \in InSection /\ UNCHANGED <<lock, slots, hold, lease, slot>>
    BY <1>8 DEF Commit, Match, ReleaseEntry, StorePressure, InSection, local
  <2>3. Exclusive' /\ SlotsInv'
    BY <2>1, <2>2, OwnQuiet
  <2> QED
    BY <1>0, <2>3 DEF OwnInv
<1>9. ASSUME NEW t \in Contexts, Publish(t)
      PROVE  OwnInv'
  <2>1. Exclusive'
    BY <1>0, <1>9 DEF OwnInv, Exclusive, Publish, Goto, InSection, TypeOK
  <2>2. /\ slot[t] \in LeaseIds /\ ~slots[slot[t]].active
        /\ \A u \in Contexts : hold[u].on => lease[u].id # slot[t]
    BY <1>0, <1>9 DEF OwnInv, SlotsInv, Publish, TypeOK
  <2>3. /\ \A i \in LeaseIds : slots'[i].active <=>
                                  (i = slot[t] \/ slots[i].active)
        /\ \A u \in Contexts :
              /\ hold'[u].on <=> (u = t \/ hold[u].on)
              /\ lease'[u].id = IF u = t THEN slot[t] ELSE lease[u].id
        /\ UNCHANGED slot
    BY <1>0, <1>9 DEF Publish, TypeOK
  <2>4. \A u \in Contexts : u # t => pc'[u] \notin {"commit", "publish"}
    BY <1>0, <1>9, <2>1 DEF OwnInv, Exclusive, Publish, Goto, InSection, TypeOK
  <2>5. pc'[t] = "unlock"
    BY <1>0, <1>9 DEF Publish, Goto, TypeOK
  <2>6. \A u \in Contexts : lease[u].id \in LeaseIds /\ ~hold[t].on
    BY <1>0, <1>9 DEF TypeOK, Token, Control, Publish
  <2>7. SlotsInv'
    BY <2>2, <2>3, <2>4, <2>5, <2>6 DEF OwnInv, SlotsInv
  <2> QED
    BY <1>0, <2>1, <2>7 DEF OwnInv
<1>10. ASSUME NEW t \in Contexts, ClearSlot(t)
       PROVE  OwnInv'
  <2>1. Exclusive'
    BY <1>0, <1>10 DEF OwnInv, Exclusive, ClearSlot, Goto, InSection, TypeOK
  <2>2. \A u \in Contexts : lease[u].id \in LeaseIds
    BY <1>0 DEF TypeOK, Token
  <2>3. /\ \A i \in LeaseIds : slots'[i].active <=>
                                  (i # lease[t].id /\ slots[i].active)
        /\ \A u \in Contexts : hold'[u].on <=> (u # t /\ hold[u].on)
        /\ UNCHANGED <<slot, lease>>
    BY <1>0, <1>10, <2>2 DEF ClearSlot, TypeOK, Slot, NoHold
  <2>4. \A u \in Contexts : pc'[u] \notin {"commit", "publish"}
    BY <1>0, <1>10, <2>1 DEF OwnInv, Exclusive, ClearSlot, Goto, InSection,
                             TypeOK
  <2>5. hold[t].on
    BY <1>0, <1>10 DEF Control, ClearSlot, NoReplay
  <2>6. SlotsInv'
    BY <2>2, <2>3, <2>4, <2>5 DEF OwnInv, SlotsInv
  <2> QED
    BY <1>0, <2>1, <2>6 DEF OwnInv
<1>11. ASSUME NEW t \in Contexts, Unlock(t)
       PROVE  OwnInv'
  <2>1. /\ pc' = [pc EXCEPT ![t] = "idle"] /\ lock' = NoContext
        /\ pc[t] = "unlock" /\ UNCHANGED <<slots, lease, hold>>
        /\ slot' = [slot EXCEPT ![t] = 0]
    BY <1>11 DEF Unlock, Return, Goto
  <2>2. \A u \in Contexts : NoContext # u
    BY PreemptAssumption
  <2>3. lock = t
    BY <2>1 DEF OwnInv, Exclusive, InSection
  <2>4. Exclusive'
    BY <1>0, <2>1, <2>2, <2>3 DEF OwnInv, Exclusive, InSection, TypeOK
  <2>5. SlotsInv'
    BY <1>0, <2>1 DEF OwnInv, SlotsInv, TypeOK
  <2> QED
    BY <1>0, <2>4, <2>5 DEF OwnInv
<1> QED
  BY <1>1, <1>2, <1>3, <1>4, <1>5, <1>6, <1>7, <1>8, <1>9, <1>10, <1>11
     DEF Next, Step

(* Outstanding leases never share a slot and their slots stay in use; with *)
(* the section free no slot is in use without a lease: whatever the        *)
(* contexts' calls of loxbudget_enter and loxbudget_leave interleave, if   *)
(* no context leaves a lease again.                                        *)
THEOREM LeasesAlwaysOwnSlots ==
    ASSUME NoReplay PROVE Spec => []LeasesOwnSlots
<1>1. Init => OwnInv
  BY OwnInit
<1>2. OwnInv /\ [Next]_vars => OwnInv'
  BY OwnStep
<1>3. OwnInv => LeasesOwnSlots
  BY DEF OwnInv, SlotsInv, LeasesOwnSlots
<1> QED
  BY <1>1, <1>2, <1>3, PTL DEF Spec

-----------------------------------------------------------------------------
(* What was admitted.  The pressure in force is one of those seen during   *)
(* the call; the mapped action was read at one of them, and LOCKDOWN was   *)
(* tested at one.                                                          *)

(* The profile's LOCKDOWN column allows nothing that LOCKDOWN refuses.     *)
Proper(p) == \/ ~LockedOut(p, LOCKDOWN)
             \/ ~Allowed(MappedAction(p, LOCKDOWN))

ReadAt(t) == \E p \in seen[t] : act[t] = MappedAction(Profiles[arg[t]], p)
AdmittedAt(t) == \E p \in seen[t] : ~PressureBlocks(Profiles[arg[t]], p)

SeenInv ==
    \A t \in Contexts :
       /\ pc[t] # "idle" => pressure \in seen[t]
       /\ pc[t] = "lockdown" => ReadAt(t)
       /\ /\ pc[t] \in {"hal", "need", "load", "store", "decided", "phaseA",
                        "lock", "slot", "commit", "publish"}
          /\ call[t] \in {"check", "enter"}
          /\ Allowed(act[t])
          /\ Proper(Profiles[arg[t]])
          => AdmittedAt(t)

(* A proper profile whose action was read at one pressure and allows, and  *)
(* that is not locked out at another, is not blocked at the first.         *)
LEMMA ReadAdmits ==
    ASSUME NEW p, Proper(p), NEW q \in Pressures, Allowed(MappedAction(p, q))
    PROVE  ~PressureBlocks(p, q)
  BY DEF Proper, PressureBlocks, LockedOut

LEMMA SeenStep ==
    ASSUME TypeInv, SeenInv, [Next]_vars
    PROVE  SeenInv'
<1>0. TypeOK /\ \A u \in Contexts : Control(u)
  BY DEF TypeInv
<1>1. CASE UNCHANGED vars
  BY <1>1 DEF SeenInv, ReadAt, AdmittedAt, vars, local
<1>2. ASSUME NEW t \in Contexts, UNCHANGED <<pressure, call, arg, act, seen>>,
             NEW l, pc' = [pc EXCEPT ![t] = l], pc[t] # "idle",
             l # "lockdown",
             \/ l \in {"match", "release", "clear", "setp", "unlock"}
             \/ /\ pc[t] \in {"hal", "need", "load", "store", "decided",
                              "phaseA", "lock", "slot", "commit", "publish"}
      PROVE  SeenInv'
  BY <1>0, <1>2 DEF SeenInv, ReadAt, AdmittedAt, TypeOK
<1>3. ASSUME NEW t \in Contexts, Return(t), pressure' = pressure
      PROVE  SeenInv'
  BY <1>0, <1>3 DEF Return, Goto, SeenInv, ReadAt, AdmittedAt, TypeOK
<1>4. ASSUME NEW t \in Contexts, NEW a, Conclude(t, a),
             ~Allowed(a) \/ (pc[t] \in {"need"} /\ a = act[t]),
             UNCHANGED <<pressure, call, arg, seen>>, pc[t] # "idle"
      PROVE  SeenInv'
  BY <1>0, <1>4 DEF Conclude, Goto, SeenInv, ReadAt, AdmittedAt, TypeOK
<1>5. ASSUME NEW t \in Contexts, Calls(t)
      PROVE  SeenInv'
  <2>1. PICK f, a, l : /\ Start(t, f, a, l)
                       /\ \/ l = "mapped"
                          \/ l = "lock" /\ f \notin {"check", "enter"}
    BY <1>5 DEF Calls, CallCheck, CallEnter, CallLeave, CallSetPressure
  <2> QED
    BY <1>0, <2>1 DEF Start, MayStart, Goto, SeenInv, ReadAt, AdmittedAt,
                      TypeOK
<1>6. ASSUME NEW t \in Contexts, Mapped(t)
      PROVE  SeenInv'
  <2>1. CASE Known(t)
    <3>1. /\ pc' = [pc EXCEPT ![t] = "lockdown"]
          /\ act' = [act EXCEPT ![t] = MappedAction(Profiles[arg[t]],
                                                    pressure)]
          /\ UNCHANGED <<pressure, call, arg, seen>>
          /\ pc[t] = "mapped"
      BY <1>6, <2>1 DEF Mapped, Goto
    <3>2. pressure \in seen[t]
      BY <3>1 DEF SeenInv
    <3> QED
      BY <1>0, <3>1, <3>2 DEF SeenInv, ReadAt, AdmittedAt, TypeOK
  <2>2. CASE ~Known(t)
    BY <1>4, <1>6, <2>2 DEF Mapped, Allowed
  <2> QED
    BY <2>1, <2>2
<1>7. ASSUME NEW t \in Contexts, Lockdown(t)
      PROVE  SeenInv'
  <2>1. CASE LockedOut(Profiles[arg[t]], pressure)
    BY <1>4, <1>7, <2>1 DEF Lockdown, Allowed
  <2>2. CASE ~LockedOut(Profiles[arg[t]], pressure) /\ ~Allowed(act[t])
    BY <1>4, <1>7, <2>2 DEF Lockdown
  <2>3. CASE ~LockedOut(Profiles[arg[t]], pressure) /\ Allowed(act[t])
    <3>1. /\ pc' = [pc EXCEPT ![t] = "hal"]
          /\ UNCHANGED <<pressure, call, arg, act, seen>>
          /\ pc[t] = "lockdown"
      BY <1>7, <2>3 DEF Lockdown, Goto
    <3>2. PICK q \in seen[t] : act[t] = MappedAction(Profiles[arg[t]], q)
      BY <3>1 DEF SeenInv, ReadAt
    <3>3. q \in Pressures
      BY <1>0 DEF TypeOK
    <3>4. Proper(Profiles[arg[t]]) => AdmittedAt(t)
      BY <2>3, <3>2, <3>3, ReadAdmits DEF AdmittedAt
    <3> QED
      BY <1>0, <3>1, <3>4 DEF SeenInv, ReadAt, AdmittedAt, TypeOK
  <2> QED
    BY <2>1, <2>2, <2>3
<1>8. ASSUME NEW t \in Contexts, Hal(t)
      PROVE  SeenInv'
  <2>1. CASE Goto(t, "need") /\ UNCHANGED <<act, todo, idx>>
    BY <1>2, <1>8, <2>1 DEF Hal, Goto
  <2>2. CASE Conclude(t, "REJECT")
    BY <1>4, <1>8, <2>2 DEF Hal, Allowed
  <2> QED
    BY <1>8, <2>1, <2>2 DEF Hal
<1>9. ASSUME NEW t \in Contexts, TestNeed(t)
      PROVE  SeenInv'
  <2>1. CASE Conclude(t, act[t])
    BY <1>4, <1>9, <2>1 DEF TestNeed
  <2>2. CASE Conclude(t, NeedVerdict(Entry(t), res, pressure).action)
    BY <1>4, <1>9, <2>2, VerdictRefuses DEF TestNeed
  <2>3. CASE UNCHANGED <<pc, act, todo>>
    <3>1. pc' = [pc EXCEPT ![t] = "need"]
      BY <1>0, <1>9, <2>3 DEF TestNeed, TypeOK
    <3> QED
      BY <1>2, <1>9, <2>3, <3>1 DEF TestNeed
  <2> QED
    BY <1>9, <2>1, <2>2, <2>3 DEF TestNeed
<1>10. ASSUME NEW t \in Contexts, Load(t) \/ Store(t)
       PROVE  SeenInv'
  <2>1. PICK l \in {"store", "decided", "load"} : pc' = [pc EXCEPT ![t] = l]
    BY <1>10 DEF Load, Store, Goto
  <2>2. /\ UNCHANGED <<pressure, call, arg, act, seen>>
        /\ pc[t] \in {"load", "store"}
    BY <1>10 DEF Load, Store
  <2> QED
    BY <1>2, <2>1, <2>2
<1>11. ASSUME NEW t \in Contexts, Decided(t)
       PROVE  SeenInv'
  <2>1. CASE Return(t)
    BY <1>3, <1>11, <2>1 DEF Decided
  <2>2. CASE ~Return(t)
    <3>1. /\ pc' = [pc EXCEPT ![t] = "phaseA"] /\ pc[t] = "decided"
          /\ UNCHANGED <<pressure, call, arg, act, seen>>
      BY <1>11, <2>2 DEF Decided, Goto
    <3> QED
      BY <1>2, <3>1
  <2> QED
    BY <2>1, <2>2
<1>12. ASSUME NEW t \in Contexts, PhaseA(t)
       PROVE  SeenInv'
  <2>1. CASE Return(t)
    BY <1>3, <1>12, <2>1 DEF PhaseA
  <2>2. CASE ~Return(t)
    <3>1. /\ pc' = [pc EXCEPT ![t] = "phaseA"]
             \/ pc' = [pc EXCEPT ![t] = "lock"]
          /\ pc[t] = "phaseA" /\ UNCHANGED <<pressure, call, arg, act, seen>>
      BY <1>0, <1>12, <2>2 DEF PhaseA, Goto, TypeOK
    <3> QED
      BY <1>2, <3>1
  <2> QED
    BY <2>1, <2>2
<1>13. ASSUME NEW t \in Contexts, Acquire(t)
       PROVE  SeenInv'
  <2>1. PICK l \in {"slot", "match", "setp"} : pc' = [pc EXCEPT ![t] = l]
    BY <1>13 DEF Acquire, Goto
  <2>2. /\ UNCHANGED <<pressure, call, arg, act, seen>> /\ pc[t] = "lock"
    BY <1>13 DEF Acquire, local
  <2> QED
    BY <1>2, <2>1, <2>2
<1>14. ASSUME NEW t \in Contexts, \/ FindSlot(t) \/ Commit(t) \/ Publish(t)
       PROVE  SeenInv'
  <2>1. /\ UNCHANGED <<pressure, call, arg, act, seen>>
        /\ pc[t] \in {"slot", "commit", "publish"}
    BY <1>14 DEF FindSlot, Commit, Publish
  <2>2. PICK l \in {"commit", "publish", "unlock"} : pc' = [pc EXCEPT ![t] = l]
    <3>1. CASE UNCHANGED pc
      <4>1. pc' = [pc EXCEPT ![t] = "commit"]
        BY <1>0, <1>14, <3>1 DEF FindSlot, Commit, Publish, Goto, TypeOK
      <4> QED
        BY <4>1
    <3> QED
      BY <1>14, <3>1 DEF FindSlot, Commit, Publish, Goto
  <2> QED
    BY <1>2, <2>1, <2>2
<1>15. ASSUME NEW t \in Contexts, \/ Match(t) \/ ReleaseEntry(t) \/ ClearSlot(t)
       PROVE  SeenInv'
  <2>1. /\ UNCHANGED <<pressure, call, arg, act, seen>>
        /\ pc[t] \in {"match", "release", "clear"}
    BY <1>15 DEF Match, ReleaseEntry, ClearSlot, local
  <2>2. PICK l \in {"release", "clear", "unlock"} : pc' = [pc EXCEPT ![t] = l]
    <3>1. CASE UNCHANGED pc
      <4>1. pc' = [pc EXCEPT ![t] = "release"]
        BY <1>0, <1>15, <3>1 DEF Match, ReleaseEntry, ClearSlot, Goto, TypeOK
      <4> QED
        BY <4>1
    <3> QED
      BY <1>15, <3>1 DEF Match, ReleaseEntry, ClearSlot, Goto
  <2> QED
    BY <1>2, <2>1, <2>2
<1>16. ASSUME NEW t \in Contexts, StorePressure(t)
       PROVE  SeenInv'
  <2>1. /\ pressure' = arg[t] /\ pc' = [pc EXCEPT ![t] = "unlock"]
        /\ pc[t] = "setp" /\ UNCHANGED <<call, arg, act>>
    BY <1>16 DEF StorePressure, Goto
  <2>2. \A u \in Contexts : /\ seen[u] \subseteq seen'[u]
                            /\ pc[u] # "idle" => arg[t] \in seen'[u]
    BY <1>16 DEF StorePressure
  <2> QED
    BY <1>0, <2>1, <2>2 DEF SeenInv, ReadAt, AdmittedAt, TypeOK
<1>17. ASSUME NEW t \in Contexts, Unlock(t)
       PROVE  SeenInv'
  BY <1>3, <1>17 DEF Unlock
<1> QED
  BY <1>1, <1>5, <1>6, <1>7, <1>8, <1>9, <1>10, <1>11, <1>12, <1>13, <1>14,
     <1>15, <1>16, <1>17 DEF Next, Step

(* What loxbudget_enter lets pass was admissible at a pressure in force    *)
(* during the call, although it reads the pressure twice while others      *)
(* change it; profiles whose LOCKDOWN column allows what LOCKDOWN refuses  *)
(* excepted.                                                               *)
THEOREM GrantsAdmissible == Spec => []GrantAdmissible
<1>1. Init => TypeInv /\ SeenInv
  BY TypeInit DEF Init, SeenInv
<1>2. TypeInv /\ SeenInv /\ [Next]_vars => TypeInv' /\ SeenInv'
  BY TypeStep, SeenStep
<1>3. TypeInv /\ SeenInv => GrantAdmissible
  <2> SUFFICES ASSUME TypeInv, SeenInv PROVE GrantAdmissible
    OBVIOUS
  <2>1. \A t \in Contexts : Control(t)
    BY DEF TypeInv
  <2> QED
    BY <2>1 DEF SeenInv, GrantAdmissible, AdmittedAt, Proper, Control
<1> QED
  BY <1>1, <1>2, <1>3, PTL DEF Spec

-----------------------------------------------------------------------------
(* Serialised calls.  An application that lets one call finish before the  *)
(* next starts keeps every limit: nothing changes the resources between    *)
(* phase A and the commit of an entry, except the commit of entries for    *)
(* other resources.                                                        *)

Fits(t, i) == ~PhaseAFails(NeedLists[arg[t]][i], res)

SerialInv ==
    serial =>
       /\ NoOvercommit
       /\ \A t, u \in Contexts : pc[t] # "idle" /\ pc[u] # "idle" => t = u
       /\ \A t \in Contexts :
             /\ pc[t] = "phaseA" => \A i \in NeedIndex : i < idx[t] => Fits(t, i)
             /\ (pc[t] = "lock" /\ call[t] = "enter") \/ pc[t] = "slot"
                  => \A i \in NeedIndex : Fits(t, i)
             /\ pc[t] = "commit" => \A i \in NeedIndex : i >= idx[t] => Fits(t, i)

(* A step within a call that changes no resource. *)
LEMMA SerialQuiet ==
    ASSUME TypeOK, SerialInv, NEW t \in Contexts, pc[t] # "idle",
           \A u \in Contexts : u # t => pc'[u] = pc[u],
           UNCHANGED <<res, serial>>,
           \/ pc'[t] \notin {"phaseA", "lock", "slot", "commit"}
           \/ pc'[t] = "lock" /\ call'[t] # "enter"
           \/ pc'[t] = "phaseA" /\ idx'[t] = 1
    PROVE  SerialInv'
<1> SUFFICES ASSUME serial PROVE SerialInv'
  BY DEF SerialInv
<1>1. NoOvercommit'
  BY DEF SerialInv, NoOvercommit
<1>2. \A u \in Contexts : u # t => pc[u] = "idle" /\ pc'[u] = "idle"
  BY DEF SerialInv
<1>3. \A i \in NeedIndex : ~(i < 1)
  BY DEF NeedIndex
<1> QED
  BY <1>1, <1>2, <1>3 DEF SerialInv

LEMMA SerialStep ==
    ASSUME TypeInv, SerialInv, [Next]_vars
    PROVE  SerialInv'
<1>0. TypeOK /\ \A u \in Contexts : Control(u)
  BY DEF TypeInv
<1>1. CASE UNCHANGED vars
  BY <1>1 DEF SerialInv, NoOvercommit, Fits, vars, local
<1>2. ASSUME NEW t \in Contexts, Calls(t)
      PROVE  SerialInv'
  <2>1. PICK f, a, l : /\ Start(t, f, a, l)
                       /\ \/ l = "mapped"
                          \/ l = "lock" /\ f # "enter"
    BY <1>2 DEF Calls, CallCheck, CallEnter, CallLeave, CallSetPressure
  <2> SUFFICES ASSUME serial PROVE SerialInv'
    BY <2>1 DEF SerialInv, Start
  <2>2. \A u \in Contexts : pc[u] = "idle"
    BY <2>1 DEF Start, MayStart
  <2>3. pc' = [pc EXCEPT ![t] = l] /\ call' = [call EXCEPT ![t] = f]
        /\ UNCHANGED <<res, serial>>
    BY <2>1 DEF Start, Goto
  <2>4. /\ \A u \in Contexts : u # t => pc'[u] = "idle"
        /\ pc'[t] = l /\ call'[t] = f
    BY <1>0, <2>2, <2>3 DEF TypeOK
  <2>5. NoOvercommit'
    BY <2>3 DEF SerialInv, NoOvercommit
  <2> QED
    BY <2>1, <2>3, <2>4, <2>5 DEF SerialInv
<1>3. ASSUME NEW t \in Contexts,
             \/ Mapped(t) \/ Lockdown(t) \/ Hal(t) \/ TestNeed(t)
             \/ Load(t) \/ Store(t)
      PROVE  SerialInv'
  <2>1. PICK l \in {"lockdown", "hal", "need", "load", "store", "decided"} :
                pc' = [pc EXCEPT ![t] = l]
    <3>1. CASE TestNeed(t) /\ UNCHANGED pc
      <4>1. pc' = [pc EXCEPT ![t] = "need"]
        BY <1>0, <3>1 DEF TestNeed, TypeOK
      <4> QED
        BY <4>1
    <3> QED
      BY <1>3, <3>1 DEF Mapped, Lockdown, Hal, TestNeed, Load, Store,
                        Conclude, Goto
  <2>2. pc[t] # "idle" /\ UNCHANGED <<res, serial>>
    BY <1>3 DEF Mapped, Lockdown, Hal, TestNeed, Load, Store
  <2>3. pc'[t] = l /\ \A u \in Contexts : u # t => pc'[u] = pc[u]
    BY <1>0, <2>1 DEF TypeOK
  <2> QED
    BY <1>0, <2>2, <2>3, SerialQuiet
<1>4. ASSUME NEW t \in Contexts, Decided(t)
      PROVE  SerialInv'
  <2>1. pc[t] = "decided" /\ idx[t] = 1 /\ UNCHANGED <<res, serial>>
    BY <1>0, <1>4 DEF Decided, Control
  <2>2. \/ Return(t)
        \/ Goto(t, "phaseA") /\ UNCHANGED idx
    BY <1>4 DEF Decided
  <2>3. /\ \A u \in Contexts : u # t => pc'[u] = pc[u]
        /\ \/ pc'[t] = "idle"
           \/ pc'[t] = "phaseA" /\ idx'[t] = 1
    BY <1>0, <2>1, <2>2 DEF Return, Goto, TypeOK
  <2> QED
    BY <1>0, <2>1, <2>3, SerialQuiet
<1>5. ASSUME NEW t \in Contexts, PhaseA(t)
      PROVE  SerialInv'
  <2>1. pc[t] = "phaseA" /\ UNCHANGED <<res, serial>> /\ idx[t] \in Nat
        /\ call[t] = "enter"
    BY <1>0, <1>5, SizesAssumption DEF PhaseA, TypeOK, Control
  <2>2. CASE Return(t)
    <3>1. /\ \A u \in Contexts : u # t => pc'[u] = pc[u]
          /\ pc'[t] = "idle"
      BY <1>0, <2>2 DEF Return, Goto, TypeOK
    <3> QED
      BY <1>0, <2>1, <3>1, SerialQuiet
  <2>3. CASE ~Return(t)
    <3> SUFFICES ASSUME serial PROVE SerialInv'
      BY <2>1 DEF SerialInv
    <3>1. \A u \in Contexts : u # t => pc[u] = "idle"
      BY <2>1 DEF SerialInv
    <3>2. /\ UNCHANGED <<call, arg>>
          /\ \/ /\ idx[t] > MaxNeedsPerOp
                /\ pc' = [pc EXCEPT ![t] = "lock"]
             \/ /\ ~(idx[t] > MaxNeedsPerOp) /\ ~PhaseAFails(Entry(t), res)
                /\ pc' = pc /\ idx' = [idx EXCEPT ![t] = @ + 1]
      BY <1>5, <2>3 DEF PhaseA, Goto
    <3>3. \A i \in NeedIndex : i < idx[t] => Fits(t, i)
      BY <2>1 DEF SerialInv
    <3>4. NoOvercommit'
      BY <2>1 DEF SerialInv, NoOvercommit
    <3>5. CASE idx[t] > MaxNeedsPerOp
      <4>1. \A i \in NeedIndex : Fits(t, i)
        BY <2>1, <3>3, <3>5, SizesAssumption DEF NeedIndex
      <4>2. \A i \in NeedIndex : Fits(t, i)'
        BY <2>1, <3>2, <4>1 DEF Fits
      <4>3. pc'[t] = "lock" /\ \A u \in Contexts : u # t => pc'[u] = "idle"
        BY <1>0, <3>1, <3>2, <3>5 DEF TypeOK
      <4> QED
        BY <3>4, <4>2, <4>3 DEF SerialInv
    <3>6. CASE ~(idx[t] > MaxNeedsPerOp)
      <4>1. Fits(t, idx[t])
        BY <3>2, <3>6 DEF Fits, Entry
      <4>2. idx'[t] = idx[t] + 1 /\ pc' = pc
        BY <1>0, <3>2, <3>6 DEF TypeOK
      <4>3. \A i \in NeedIndex : i < idx'[t] => Fits(t, i)
        BY <2>1, <3>3, <4>1, <4>2 DEF NeedIndex
      <4>4. \A i \in NeedIndex : i < idx'[t] => Fits(t, i)'
        BY <2>1, <3>2, <4>3 DEF Fits
      <4>5. pc'[t] = "phaseA" /\ \A u \in Contexts : u # t => pc'[u] = "idle"
        BY <2>1, <3>1, <4>2
      <4> QED
        BY <3>4, <4>4, <4>5 DEF SerialInv
    <3> QED
      BY <3>5, <3>6
  <2> QED
    BY <2>2, <2>3
<1>6. ASSUME NEW t \in Contexts, Acquire(t) \/ FindSlot(t)
      PROVE  SerialInv'
  <2>1. /\ UNCHANGED <<res, serial, call, arg, idx>>
        /\ pc[t] \in {"lock", "slot"} /\ idx[t] = 1
        /\ pc[t] = "slot" => call[t] = "enter"
    BY <1>0, <1>6 DEF Acquire, FindSlot, local, Control
  <2>2. PICK l : /\ pc' = [pc EXCEPT ![t] = l]
                 /\ \/ l \in {"match", "setp", "unlock"}
                    \/ l \in {"slot", "commit"} /\ call[t] = "enter"
    BY <1>6, <2>1 DEF Acquire, FindSlot, Goto
  <2>3. pc'[t] = l /\ \A u \in Contexts : u # t => pc'[u] = pc[u]
    BY <1>0, <2>2 DEF TypeOK
  <2>4. CASE l \in {"match", "setp", "unlock"}
    BY <1>0, <2>1, <2>3, <2>4, SerialQuiet
  <2>5. CASE l \in {"slot", "commit"} /\ call[t] = "enter"
    <3> SUFFICES ASSUME serial PROVE SerialInv'
      BY <2>1 DEF SerialInv
    <3>1. \A i \in NeedIndex : Fits(t, i)
      BY <2>1, <2>5 DEF SerialInv
    <3>2. \A i \in NeedIndex : Fits(t, i)'
      BY <2>1, <3>1 DEF Fits
    <3>3. \A u \in Contexts : u # t => pc'[u] = "idle"
      BY <2>1, <2>3 DEF SerialInv
    <3>4. NoOvercommit'
      BY <2>1 DEF SerialInv, NoOvercommit
    <3> QED
      BY <2>3, <2>5, <3>2, <3>3, <3>4 DEF SerialInv
  <2> QED
    BY <2>2, <2>4, <2>5
<1>7. ASSUME NEW t \in Contexts, Commit(t)
      PROVE  SerialInv'
  <2>1. pc[t] = "commit" /\ UNCHANGED <<serial, arg, call>>
        /\ arg[t] \in OpIds
    BY <1>0, <1>7 DEF Commit, Control
  <2>2. CASE idx[t] > MaxNeedsPerOp
    <3>1. UNCHANGED res /\ pc'[t] = "publish"
          /\ \A u \in Contexts : u # t => pc'[u] = pc[u]
      BY <1>0, <1>7, <2>2 DEF Commit, Goto, TypeOK
    <3> QED
      BY <1>0, <2>1, <3>1, SerialQuiet
  <2>3. CASE ~(idx[t] > MaxNeedsPerOp)
    <3> SUFFICES ASSUME serial PROVE SerialInv'
      BY <2>1 DEF SerialInv
    <3> DEFINE n == Entry(t)
               k == idx[t]
    <3>1. /\ k \in NeedIndex /\ idx'[t] = k + 1 /\ pc' = pc
          /\ n = NeedLists[arg[t]][k]
          /\ res' = IF n.amount = 0 THEN res
                    ELSE [res EXCEPT ![n.resource] =
                            CommitNeed(@, n.amount)]
      BY <1>0, <1>7, <2>3, SizesAssumption DEF Commit, Entry, TypeOK, NeedIndex
    <3>2. n.resource \in ResourceIds /\ n.amount \in U16
      BY <1>0, <2>1, <3>1, EntryType DEF NeedIndex
    <3>3. Fits(t, k) /\ k \in Int /\ \A i \in NeedIndex : i >= k => Fits(t, i)
      BY <2>1, <3>1 DEF SerialInv, NeedIndex
    <3> HIDE DEF n, k
    <3>4. n.amount # 0 => LET r == res[n.resource]
                          IN  r.kind # "STATE" => AvailableOf(r) >= n.amount
      <4>1. res[n.resource] \in Resource
        BY <1>0, <3>2 DEF TypeOK
      <4>2. AvailableOf(res[n.resource]) \in Int /\ n.amount \in Int
        BY <3>2, <4>1, SizesAssumption
           DEF AvailableOf, Available, Resource, U16
      <4>3. ~PhaseAFails(n, res)
        BY <3>1, <3>3 DEF Fits
      <4> QED
        BY <4>2, <4>3 DEF PhaseAFails
    <3>5. NoOvercommit'
      <4>1. NoOvercommit /\ res \in [ResourceIds -> Resource]
        BY <1>0 DEF SerialInv, TypeOK
      <4>2. CASE n.amount = 0
        BY <3>1, <4>1, <4>2 DEF NoOvercommit
      <4>3. CASE n.amount # 0
        <5>1. LET s == CommitNeed(res[n.resource], n.amount)
              IN  s.used + s.reserved <= s.limit
          BY <3>2, <3>4, <4>1, <4>3, CommitWithin DEF NoOvercommit
        <5> QED
          BY <3>1, <3>2, <4>1, <4>3, <5>1 DEF NoOvercommit
      <4> QED
        BY <4>2, <4>3
    <3>6. ASSUME NEW i \in NeedIndex, i >= k + 1
          PROVE  Fits(t, i)'
      <4> DEFINE m == NeedLists[arg[t]][i]
      <4>1. Fits(t, i) /\ i # k
        BY <3>1, <3>3, <3>6 DEF NeedIndex
      <4>2. m.amount # 0 /\ n.amount # 0 => m.resource # n.resource
        BY <2>1, <3>1, <4>1, ConfiguredAssumption
      <4>3. m \in Need
        BY <2>1, PreemptAssumption DEF NeedList
      <4> HIDE DEF m
      <4>4. m.amount # 0 => res'[m.resource] = res[m.resource]
        BY <1>0, <3>1, <3>2, <4>2, <4>3 DEF TypeOK, Need
      <4>5. PhaseAFails(m, res') <=> PhaseAFails(m, res)
        BY <4>4 DEF PhaseAFails
      <4> QED
        BY <2>1, <4>1, <4>5 DEF Fits, m
    <3>7. \A u \in Contexts : u # t => pc'[u] = "idle"
      BY <2>1, <3>1 DEF SerialInv
    <3> QED
      BY <2>1, <3>1, <3>5, <3>6, <3>7 DEF SerialInv
  <2> QED
    BY <2>2, <2>3
<1>8. ASSUME NEW t \in Contexts, ReleaseEntry(t)
      PROVE  SerialInv'
  <2>1. /\ pc[t] = "release" /\ UNCHANGED serial /\ arg[t] \in OpIds
        /\ pc'[t] \in {"release", "clear"}
        /\ \A u \in Contexts : u # t => pc'[u] = pc[u]
    <3>1. lease[t].op \in OpIds
      BY <1>0 DEF TypeOK, Token
    <3> QED
      BY <1>0, <1>8, <3>1 DEF ReleaseEntry, Goto, Control, TypeOK
  <2> SUFFICES ASSUME serial PROVE SerialInv'
    BY <2>1 DEF SerialInv
  <2>2. \A u \in Contexts : u # t => pc'[u] = "idle"
    BY <2>1 DEF SerialInv
  <2>3. NoOvercommit'
    <3>1. NoOvercommit /\ res \in [ResourceIds -> Resource]
      BY <1>0 DEF SerialInv, TypeOK
    <3>2. CASE UNCHANGED res
      BY <3>1, <3>2 DEF NoOvercommit
    <3>3. CASE ~UNCHANGED res
      <4> DEFINE n == Entry(t)
      <4>1. /\ ~(idx[t] > MaxNeedsPerOp)
            /\ res' = [res EXCEPT ![n.resource] = ReleaseNeed(@, n.amount)]
        BY <1>8, <3>3 DEF ReleaseEntry
      <4>2. n.resource \in ResourceIds /\ n.amount \in U16
        <5>1. idx[t] \in 1 .. MaxNeedsPerOp
          BY <1>0, <4>1, SizesAssumption DEF TypeOK
        <5> QED
          BY <2>1, <5>1, EntryType
      <4> HIDE DEF n
      <4> DEFINE r == res[n.resource]
                 s == ReleaseNeed(r, n.amount)
      <4>3. r \in Resource /\ r.used + r.reserved <= r.limit
        BY <3>1, <4>2 DEF NoOvercommit
      <4>4. s.used = r.used /\ s.limit = r.limit /\ s.reserved <= r.reserved
            /\ s.reserved \in Nat
        BY <4>2, <4>3, SizesAssumption DEF ReleaseNeed, Resource, U16
      <4>5. s.used + s.reserved <= s.limit
        <5> HIDE DEF s, r
        <5> QED
          BY <4>3, <4>4, SizesAssumption DEF Resource, U16
      <4> QED
        BY <3>1, <4>1, <4>2, <4>5 DEF NoOvercommit
    <3> QED
      BY <3>2, <3>3
  <2> QED
    BY <2>1, <2>2, <2>3 DEF SerialInv
<1>9. ASSUME NEW t \in Contexts,
             \/ Publish(t) \/ Match(t) \/ ClearSlot(t)
             \/ StorePressure(t) \/ Unlock(t)
      PROVE  SerialInv'
  <2>1. pc[t] # "idle" /\ UNCHANGED <<res, serial>>
    BY <1>9 DEF Publish, Match, ClearSlot, StorePressure, Unlock
  <2>2. PICK l \in {"release", "unlock", "idle"} : pc' = [pc EXCEPT ![t] = l]
    BY <1>9 DEF Publish, Match, ClearSlot, StorePressure, Unlock, Return, Goto
  <2>3. pc'[t] = l /\ \A u \in Contexts : u # t => pc'[u] = pc[u]
    BY <1>0, <2>2 DEF TypeOK
  <2> QED
    BY <1>0, <2>1, <2>3, SerialQuiet
<1> QED
  BY <1>1, <1>2, <1>3, <1>4, <1>5, <1>6, <1>7, <1>8, <1>9 DEF Next, Step

(* An application that never lets two calls overlap never commits more     *)
(* than a limit: the test before the critical section is enough then, and  *)
(* only then (NoOvercommit itself is violated, run overcommit).            *)
THEOREM SerialNeverOvercommits == Spec => []SerialNoOvercommit
<1>1. Init => TypeInv /\ SerialInv
  <2> SUFFICES ASSUME Init PROVE SerialInv
    BY TypeInit
  <2>1. NoOvercommit
    BY PreemptAssumption, ConfiguredAssumption, SizesAssumption
       DEF Init, NoOvercommit, Resource, U16
  <2> QED
    BY <2>1 DEF Init, SerialInv
<1>2. TypeInv /\ SerialInv /\ [Next]_vars => TypeInv' /\ SerialInv'
  BY TypeStep, SerialStep
<1>3. SerialInv => SerialNoOvercommit
  BY DEF SerialInv, SerialNoOvercommit
<1> QED
  BY <1>1, <1>2, <1>3, PTL DEF Spec

-----------------------------------------------------------------------------
(* Reservations.  While a context is inside the section its need list is   *)
(* committed or released in part; the sum of what is in hand, counted      *)
(* entry by entry, is reserved at every step.                              *)

(* The part of the need list before the context's position has r.          *)
Done(t, r) ==
    \E i \in NeedIndex : /\ i < idx[t]
                         /\ NeedLists[arg[t]][i].amount # 0
                         /\ NeedLists[arg[t]][i].resource = r

InHand(t, r) ==
    CASE pc[t] = "commit"  -> IF Done(t, r) THEN Reserves(arg[t], r) ELSE 0
      [] pc[t] = "publish" -> Reserves(arg[t], r)
      [] pc[t] = "release" -> IF Done(t, r) THEN 0 ELSE Reserves(arg[t], r)
      [] pc[t] = "clear"   -> 0
      [] OTHER             -> hold[t].amount[r]

InHands(r) == [t \in Contexts |-> InHand(t, r)]

HandsInv ==
    /\ \A t \in Contexts, r \in ResourceIds :
          hold[t].amount[r] = IF hold[t].on THEN Reserves(lease[t].op, r) ELSE 0
    /\ \A r \in ResourceIds : /\ res[r].kind = ResourceTable[r].kind
                              /\ res[r].reserved = SumOf(InHands(r))

(* An entry of the list is what the list reserves of its resource; a       *)
(* resource without an entry, or one that is not reusable, is not reserved. *)
LEMMA ReservesEntry ==
    ASSUME NEW op \in OpIds, NEW i \in NeedIndex,
           NeedLists[op][i].amount # 0
    PROVE  LET n == NeedLists[op][i]
           IN  Reserves(op, n.resource) =
                 IF ResourceTable[n.resource].kind = "REUSABLE" THEN n.amount
                                                                ELSE 0
<1> DEFINE n == NeedLists[op][i]
           I == {j \in NeedIndex : /\ NeedLists[op][j].amount # 0
                                   /\ NeedLists[op][j].resource = n.resource}
<1>1. i \in I /\ \A j \in I : j = i
  BY ConfiguredAssumption
<1>2. I \in SUBSET Nat
  BY SizesAssumption DEF NeedIndex
<1>3. Min(I) \in I
  BY <1>1, <1>2, MinIn
<1>4. Min(I) = i
  BY <1>1, <1>3
<1>5. I # {}
  BY <1>1
<1> QED
  BY <1>4, <1>5 DEF Reserves

LEMMA ReservesNothing ==
    ASSUME NEW op \in OpIds, NEW r \in ResourceIds,
           ~ \E i \in NeedIndex : /\ NeedLists[op][i].amount # 0
                                  /\ NeedLists[op][i].resource = r
    PROVE  Reserves(op, r) = 0
<1> DEFINE I == {i \in NeedIndex : /\ NeedLists[op][i].amount # 0
                                   /\ NeedLists[op][i].resource = r}
<1>1. I = {}
  OBVIOUS
<1> QED
  BY <1>1 DEF Reserves

(* What is in hand is never more than the operation the context is busy    *)
(* with, or holds a lease of, reserves.                                    *)
LEMMA HandBounded ==
    ASSUME TypeInv, HandsInv, NEW t \in Contexts
    PROVE  \E op \in OpIds : \A r \in ResourceIds :
              InHand(t, r) \in Nat /\ InHand(t, r) <= Reserves(op, r)
<1>1. /\ lease[t].op \in OpIds
      /\ pc[t] \in {"commit", "publish", "release", "clear"} => arg[t] \in OpIds
  BY DEF TypeInv, TypeOK, Control, Token
<1>2. \A op \in OpIds, r \in ResourceIds : Reserves(op, r) \in Nat
  BY ReservesType, SizesAssumption DEF U16
<1>3. CASE pc[t] \in {"commit", "publish", "release", "clear"}
  <2>1. \A r \in ResourceIds : \/ InHand(t, r) = 0
                               \/ InHand(t, r) = Reserves(arg[t], r)
    BY <1>3 DEF InHand
  <2>2. \A r \in ResourceIds : /\ InHand(t, r) \in Nat
                               /\ InHand(t, r) <= Reserves(arg[t], r)
    BY <1>1, <1>2, <1>3, <2>1
  <2> QED
    BY <1>1, <1>3, <2>2
<1>4. CASE pc[t] \notin {"commit", "publish", "release", "clear"}
  <2>1. \A r \in ResourceIds : \/ InHand(t, r) = 0
                               \/ InHand(t, r) = Reserves(lease[t].op, r)
    BY <1>4 DEF InHand, HandsInv
  <2>2. \A r \in ResourceIds : /\ InHand(t, r) \in Nat
                               /\ InHand(t, r) <= Reserves(lease[t].op, r)
    BY <1>1, <1>2, <2>1
  <2> QED
    BY <1>1, <2>2
<1> QED
  BY <1>3, <1>4

(* So what all contexts have in hand fits the counter, also when one of    *)
(* them has all its operation reserves.                                    *)
LEMMA HandsFit ==
    ASSUME NoWrap, TypeInv, HandsInv, NEW r \in ResourceIds
    PROVE  /\ InHands(r) \in [Contexts -> Nat]
           /\ \A t \in Contexts, op \in OpIds :
                 SumOf([InHands(r) EXCEPT ![t] = Reserves(op, r)]) <= U16_MAX
<1>1. \A u \in Contexts : \E op \in OpIds :
         InHand(u, r) \in Nat /\ InHand(u, r) <= Reserves(op, r)
  BY HandBounded
<1>2. InHands(r) \in [Contexts -> Nat]
  BY <1>1 DEF InHands
<1>3. ASSUME NEW t \in Contexts, NEW op \in OpIds
      PROVE  SumOf([InHands(r) EXCEPT ![t] = Reserves(op, r)]) <= U16_MAX
  <2> DEFINE pick == [u \in Contexts |->
                        IF u = t THEN op
                        ELSE CHOOSE o \in OpIds : InHand(u, r) <= Reserves(o, r)]
             f == [InHands(r) EXCEPT ![t] = Reserves(op, r)]
             g == [u \in Contexts |-> Reserves(pick[u], r)]
  <2>1. \A u \in Contexts : u # t => /\ pick[u] \in OpIds
                                     /\ InHand(u, r) <= Reserves(pick[u], r)
    BY <1>1
  <2>2. pick \in [Contexts -> OpIds] /\ pick[t] = op
    BY <2>1
  <2> HIDE DEF pick
  <2>3. \A o \in OpIds : Reserves(o, r) \in Nat
    BY ReservesType, SizesAssumption DEF U16
  <2>4. f \in [Contexts -> Nat] /\ g \in [Contexts -> Nat]
    BY <1>2, <2>2, <2>3
  <2>5. \A u \in Contexts : f[u] <= g[u]
    <3> TAKE u \in Contexts
    <3>1. CASE u = t
      BY <1>2, <2>2, <2>3, <3>1
    <3>2. CASE u # t
      BY <1>2, <2>1, <3>2 DEF InHands
    <3> QED
      BY <3>1, <3>2
  <2>6. SumOf(g) <= U16_MAX
    BY <2>2 DEF NoWrap
  <2> HIDE DEF f, g
  <2>7. SumOf(f) <= SumOf(g)
    BY <2>4, <2>5, SumMonotone, PreemptAssumption
  <2>8. SumOf(f) \in Nat /\ SumOf(g) \in Nat
    BY <2>4, SumNat, PreemptAssumption
  <2> QED
    BY <2>6, <2>7, <2>8, SizesAssumption DEF f
<1> QED
  BY <1>2, <1>3

(* A step of t accounts for what it changes in hand.                       *)
LEMMA HandsMove ==
    ASSUME NoWrap, TypeInv, HandsInv, NEW t \in Contexts,
           \A u \in Contexts : u # t =>
              /\ pc'[u] = pc[u] /\ arg'[u] = arg[u] /\ idx'[u] = idx[u]
              /\ hold'[u] = hold[u] /\ lease'[u] = lease[u],
           \A r \in ResourceIds :
              hold'[t].amount[r] = IF hold'[t].on
                                   THEN Reserves(lease'[t].op, r) ELSE 0,
           \A r \in ResourceIds :
              /\ res'[r].kind = res[r].kind
              /\ InHand(t, r)' \in Nat
              /\ res'[r].reserved = res[r].reserved - InHand(t, r)
                                    + InHand(t, r)'
    PROVE  HandsInv'
<1>1. ASSUME NEW r \in ResourceIds
      PROVE  res'[r].reserved = SumOf(InHands(r)')
  <2> DEFINE f == InHands(r)
  <2>0. PICK a : a = InHand(t, r)'
    OBVIOUS
  <2>1. \A u \in Contexts : u # t => InHand(u, r)' = InHand(u, r)
    BY DEF InHand, Done
  <2>2. InHands(r)' = [f EXCEPT ![t] = a]
    BY <2>0, <2>1 DEF InHands
  <2>3. f \in [Contexts -> Nat] /\ f[t] = InHand(t, r)
    BY HandsFit DEF InHands
  <2>4. a \in Nat /\ res'[r].reserved = res[r].reserved - f[t] + a
    BY <2>0, <2>3
  <2>5. res[r].reserved = SumOf(f)
    BY DEF HandsInv
  <2> HIDE DEF f
  <2>6. SumOf([f EXCEPT ![t] = a]) = SumOf(f) - f[t] + a
    <3>1. IsFiniteSet(Contexts)
      BY PreemptAssumption
    <3>2. t \in Contexts /\ a \in Nat /\ f \in [Contexts -> Nat]
      BY <2>3, <2>4
    <3> QED
      BY ONLY <3>1, <3>2, SumUpdate
  <2> QED
    BY <2>2, <2>4, <2>5, <2>6
<1>2. \A u \in Contexts, r \in ResourceIds :
         hold'[u].amount[r] = IF hold'[u].on THEN Reserves(lease'[u].op, r)
                                             ELSE 0
  BY DEF HandsInv
<1> QED
  BY <1>1, <1>2 DEF HandsInv

(* Outside the section, a step changes nothing of this.                    *)
LEMMA HandsQuiet ==
    ASSUME NoWrap, TypeInv, HandsInv, NEW t \in Contexts,
           UNCHANGED <<res, hold>>,
           \A u \in Contexts : u # t =>
              /\ pc'[u] = pc[u] /\ arg'[u] = arg[u] /\ idx'[u] = idx[u]
              /\ lease'[u] = lease[u],
           hold[t].on => lease'[t] = lease[t],
           {pc[t], pc'[t]} \cap {"commit", "publish", "release", "clear"} = {}
    PROVE  HandsInv'
<1>1. \A r \in ResourceIds : InHand(t, r)' = InHand(t, r)
  BY DEF InHand
<1>2. \A r \in ResourceIds : /\ InHand(t, r) \in Nat
                             /\ res[r].reserved \in Nat
  <2>1. \A r \in ResourceIds : InHand(t, r) \in Nat
    BY HandBounded
  <2>2. \A r \in ResourceIds : res[r].reserved \in Nat
    BY SizesAssumption DEF TypeInv, TypeOK, Resource, U16
  <2> QED
    BY <2>1, <2>2
<1>3. \A r \in ResourceIds :
         hold'[t].amount[r] = IF hold'[t].on THEN Reserves(lease'[t].op, r)
                                             ELSE 0
  BY DEF HandsInv
<1>4. \A r \in ResourceIds :
         /\ res'[r].kind = res[r].kind
         /\ InHand(t, r)' \in Nat
         /\ res'[r].reserved = res[r].reserved - InHand(t, r) + InHand(t, r)'
  BY <1>1, <1>2
<1> QED
  BY <1>3, <1>4, HandsMove

(* One turn of the commit loop brings the entry's amount in hand.          *)
LEMMA HandsCommit ==
    ASSUME NoWrap, TypeInv, HandsInv, NEW t \in Contexts, Commit(t)
    PROVE  HandsInv'
<1>0. /\ TypeOK /\ Control(t) /\ pc[t] = "commit" /\ arg[t] \in OpIds
      /\ UNCHANGED <<arg, hold, lease>> /\ idx[t] \in Nat
  BY SizesAssumption DEF Commit, TypeInv, TypeOK, Control
<1>1. /\ \A u \in Contexts : u # t =>
            /\ pc'[u] = pc[u] /\ arg'[u] = arg[u] /\ idx'[u] = idx[u]
            /\ hold'[u] = hold[u] /\ lease'[u] = lease[u]
      /\ \A r \in ResourceIds :
            hold'[t].amount[r] = IF hold'[t].on THEN Reserves(lease'[t].op, r)
                                                ELSE 0
  BY <1>0 DEF Commit, Goto, TypeOK, HandsInv
<1>2. \A r \in ResourceIds : /\ res[r] \in Resource /\ res[r].reserved \in Nat
                             /\ InHand(t, r) \in Nat
                             /\ Reserves(arg[t], r) \in Nat
  BY <1>0, HandBounded, ReservesType, SizesAssumption DEF TypeOK, Resource, U16
<1>3. CASE idx[t] > MaxNeedsPerOp
  <2>1. UNCHANGED <<res, idx>> /\ pc'[t] = "publish"
    BY <1>0, <1>3 DEF Commit, Goto, TypeOK
  <2>2. ASSUME NEW r \in ResourceIds
        PROVE  InHand(t, r)' = InHand(t, r)
    <3>1. CASE Done(t, r)
      BY <1>0, <2>1, <3>1 DEF InHand
    <3>2. CASE ~Done(t, r)
      <4>1. \A i \in NeedIndex : i < idx[t]
        BY <1>0, <1>3, SizesAssumption DEF NeedIndex
      <4>2. Reserves(arg[t], r) = 0
        BY <1>0, <3>2, <4>1, ReservesNothing DEF Done
      <4> QED
        BY <1>0, <2>1, <3>2, <4>2 DEF InHand
    <3> QED
      BY <3>1, <3>2
  <2>3. \A r \in ResourceIds :
           /\ res'[r].kind = res[r].kind /\ InHand(t, r)' \in Nat
           /\ res'[r].reserved = res[r].reserved - InHand(t, r)
                                 + InHand(t, r)'
    BY <1>2, <2>1, <2>2
  <2> QED
    BY <1>1, <2>3, HandsMove
<1>4. CASE ~(idx[t] > MaxNeedsPerOp)
  <2> DEFINE k == idx[t]
             n == NeedLists[arg[t]][k]
  <2>1. /\ k \in NeedIndex /\ idx'[t] = k + 1 /\ pc' = pc
        /\ res' = IF n.amount = 0 THEN res
                  ELSE [res EXCEPT ![n.resource] = CommitNeed(@, n.amount)]
    BY <1>0, <1>4, SizesAssumption DEF Commit, Entry, TypeOK, NeedIndex
  <2>2. n.resource \in ResourceIds /\ n.amount \in U16
    BY <1>0, <2>1, EntryType DEF NeedIndex, Entry
  <2>3. \A r \in ResourceIds : Done(t, r)' <=>
           Done(t, r) \/ (n.amount # 0 /\ n.resource = r)
    BY <1>0, <2>1 DEF Done, NeedIndex
  <2>4. n.amount # 0 => ~Done(t, n.resource)
    BY <1>0, <2>1, ConfiguredAssumption DEF Done
  <2>5. \A r \in ResourceIds : /\ InHand(t, r) = IF Done(t, r) THEN Reserves(arg[t], r)
                                                ELSE 0
                               /\ InHand(t, r)' = IF Done(t, r)' THEN Reserves(arg[t], r)
                                                 ELSE 0
    BY <1>0, <2>1 DEF InHand
  <2>6. n.amount # 0 =>
          Reserves(arg[t], n.resource) =
            IF res[n.resource].kind = "REUSABLE" THEN n.amount ELSE 0
    BY <1>0, <2>1, <2>2, ReservesEntry DEF HandsInv
  <2> HIDE DEF k, n
  <2>7. ASSUME NEW r \in ResourceIds, ~(n.amount # 0 /\ n.resource = r)
        PROVE  /\ res'[r].kind = res[r].kind /\ InHand(t, r)' \in Nat
               /\ res'[r].reserved = res[r].reserved - InHand(t, r)
                                     + InHand(t, r)'
    <3>1. InHand(t, r)' = InHand(t, r)
      BY <2>3, <2>5, <2>7
    <3>2. res'[r] = res[r]
      BY <1>0, <2>1, <2>2, <2>7 DEF TypeOK
    <3> QED
      BY <1>2, <3>1, <3>2
  <2>8. ASSUME NEW r \in ResourceIds, n.amount # 0 /\ n.resource = r
        PROVE  /\ res'[r].kind = res[r].kind /\ InHand(t, r)' \in Nat
               /\ res'[r].reserved = res[r].reserved - InHand(t, r)
                                     + InHand(t, r)'
    <3> DEFINE a == Reserves(arg[t], r)
    <3>1. res'[r] = CommitNeed(res[r], n.amount)
      BY <1>0, <2>1, <2>2, <2>8 DEF TypeOK
    <3>2. InHand(t, r) = 0 /\ InHand(t, r)' = a
      BY <2>2, <2>3, <2>4, <2>5, <2>8
    <3>3. a \in Nat /\ res[r].reserved \in Nat /\ res[r] \in Resource
      BY <1>2, <2>2
    <3>4. res[r].reserved + a <= U16_MAX
      <4>1. /\ InHands(r) \in [Contexts -> Nat]
            /\ SumOf([InHands(r) EXCEPT ![t] = a]) <= U16_MAX
        BY <1>0, <2>2, HandsFit
      <4>2. SumOf([InHands(r) EXCEPT ![t] = a])
              = SumOf(InHands(r)) - InHands(r)[t] + a
        <5>1. IsFiniteSet(Contexts)
          BY PreemptAssumption
        <5> HIDE DEF a
        <5> QED
          BY <3>3, <4>1, <5>1, SumUpdate
      <4>3. InHands(r)[t] = 0
        BY <3>2 DEF InHands
      <4>4. res[r].reserved = SumOf(InHands(r))
        BY <2>2 DEF HandsInv
      <4> HIDE DEF a
      <4> QED
        BY <3>3, <4>1, <4>2, <4>3, <4>4
    <3>5. CommitNeed(res[r], n.amount).kind = res[r].kind
          /\ CommitNeed(res[r], n.amount).reserved = res[r].reserved + a
      <4>1. a = IF res[r].kind = "REUSABLE" THEN n.amount ELSE 0
        BY <2>6, <2>8
      <4> HIDE DEF a
      <4>2. CASE res[r].kind = "REUSABLE"
        <5>1. res[r].reserved + n.amount \in 0 .. U16_MAX
          BY <3>3, <3>4, <4>1, <4>2, SizesAssumption
        <5>2. (res[r].reserved + n.amount) % (U16_MAX + 1)
                = res[r].reserved + n.amount
          BY <5>1, ModSmall, SizesAssumption
        <5> QED
          BY <3>3, <4>1, <4>2, <5>2 DEF CommitNeed, Resource
      <4>3. CASE res[r].kind # "REUSABLE"
        <5>1. a = 0
          BY <4>1, <4>3
        <5>2. /\ CommitNeed(res[r], n.amount).kind = res[r].kind
              /\ CommitNeed(res[r], n.amount).reserved = res[r].reserved
          BY <3>3, <4>3 DEF CommitNeed, Resource, Kinds
        <5> QED
          BY <3>3, <5>1, <5>2
      <4> QED
        BY <4>2, <4>3
    <3> HIDE DEF a
    <3> QED
      BY <3>1, <3>2, <3>3, <3>5
  <2>9. \A r \in ResourceIds :
           /\ res'[r].kind = res[r].kind /\ InHand(t, r)' \in Nat
           /\ res'[r].reserved = res[r].reserved - InHand(t, r)
                                 + InHand(t, r)'
    BY <2>7, <2>8
  <2> QED
    BY <1>1, <2>9, HandsMove
<1> QED
  BY <1>3, <1>4

(* One turn of the release loop gives it back.                             *)
LEMMA HandsRelease ==
    ASSUME NoWrap, TypeInv, HandsInv, NEW t \in Contexts, ReleaseEntry(t)
    PROVE  HandsInv'
<1>0. /\ TypeOK /\ Control(t) /\ pc[t] = "release" /\ arg[t] \in OpIds
      /\ UNCHANGED <<arg, hold, lease>> /\ idx[t] \in Nat
  <2>1. lease[t].op \in OpIds
    BY DEF TypeInv, TypeOK, Token
  <2> QED
    BY <2>1, SizesAssumption DEF ReleaseEntry, TypeInv, TypeOK, Control
<1>1. /\ \A u \in Contexts : u # t =>
            /\ pc'[u] = pc[u] /\ arg'[u] = arg[u] /\ idx'[u] = idx[u]
            /\ hold'[u] = hold[u] /\ lease'[u] = lease[u]
      /\ \A r \in ResourceIds :
            hold'[t].amount[r] = IF hold'[t].on THEN Reserves(lease'[t].op, r)
                                                ELSE 0
  BY <1>0 DEF ReleaseEntry, Goto, TypeOK, HandsInv
<1>2. \A r \in ResourceIds : /\ res[r] \in Resource /\ res[r].reserved \in Nat
                             /\ InHand(t, r) \in Nat
                             /\ Reserves(arg[t], r) \in Nat
  BY <1>0, HandBounded, ReservesType, SizesAssumption DEF TypeOK, Resource, U16
<1>3. CASE idx[t] > MaxNeedsPerOp
  <2>1. UNCHANGED <<res, idx>> /\ pc'[t] = "clear"
    BY <1>0, <1>3 DEF ReleaseEntry, Goto, TypeOK
  <2>2. ASSUME NEW r \in ResourceIds
        PROVE  InHand(t, r) = 0 /\ InHand(t, r)' = 0
    <3>1. CASE Done(t, r)
      BY <1>0, <2>1, <3>1 DEF InHand
    <3>2. CASE ~Done(t, r)
      <4>1. \A i \in NeedIndex : i < idx[t]
        BY <1>0, <1>3, SizesAssumption DEF NeedIndex
      <4>2. Reserves(arg[t], r) = 0
        BY <1>0, <3>2, <4>1, ReservesNothing DEF Done
      <4> QED
        BY <1>0, <2>1, <3>2, <4>2 DEF InHand
    <3> QED
      BY <3>1, <3>2
  <2>3. \A r \in ResourceIds :
           /\ res'[r].kind = res[r].kind /\ InHand(t, r)' \in Nat
           /\ res'[r].reserved = res[r].reserved - InHand(t, r)
                                 + InHand(t, r)'
    BY <1>2, <2>1, <2>2
  <2> QED
    BY <1>1, <2>3, HandsMove
<1>4. CASE ~(idx[t] > MaxNeedsPerOp)
  <2> DEFINE k == idx[t]
             n == NeedLists[arg[t]][k]
  <2>1. /\ k \in NeedIndex /\ idx'[t] = k + 1 /\ pc' = pc
        /\ res' = IF n.amount = 0 THEN res
                  ELSE [res EXCEPT ![n.resource] = ReleaseNeed(@, n.amount)]
    BY <1>0, <1>4, SizesAssumption DEF ReleaseEntry, Entry, TypeOK, NeedIndex
  <2>2. n.resource \in ResourceIds /\ n.amount \in U16
    BY <1>0, <2>1, EntryType DEF NeedIndex, Entry
  <2>3. \A r \in ResourceIds : Done(t, r)' <=>
           Done(t, r) \/ (n.amount # 0 /\ n.resource = r)
    BY <1>0, <2>1 DEF Done, NeedIndex
  <2>4. n.amount # 0 => ~Done(t, n.resource)
    BY <1>0, <2>1, ConfiguredAssumption DEF Done
  <2>5. \A r \in ResourceIds :
           /\ InHand(t, r) = IF Done(t, r) THEN 0 ELSE Reserves(arg[t], r)
           /\ InHand(t, r)' = IF Done(t, r)' THEN 0 ELSE Reserves(arg[t], r)
    BY <1>0, <2>1 DEF InHand
  <2>6. n.amount # 0 =>
          Reserves(arg[t], n.resource) =
            IF res[n.resource].kind = "REUSABLE" THEN n.amount ELSE 0
    BY <1>0, <2>1, <2>2, ReservesEntry DEF HandsInv
  <2> HIDE DEF k, n
  <2>7. ASSUME NEW r \in ResourceIds, ~(n.amount # 0 /\ n.resource = r)
        PROVE  /\ res'[r].kind = res[r].kind /\ InHand(t, r)' \in Nat
               /\ res'[r].reserved = res[r].reserved - InHand(t, r)
                                     + InHand(t, r)'
    <3>1. InHand(t, r)' = InHand(t, r)
      BY <2>3, <2>5, <2>7
    <3>2. res'[r] = res[r]
      BY <1>0, <2>1, <2>2, <2>7 DEF TypeOK
    <3> QED
      BY <1>2, <3>1, <3>2
  <2>8. ASSUME NEW r \in ResourceIds, n.amount # 0 /\ n.resource = r
        PROVE  /\ res'[r].kind = res[r].kind /\ InHand(t, r)' \in Nat
               /\ res'[r].reserved = res[r].reserved - InHand(t, r)
                                     + InHand(t, r)'
    <3> DEFINE a == Reserves(arg[t], r)
    <3>1. res'[r] = ReleaseNeed(res[r], n.amount)
      BY <1>0, <2>1, <2>2, <2>8 DEF TypeOK
    <3>2. InHand(t, r) = a /\ InHand(t, r)' = 0
      BY <2>2, <2>3, <2>4, <2>5, <2>8
    <3>3. a \in Nat /\ res[r].reserved \in Nat /\ res[r] \in Resource
      BY <1>2, <2>2
    <3>4. a <= res[r].reserved
      <4>1. InHands(r) \in [Contexts -> Nat] /\ InHands(r)[t] = a
        BY <3>2, HandsFit DEF InHands
      <4>2. IsFiniteSet(Contexts)
        BY PreemptAssumption
      <4>3. InHands(r)[t] <= SumOf(InHands(r))
        BY <4>1, <4>2, SumUpdate
      <4> QED
        BY <4>1, <4>3 DEF HandsInv
    <3>5. a = IF res[r].kind = "REUSABLE" THEN n.amount ELSE 0
      BY <2>6, <2>8
    <3> HIDE DEF a
    <3>6. /\ ReleaseNeed(res[r], n.amount).kind = res[r].kind
          /\ ReleaseNeed(res[r], n.amount).reserved = res[r].reserved - a
      BY <2>2, <3>3, <3>4, <3>5, ReleaseReserves
    <3> QED
      BY <3>1, <3>2, <3>3, <3>6
  <2>9. \A r \in ResourceIds :
           /\ res'[r].kind = res[r].kind /\ InHand(t, r)' \in Nat
           /\ res'[r].reserved = res[r].reserved - InHand(t, r)
                                 + InHand(t, r)'
    BY <2>7, <2>8
  <2> QED
    BY <1>1, <2>9, HandsMove
<1> QED
  BY <1>3, <1>4

LEMMA HandsStep ==
    ASSUME NoWrap, NoReplay, OwnInv, HandsInv, [Next]_vars
    PROVE  HandsInv'
<1>0. TypeInv /\ TypeOK /\ \A u \in Contexts : Control(u)
  BY DEF OwnInv, TypeInv
<1>1. \A t \in Contexts, r \in ResourceIds :
         InHand(t, r) \in Nat /\ res[r].reserved \in Nat
  <2>1. \A t \in Contexts, r \in ResourceIds : InHand(t, r) \in Nat
    BY <1>0, HandBounded
  <2>2. \A r \in ResourceIds : res[r].reserved \in Nat
    BY <1>0, SizesAssumption DEF TypeOK, Resource, U16
  <2> QED
    BY <2>1, <2>2
<1>2. CASE UNCHANGED vars
  <2>1. \A r \in ResourceIds : InHands(r)' = InHands(r)
    BY <1>2 DEF InHands, InHand, Done, vars, local
  <2> QED
    BY <1>2, <2>1 DEF HandsInv, vars, local
<1>3. ASSUME NEW t \in Contexts, Calls(t)
      PROVE  HandsInv'
  <2>1. PICK f, a, l : Start(t, f, a, l) /\ l \in {"mapped", "lock"}
    BY <1>3 DEF Calls, CallCheck, CallEnter, CallLeave, CallSetPressure
  <2>2. /\ pc[t] = "idle" /\ UNCHANGED <<res, hold, lease, idx>>
        /\ pc' = [pc EXCEPT ![t] = l] /\ arg' = [arg EXCEPT ![t] = a]
    BY <2>1 DEF Start, MayStart, Goto
  <2>3. pc'[t] = l /\ \A u \in Contexts : u # t =>
                         pc'[u] = pc[u] /\ arg'[u] = arg[u]
    BY <1>0, <2>2 DEF TypeOK
  <2> QED
    BY <1>0, <2>1, <2>2, <2>3, HandsQuiet
<1>4. ASSUME NEW t \in Contexts,
             \/ Mapped(t) \/ Lockdown(t) \/ Hal(t) \/ TestNeed(t)
             \/ Load(t) \/ Store(t)
      PROVE  HandsInv'
  <2>1. PICK l \in {"lockdown", "hal", "need", "load", "store", "decided"} :
                pc' = [pc EXCEPT ![t] = l]
    <3>1. CASE TestNeed(t) /\ UNCHANGED pc
      <4>1. pc' = [pc EXCEPT ![t] = "need"]
        BY <1>0, <3>1 DEF TestNeed, TypeOK
      <4> QED
        BY <4>1
    <3> QED
      BY <1>4, <3>1 DEF Mapped, Lockdown, Hal, TestNeed, Load, Store,
                        Conclude, Goto
  <2>2. /\ UNCHANGED <<res, hold, lease, arg>>
        /\ pc[t] \in {"mapped", "lockdown", "hal", "need", "load", "store"}
    BY <1>4 DEF Mapped, Lockdown, Hal, TestNeed, Load, Store
  <2>3. pc'[t] = l /\ \A u \in Contexts : u # t =>
                         pc'[u] = pc[u] /\ idx'[u] = idx[u]
    BY <1>0, <1>4, <2>1 DEF Mapped, Lockdown, Hal, TestNeed, Load, Store,
                            Conclude, TypeOK
  <2> QED
    BY <1>0, <2>1, <2>2, <2>3, HandsQuiet
<1>5. ASSUME NEW t \in Contexts, Decided(t) \/ PhaseA(t)
      PROVE  HandsInv'
  <2>1. UNCHANGED <<res, hold>> /\ pc[t] \in {"decided", "phaseA"}
    BY <1>5 DEF Decided, PhaseA
  <2>2. pc'[t] \in {"idle", "phaseA", "lock"}
    BY <1>0, <1>5 DEF Decided, PhaseA, Return, Goto, TypeOK
  <2>3. \A u \in Contexts : u # t =>
           /\ pc'[u] = pc[u] /\ arg'[u] = arg[u] /\ idx'[u] = idx[u]
           /\ lease'[u] = lease[u]
    BY <1>0, <1>5 DEF Decided, PhaseA, Return, Goto, TypeOK
  <2>4. hold[t].on => lease'[t] = lease[t]
    BY <1>0, <1>5 DEF Decided, PhaseA, Control
  <2> QED
    BY <1>0, <2>1, <2>2, <2>3, <2>4, HandsQuiet
<1>6. ASSUME NEW t \in Contexts, Acquire(t) \/ StorePressure(t) \/ Unlock(t)
      PROVE  HandsInv'
  <2>1. /\ UNCHANGED <<res, hold, lease>>
        /\ pc[t] \in {"lock", "setp", "unlock"}
    BY <1>6 DEF Acquire, StorePressure, Unlock, local
  <2>2. pc'[t] \in {"slot", "match", "setp", "unlock", "idle"}
    BY <1>0, <1>6 DEF Acquire, StorePressure, Unlock, Return, Goto, TypeOK
  <2>3. \A u \in Contexts : u # t =>
           /\ pc'[u] = pc[u] /\ arg'[u] = arg[u] /\ idx'[u] = idx[u]
    BY <1>0, <1>6 DEF Acquire, StorePressure, Unlock, Return, Goto, local,
                      TypeOK
  <2> QED
    BY <1>0, <2>1, <2>2, <2>3, HandsQuiet
<1>7. \A t \in Contexts : idx[t] = 1 => \A r \in ResourceIds : ~Done(t, r)
  BY DEF Done, NeedIndex
(* What a step that touches no resource has to show of the context's hand. *)
<1>8. ASSUME NEW t \in Contexts,
             \A u \in Contexts : u # t =>
                /\ pc'[u] = pc[u] /\ arg'[u] = arg[u] /\ idx'[u] = idx[u]
                /\ hold'[u] = hold[u] /\ lease'[u] = lease[u],
             \A r \in ResourceIds :
                hold'[t].amount[r] = IF hold'[t].on
                                     THEN Reserves(lease'[t].op, r) ELSE 0,
             UNCHANGED res,
             \A r \in ResourceIds : InHand(t, r)' = InHand(t, r)
      PROVE  HandsInv'
  <2>1. \A r \in ResourceIds :
           /\ res'[r].kind = res[r].kind /\ InHand(t, r)' \in Nat
           /\ res'[r].reserved = res[r].reserved - InHand(t, r)
                                 + InHand(t, r)'
    BY <1>1, <1>8
  <2> QED
    BY <1>0, <1>8, <2>1, HandsMove
<1>9. ASSUME NEW t \in Contexts, FindSlot(t) \/ Match(t)
      PROVE  HandsInv'
  <2>1. /\ UNCHANGED <<res, hold, lease, arg, idx>> /\ idx[t] = 1
        /\ pc'[t] \in {"commit", "release", "unlock"}
        /\ \A u \in Contexts : u # t => pc'[u] = pc[u]
    BY <1>0, <1>9 DEF FindSlot, Match, Goto, local, Control, TypeOK
  <2>2. \A r \in ResourceIds : InHand(t, r) = hold[t].amount[r]
    BY <1>9 DEF FindSlot, Match, InHand
  <2>3. /\ FindSlot(t) => /\ ~hold[t].on /\ pc'[t] \in {"commit", "unlock"}
        /\ Match(t) => /\ hold[t].on /\ arg[t] = lease[t].op
                       /\ pc'[t] \in {"release", "unlock"}
    BY <1>0 DEF FindSlot, Match, Goto, Control, TypeOK, NoReplay
  <2>4. ASSUME NEW r \in ResourceIds
        PROVE  InHand(t, r)' = InHand(t, r)
    <3>1. ~Done(t, r)'
      BY <1>7, <2>1 DEF Done
    <3>2. hold[t].amount[r] = IF hold[t].on THEN Reserves(lease[t].op, r)
                                            ELSE 0
      BY DEF HandsInv
    <3> QED
      BY <1>9, <2>1, <2>2, <2>3, <3>1, <3>2 DEF InHand
  <2>5. \A r \in ResourceIds :
           hold'[t].amount[r] = IF hold'[t].on THEN Reserves(lease'[t].op, r)
                                               ELSE 0
    BY <2>1 DEF HandsInv
  <2> QED
    BY <1>8, <2>1, <2>4, <2>5
<1>10. ASSUME NEW t \in Contexts, Publish(t)
       PROVE  HandsInv'
  <2>1. /\ pc[t] = "publish" /\ UNCHANGED <<res, arg, idx>>
        /\ pc'[t] = "unlock"
        /\ hold'[t] = [on |-> TRUE,
                       amount |-> [r \in ResourceIds |-> Reserves(arg[t], r)]]
        /\ lease'[t].op = arg[t]
        /\ \A u \in Contexts : u # t =>
              pc'[u] = pc[u] /\ hold'[u] = hold[u] /\ lease'[u] = lease[u]
    BY <1>0, <1>10 DEF Publish, Goto, TypeOK
  <2>2. \A r \in ResourceIds : InHand(t, r)' = InHand(t, r)
    BY <2>1 DEF InHand
  <2>3. \A r \in ResourceIds :
           hold'[t].amount[r] = IF hold'[t].on THEN Reserves(lease'[t].op, r)
                                               ELSE 0
    BY <2>1
  <2> QED
    BY <1>8, <2>1, <2>2, <2>3
<1>11. ASSUME NEW t \in Contexts, ClearSlot(t)
       PROVE  HandsInv'
  <2>1. /\ pc[t] = "clear" /\ UNCHANGED <<res, arg, idx, lease>>
        /\ pc'[t] = "unlock" /\ hold'[t] = NoHold
        /\ \A u \in Contexts : u # t => pc'[u] = pc[u] /\ hold'[u] = hold[u]
    BY <1>0, <1>11 DEF ClearSlot, Goto, TypeOK
  <2>2. \A r \in ResourceIds : InHand(t, r)' = InHand(t, r)
    BY <2>1 DEF InHand, NoHold, Nothing
  <2>3. \A r \in ResourceIds :
           hold'[t].amount[r] = IF hold'[t].on THEN Reserves(lease'[t].op, r)
                                               ELSE 0
    BY <2>1 DEF NoHold, Nothing
  <2> QED
    BY <1>8, <2>1, <2>2, <2>3
<1> QED
  BY <1>0, <1>2, <1>3, <1>4, <1>5, <1>6, <1>9, <1>10, <1>11, HandsCommit,
     HandsRelease DEF Next, Step

(* With the section free, reserved is exactly the sum of the outstanding   *)
(* leases, however the contexts interleave: no commit or release is lost,  *)
(* done twice or left half done, although the two loops take one resource  *)
(* at a time.                                                              *)
THEOREM ReservedIsAlwaysHeld ==
    ASSUME NoWrap, NoReplay PROVE Spec => []ReservedIsHeld
<1>1. Init => OwnInv /\ HandsInv
  <2> SUFFICES ASSUME Init PROVE OwnInv /\ HandsInv
    OBVIOUS
  <2>1. OwnInv
    BY OwnInit
  <2>2. \A r \in ResourceIds : InHands(r) = [t \in Contexts |-> 0]
    BY DEF Init, InHands, InHand, NoHold, Nothing
  <2>3. HandsInv
    BY <2>2, SumZero, ConfiguredAssumption
       DEF Init, HandsInv, NoHold, Nothing
  <2> QED
    BY <2>1, <2>3
<1>2. OwnInv /\ HandsInv /\ [Next]_vars => OwnInv' /\ HandsInv'
  BY OwnStep, HandsStep
<1>3. OwnInv /\ HandsInv => ReservedIsHeld
  <2> SUFFICES ASSUME OwnInv, HandsInv, lock = NoContext, NEW r \in ResourceIds
               PROVE  res[r].reserved =
                        SumOf([t \in Contexts |-> hold[t].amount[r]])
    BY DEF ReservedIsHeld
  <2>1. \A t \in Contexts : pc[t] \notin InSection
    BY PreemptAssumption DEF OwnInv, Exclusive
  <2>2. InHands(r) = [t \in Contexts |-> hold[t].amount[r]]
    BY <2>1 DEF InHands, InHand, InSection
  <2> QED
    BY <2>2 DEF HandsInv
<1> QED
  BY <1>1, <1>2, <1>3, PTL DEF Spec

=============================================================================
