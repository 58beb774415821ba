-------------------------- MODULE LoxAdaptersProofs --------------------------
(***************************************************************************)
(* Theorems about LoxAdapters for every number of instances, every         *)
(* sequence of attach, init and deinit, and every interleaving of the      *)
(* pressure calls.                                                         *)
(***************************************************************************)
EXTENDS LoxAdapters, TLAPS

-----------------------------------------------------------------------------
(* Types. *)

Call == [at : {"idle", "health", "publish"}, budget : Budgets \cup {NoHook},
         value : Nat]

Types ==
    /\ live \in [Budgets -> BOOLEAN]
    /\ hook \in [Budgets -> Adapters \cup {NoHook}]
    /\ ctx \in [Adapters -> AttachCalls \cup {NoAttach}]
    /\ health \in HealthCalls \cup {Unhealthy}
    /\ pct \in Levels
    /\ pending \in BOOLEAN
    /\ pressure \in [Budgets -> Pressures]
    /\ told \in [Budgets -> Nat]
    /\ call \in [Contexts -> Call]
    /\ asked \in [Budgets -> AttachCalls \cup {NoAttach}]
    /\ source \in [Budgets -> {"init", "app", "health", "bus"}]
    /\ \A t \in Contexts : call[t].at = "publish" => call[t].budget \in Budgets

(* Every percentage maps to a pressure.                                    *)
LEMMA MappedType ==
    ASSUME NEW x, NEW p
    PROVE  Mapped(x, p) \in Pressures
<1>1. {SURVIVAL, CRITICAL, ELEVATED, NORMAL} \subseteq Pressures
  BY DEF Pressures, NORMAL, ELEVATED, CRITICAL, SURVIVAL, LOCKDOWN
<1> QED
  BY <1>1 DEF Mapped

(* An attach call is not the absence of one, nor is a health call.         *)
LEMMA CallsDiffer ==
    /\ \A c \in AttachCalls : c # NoAttach
    /\ \A c \in HealthCalls : c # Unhealthy
<1>1. NoAttach.adapter = NoHook /\ Unhealthy.budget = NoHook
  BY DEF NoAttach, Unhealthy
<1> QED
  BY <1>1, AdaptersAssumption

(* The initial state.                                                      *)
LEMMA TypesInit == Init => Types
<1> SUFFICES ASSUME Init PROVE Types
  OBVIOUS
<1>1. NORMAL \in Pressures /\ NORMAL \in Nat
  BY DEF NORMAL, LOCKDOWN, Pressures
<1>2. NoCall \in Call /\ NoCall.at # "publish"
  BY DEF NoCall, Call
<1> QED
  BY <1>1, <1>2 DEF Init, Types

(* What the callback of the health monitor leaves in the context's call.   *)
LEMMA ReadHealthCall ==
    ASSUME Types, NEW t \in Contexts, ReadHealth(t)
    PROVE  /\ call' \in [Contexts -> Call]
           /\ call'[t].at = "health" /\ call'[t].value = pct
           /\ \A u \in Contexts : u # t => call'[u] = call[u]
<1> DEFINE x == [NoCall EXCEPT !.at = "health", !.value = pct]
<1>1. pct \in Nat
  BY AdaptersAssumption DEF Types
<1>2. x \in Call /\ x.at = "health" /\ x.value = pct
  BY <1>1 DEF NoCall, Call
<1>3. call' = [call EXCEPT ![t] = x]
  BY DEF ReadHealth
<1> HIDE DEF x
<1> QED
  BY <1>2, <1>3 DEF Types

LEMMA TypesStep ==
    ASSUME Types, [Next]_vars
    PROVE  Types'
<1>1. CASE UNCHANGED vars
  BY <1>1 DEF Types, vars
<1>2. NORMAL \in Pressures /\ Pressures \subseteq Nat
  BY DEF NORMAL, LOCKDOWN, Pressures
<1>3. NoCall \in Call /\ NoCall.at = "idle"
  BY DEF NoCall, Call
<1>4. ASSUME NEW b \in Budgets, InitBudget(b) \/ Deinit(b)
      PROVE  Types'
  <2>1. CASE InitBudget(b)
    BY <1>2, <2>1 DEF InitBudget, Types
  <2>2. CASE Deinit(b)
    BY <2>2 DEF Deinit, hookVars, Types
  <2> QED
    BY <1>4, <2>1, <2>2
<1>5. ASSUME NEW c \in AttachCalls, SetDecisionHook(c)
      PROVE  Types'
  <2>1. c.adapter \in Adapters /\ c.budget \in Budgets
    BY AdaptersAssumption
  <2>2. hook' \in [Budgets -> Adapters \cup {NoHook}]
    BY <1>5, <2>1 DEF SetDecisionHook, Types
  <2>3. asked' \in [Budgets -> AttachCalls \cup {NoAttach}]
    BY <1>5 DEF SetDecisionHook, Types
  <2>4. ctx' \in [Adapters -> AttachCalls \cup {NoAttach}]
    BY <1>5, <2>1 DEF SetDecisionHook, Types
  <2> QED
    BY <1>5, <2>2, <2>3, <2>4 DEF SetDecisionHook, Types
<1>6. ASSUME NEW c \in HealthCalls, MicrohealthAttach(c)
      PROVE  Types'
  <2>1. Main \in Contexts /\ ReadHealth(Main)
    BY <1>6, AdaptersAssumption DEF MicrohealthAttach
  <2>2. call' \in [Contexts -> Call] /\ call'[Main].at = "health"
        /\ \A u \in Contexts : u # Main => call'[u] = call[u]
    BY <2>1, ReadHealthCall
  <2> QED
    BY <1>6, <2>2 DEF MicrohealthAttach, hookVars, Types
<1>7. ASSUME NEW p \in Levels, HealthChange(p)
      PROVE  Types'
  BY <1>7 DEF HealthChange, hookVars, Types
<1>8. CASE Callback
  <2>1. Monitor \in Contexts /\ ReadHealth(Monitor)
    BY <1>8, AdaptersAssumption DEF Callback
  <2>2. call' \in [Contexts -> Call] /\ call'[Monitor].at = "health"
        /\ \A u \in Contexts : u # Monitor => call'[u] = call[u]
    BY <2>1, ReadHealthCall
  <2> QED
    BY <1>8, <2>2 DEF Callback, hookVars, Types
<1>9. ASSUME NEW b \in Budgets, NEW p \in Pressures, NEW from,
             from \in {"app", "health", "bus"}, PressureSet(b, p, from)
      PROVE  /\ pressure' \in [Budgets -> Pressures]
             /\ source' \in [Budgets -> {"init", "app", "health", "bus"}]
  BY <1>9 DEF PressureSet, Types
<1>10. ASSUME NEW b \in Budgets, NEW p \in PressureCalls, SetPressure(b, p)
       PROVE  Types'
  <2>1. p \in Pressures
    BY AdaptersAssumption
  <2> QED
    BY <1>9, <1>10, <2>1 DEF SetPressure, hookVars, Types
<1>11. ASSUME NEW t \in Contexts, NEW b \in Budgets, NEW p \in PressureCalls,
              MicrobusSetPressure(t, b, p)
       PROVE  Types'
  <2> DEFINE x == [at |-> "publish", budget |-> b, value |-> p]
  <2>1. p \in Pressures
    BY AdaptersAssumption
  <2>2. x \in Call /\ x.budget = b
    BY <1>2, <2>1 DEF Call
  <2>3. call' = [call EXCEPT ![t] = x]
    BY <1>11 DEF MicrobusSetPressure
  <2> HIDE DEF x
  <2>4. /\ call' \in [Contexts -> Call]
        /\ \A u \in Contexts : call'[u].at = "publish" =>
                                  call'[u].budget \in Budgets
    BY <2>2, <2>3 DEF Types
  <2> QED
    BY <1>9, <1>11, <2>1, <2>4 DEF MicrobusSetPressure, hookVars, Types
<1>12. ASSUME NEW t \in Contexts, ApplyHealth(t)
       PROVE  Types'
  <2>1. /\ pressure' \in [Budgets -> Pressures]
        /\ source' \in [Budgets -> {"init", "app", "health", "bus"}]
    BY <1>12, MappedType DEF ApplyHealth, PressureSet, Types
  <2> QED
    BY <1>3, <1>12, <2>1 DEF ApplyHealth, hookVars, Types
<1>13. ASSUME NEW t \in Contexts, PublishChange(t)
       PROVE  Types'
  <2>1. call[t].value \in Nat
    BY DEF Types, Call
  <2> QED
    BY <1>3, <1>13, <2>1 DEF PublishChange, hookVars, Types
<1> QED
  BY <1>1, <1>4, <1>5, <1>6, <1>7, <1>8, <1>10, <1>11, <1>12, <1>13
     DEF Next, LoxguardAttach, MicrobusAttach, MicrologAttach, NvlogAttach

-----------------------------------------------------------------------------
(* Hooks.  While no second attach has taken an adapter's one context away, *)
(* the hook of an instance is that of the adapter attached last, and its   *)
(* context is that attach.                                                 *)

HooksInv ==
    \A b \in Budgets : live[b] /\ b \notin again =>
       \/ asked[b] = NoAttach /\ hook[b] = NoHook
       \/ /\ asked[b] \in AttachCalls /\ asked[b].budget = b
          /\ hook[b] = asked[b].adapter /\ ctx[hook[b]] = asked[b]

LEMMA HooksStep ==
    ASSUME Types, HooksInv, [Next]_vars
    PROVE  HooksInv'
<1>1. CASE UNCHANGED <<live, hookVars>>
  BY <1>1 DEF HooksInv, hookVars
<1>2. ASSUME NEW b \in Budgets, InitBudget(b)
      PROVE  HooksInv'
  BY <1>2 DEF InitBudget, HooksInv, Types
<1>3. ASSUME NEW b \in Budgets, Deinit(b)
      PROVE  HooksInv'
  BY <1>3 DEF Deinit, hookVars, HooksInv, Types
<1>4. ASSUME NEW c \in AttachCalls, SetDecisionHook(c)
      PROVE  HooksInv'
  <2>1. c.adapter \in Adapters /\ c.budget \in Budgets /\ NoHook \notin Adapters
    BY AdaptersAssumption
  <2>2. /\ ctx' = [ctx EXCEPT ![c.adapter] = c]
        /\ ctx \in [Adapters -> AttachCalls \cup {NoAttach}]
        /\ UNCHANGED live
    BY <1>4 DEF SetDecisionHook, Types
  <2>3. ASSUME NEW b \in Budgets, live[b], b \notin again'
        PROVE  \/ asked'[b] = NoAttach /\ hook'[b] = NoHook
               \/ /\ asked'[b] \in AttachCalls /\ asked'[b].budget = b
                  /\ hook'[b] = asked'[b].adapter /\ ctx'[hook'[b]] = asked'[b]
    <3>1. CASE b = c.budget
      <4>1. asked'[b] = c /\ hook'[b] = c.adapter
        BY <1>4, <2>3, <3>1 DEF SetDecisionHook
      <4> QED
        BY <2>1, <2>2, <3>1, <4>1
    <3>2. CASE b # c.budget
      <4>1. /\ asked'[b] = asked[b] /\ hook'[b] = hook[b]
            /\ b \notin again /\ hook[b] # c.adapter
        BY <1>4, <2>3, <3>2 DEF SetDecisionHook
      <4>2. CASE asked[b] = NoAttach /\ hook[b] = NoHook
        BY <4>1, <4>2
      <4>3. CASE asked[b] # NoAttach \/ hook[b] # NoHook
        <5>1. /\ asked[b] \in AttachCalls /\ asked[b].budget = b
              /\ hook[b] = asked[b].adapter /\ ctx[hook[b]] = asked[b]
          BY <2>3, <4>1, <4>3 DEF HooksInv
        <5>2. hook[b] \in Adapters
          BY <5>1, AdaptersAssumption
        <5>3. ctx'[hook[b]] = ctx[hook[b]]
          BY <2>2, <4>1, <5>2
        <5> QED
          BY <4>1, <5>1, <5>3
      <4> QED
        BY <4>2, <4>3
    <3> QED
      BY <3>1, <3>2
  <2> QED
    BY <2>2, <2>3 DEF HooksInv
<1>5. CASE \/ \E c \in HealthCalls : MicrohealthAttach(c)
           \/ \E p \in Levels : HealthChange(p)
           \/ Callback
           \/ \E b \in Budgets, p \in PressureCalls : SetPressure(b, p)
           \/ \E t \in Contexts, b \in Budgets, p \in PressureCalls :
                 MicrobusSetPressure(t, b, p)
           \/ \E t \in Contexts : ApplyHealth(t) \/ PublishChange(t)
  <2>1. UNCHANGED <<live, hookVars>>
    BY <1>5 DEF MicrohealthAttach, HealthChange, Callback, SetPressure,
                MicrobusSetPressure, ApplyHealth, PublishChange
  <2> QED
    BY <1>1, <2>1
<1>6. CASE UNCHANGED vars
  BY <1>1, <1>6 DEF vars, hookVars
<1> QED
  BY <1>2, <1>3, <1>4, <1>5, <1>6
     DEF Next, LoxguardAttach, MicrobusAttach, MicrologAttach, NvlogAttach

(* A decision of an initialised instance reaches the sink of the adapter   *)
(* attached to it last, and no other, whatever was attached, deinitialised *)
(* and initialised in between, unless that adapter's one static context    *)
(* was taken by a later attach.                                            *)
THEOREM DecisionsAlwaysReachSink == Spec => []DecisionsReachSink
<1>1. Init => Types /\ HooksInv
  BY TypesInit DEF Init, HooksInv
<1>2. Types /\ HooksInv /\ [Next]_vars => Types' /\ HooksInv'
  BY TypesStep, HooksStep
<1>3. Types /\ HooksInv => DecisionsReachSink
  <2> SUFFICES ASSUME Types, HooksInv,
                      NEW b \in Budgets, live[b], b \notin again,
                      NEW action \in Actions
               PROVE  Hears(b, action) =
                        IF asked[b] # NoAttach /\ Wanted(asked[b], action)
                        THEN {asked[b].sink} ELSE {}
    BY DEF DecisionsReachSink
  <2>1. CASE asked[b] = NoAttach /\ hook[b] = NoHook
    <3>1. hook[b] \notin {"loxguard", "microbus", "microlog", "nvlog"}
      BY <2>1, AdaptersAssumption DEF Adapters
    <3> QED
      BY <2>1, <3>1 DEF Hears
  <2>2. CASE /\ asked[b] \in AttachCalls /\ asked[b].budget = b
             /\ hook[b] = asked[b].adapter /\ ctx[hook[b]] = asked[b]
    <3>1. asked[b] # NoAttach /\ hook[b] \in Adapters
      BY <2>2, CallsDiffer, AdaptersAssumption
    <3> DEFINE x == asked[b]
    <3>2. x.adapter = hook[b] /\ ctx[hook[b]] = x /\ live[x.budget]
      BY <2>2
    <3> HIDE DEF x
    <3>3. Wanted(x, action) <=>
             \/ hook[b] = "loxguard" /\ LoxguardPasses(x, action)
             \/ hook[b] = "microbus" /\ MicrobusPasses(x, action)
             \/ hook[b] = "microlog" /\ MicrologPasses(x, action)
             \/ hook[b] = "nvlog"    /\ NvlogPasses(x, action)
      BY <3>1, <3>2, Zenon DEF Wanted, LoxguardPasses, MicrobusPasses,
         MicrologPasses, NvlogPasses, Adapters
    <3>4. Hears(b, action) = IF Wanted(x, action) THEN {x.sink} ELSE {}
      BY <3>2, <3>3 DEF Hears
    <3> QED
      BY <3>1, <3>4 DEF x
  <2> QED
    BY <2>1, <2>2 DEF HooksInv
<1> QED
  BY <1>1, <1>2, <1>3, PTL DEF Spec

-----------------------------------------------------------------------------
(* Pressure.  Of the calls of one kind that are under way, the one that    *)
(* began last is not late.  It has read the present percentage, unless the *)
(* monitor will call back again, or announces the present pressure; once   *)
(* it has finished the pressure is settled, until a late one finishes.     *)

HealthInv ==
    /\ pending => health # Unhealthy
    /\ \A t \in Contexts : InHealth(t) => health # Unhealthy
    /\ \A t, u \in Contexts :
          InHealth(t) /\ InHealth(u) /\ t # u => t \in late \/ u \in late
    /\ ~pending => \A t \in Contexts :
          InHealth(t) /\ t \notin late => call[t].value = pct
    /\ ~pending /\ "health" \notin crossed =>
          \A b \in Budgets :
             /\ live[b] /\ source[b] = "health" /\ health.budget = b
             /\ \A t \in Contexts : InHealth(t) => t \in late
             => pressure[b] = Mapped(health, pct)

BusInv ==
    \A b \in Budgets :
       /\ \A t, u \in Contexts :
             Announces(t, b) /\ Announces(u, b) /\ t # u
                => t \in late \/ u \in late
       /\ live[b] /\ source[b] = "bus" =>
             /\ \A t \in Contexts :
                   Announces(t, b) /\ t \notin late => call[t].value = pressure[b]
             /\ /\ b \notin crossed
                /\ \A t \in Contexts : Announces(t, b) => t \in late
                => told[b] = pressure[b]

(* Reading the percentage makes every other callback under way late.       *)
LEMMA HealthRead ==
    ASSUME Types, HealthInv, NEW t \in Contexts, ReadHealth(t),
           health' # Unhealthy, UNCHANGED pct
    PROVE  HealthInv'
<1>1. /\ call'[t].at = "health" /\ call'[t].value = pct
      /\ \A u \in Contexts : u # t => call'[u] = call[u]
  BY ReadHealthCall
<1>2. /\ t \notin late'
      /\ \A u \in Contexts : InHealth(u) /\ u # t => u \in late'
  BY DEF ReadHealth, Begun
<1>3. InHealth(t)' /\ \A u \in Contexts : u # t => (InHealth(u)' <=> InHealth(u))
  BY <1>1 DEF InHealth
<1> QED
  BY <1>1, <1>2, <1>3 DEF HealthInv

LEMMA HealthStep ==
    ASSUME Types, HealthInv, [Next]_vars
    PROVE  HealthInv'
<1>1. CASE UNCHANGED vars
  BY <1>1 DEF HealthInv, InHealth, vars
<1>2. ASSUME NEW b \in Budgets, InitBudget(b) \/ Deinit(b)
      PROVE  HealthInv'
  BY <1>2 DEF InitBudget, Deinit, HealthInv, InHealth, Types
<1>3. ASSUME NEW c \in AttachCalls, SetDecisionHook(c)
      PROVE  HealthInv'
  BY <1>3 DEF SetDecisionHook, HealthInv, InHealth
<1>4. ASSUME NEW c \in HealthCalls, MicrohealthAttach(c)
      PROVE  HealthInv'
  <2>1. /\ health' = c /\ UNCHANGED pct /\ c # Unhealthy
        /\ Main \in Contexts /\ ReadHealth(Main)
    BY <1>4, CallsDiffer, AdaptersAssumption DEF MicrohealthAttach
  <2> QED
    BY <2>1, HealthRead
<1>5. ASSUME NEW p \in Levels, HealthChange(p)
      PROVE  HealthInv'
  <2>1. /\ pct' = p /\ pending' = (health # Unhealthy)
        /\ UNCHANGED <<live, health, pressure, call, source, late, crossed>>
    BY <1>5 DEF HealthChange
  <2>2. CASE health # Unhealthy
    BY <2>1, <2>2 DEF HealthInv, InHealth
  <2>3. CASE health = Unhealthy
    <3>1. \A b \in Budgets : health.budget # b
      BY <2>3, AdaptersAssumption DEF Unhealthy
    <3> QED
      BY <2>1, <2>3, <3>1 DEF HealthInv, InHealth
  <2> QED
    BY <2>2, <2>3
<1>6. CASE Callback
  <2>1. /\ pending /\ ~pending' /\ UNCHANGED <<health, pct>>
        /\ Monitor \in Contexts /\ ReadHealth(Monitor)
    BY <1>6, AdaptersAssumption DEF Callback
  <2>2. health' # Unhealthy
    BY <2>1 DEF HealthInv
  <2> QED
    BY <2>1, <2>2, HealthRead
<1>7. ASSUME NEW t \in Contexts, ApplyHealth(t)
      PROVE  HealthInv'
  <2>1. /\ UNCHANGED <<live, health, pct, pending>>
        /\ late' = late \ {t}
        /\ call'[t].at = "idle" /\ InHealth(t)
        /\ \A u \in Contexts : u # t => call'[u] = call[u]
    BY <1>7 DEF ApplyHealth, Finished, Types, NoCall
  <2>2. \A u \in Contexts :
           InHealth(u)' => /\ InHealth(u) /\ u # t /\ call'[u] = call[u]
                           /\ u \in late' <=> u \in late
    BY <2>1 DEF InHealth
  <2>3. ASSUME ~pending, "health" \notin crossed', NEW b \in Budgets,
               live[b], health.budget = b
        PROVE  pressure'[b] = Mapped(health, pct)
    <3>1. t \notin late
      BY <1>7, <2>3 DEF ApplyHealth, Finished
    <3>2. call[t].value = pct
      BY <2>1, <2>3, <3>1 DEF HealthInv
    <3> QED
      BY <1>7, <2>3, <3>2 DEF ApplyHealth, PressureSet, Types
  <2> QED
    BY <2>1, <2>2, <2>3 DEF HealthInv
<1>8. ASSUME UNCHANGED <<live, health, pct, pending>>,
             "health" \in crossed' <=> "health" \in crossed,
             NEW t \in Contexts, ~InHealth(t), ~InHealth(t)',
             \A u \in Contexts : u # t => call'[u] = call[u],
             \A u \in Contexts : InHealth(u) => (u \in late' <=> u \in late),
             \A b \in Budgets : \/ source'[b] # "health"
                                \/ /\ source'[b] = source[b]
                                   /\ pressure'[b] = pressure[b]
      PROVE  HealthInv'
  <2>1. \A u \in Contexts :
           /\ InHealth(u)' <=> InHealth(u)
           /\ InHealth(u) => call'[u] = call[u] /\ (u \in late' <=> u \in late)
    BY <1>8 DEF InHealth
  <2> QED
    BY <1>8, <2>1 DEF HealthInv
<1>9. ASSUME NEW b \in Budgets, NEW p, SetPressure(b, p)
      PROVE  HealthInv'
  <2>1. \A a \in Budgets : \/ source'[a] # "health"
                           \/ /\ source'[a] = source[a]
                              /\ pressure'[a] = pressure[a]
    BY <1>9 DEF SetPressure, PressureSet, Types
  <2>2. /\ Main \in Contexts /\ ~InHealth(Main) /\ UNCHANGED call
        /\ UNCHANGED <<live, health, pct, pending, late, crossed>>
    BY <1>9, AdaptersAssumption DEF SetPressure, Free, InHealth
  <2> QED
    BY <1>8, <2>1, <2>2 DEF InHealth
<1>10. ASSUME NEW t \in Contexts, NEW b \in Budgets, NEW p,
              MicrobusSetPressure(t, b, p)
       PROVE  HealthInv'
  <2>1. \A a \in Budgets : \/ source'[a] # "health"
                           \/ /\ source'[a] = source[a]
                              /\ pressure'[a] = pressure[a]
    BY <1>10 DEF MicrobusSetPressure, PressureSet, Types
  <2>2. /\ ~InHealth(t) /\ UNCHANGED <<live, health, pct, pending>>
        /\ call'[t].at = "publish"
        /\ \A u \in Contexts : u # t => call'[u] = call[u]
    BY <1>10 DEF MicrobusSetPressure, Free, InHealth, Types
  <2>3. UNCHANGED crossed
    BY <1>10 DEF MicrobusSetPressure, Begun
  <2>4. \A u \in Contexts : InHealth(u) => (u \in late' <=> u \in late)
    BY <1>10, <2>2 DEF MicrobusSetPressure, Begun, InHealth, Announces
  <2> QED
    BY <1>8, <2>1, <2>2, <2>3, <2>4 DEF InHealth
<1>11. ASSUME NEW t \in Contexts, PublishChange(t)
       PROVE  HealthInv'
  <2>1. /\ ~InHealth(t) /\ call'[t].at = "idle"
        /\ UNCHANGED <<live, health, pct, pending, pressure, source>>
        /\ \A u \in Contexts : u # t => call'[u] = call[u]
    BY <1>11 DEF PublishChange, InHealth, Types, NoCall
  <2>2. "health" \in crossed' <=> "health" \in crossed
    BY <1>11, AdaptersAssumption DEF PublishChange, Finished, Types
  <2>3. \A u \in Contexts : InHealth(u) => (u \in late' <=> u \in late)
    BY <1>11, <2>1 DEF PublishChange, Finished
  <2> QED
    BY <1>8, <2>1, <2>2, <2>3 DEF InHealth
<1> QED
  BY <1>1, <1>2, <1>3, <1>4, <1>5, <1>6, <1>7, <1>9, <1>10, <1>11
     DEF Next, LoxguardAttach, MicrobusAttach, MicrologAttach, NvlogAttach

LEMMA BusStep ==
    ASSUME Types, BusInv, [Next]_vars
    PROVE  BusInv'
<1>1. CASE UNCHANGED vars
  BY <1>1 DEF BusInv, Announces, vars
(* A step that neither announces nor ends an announcement, and leaves      *)
(* alone the pressure of instances whose pressure came through microbus.   *)
<1>2. ASSUME UNCHANGED told,
             \A u \in Contexts, b \in Budgets :
                /\ Announces(u, b)' <=> Announces(u, b)
                /\ Announces(u, b) => /\ call'[u] = call[u]
                                      /\ u \in late' <=> u \in late,
             \A b \in Budgets : b \in crossed' <=> b \in crossed,
             \A b \in Budgets :
                \/ ~live'[b] \/ source'[b] # "bus"
                \/ /\ live'[b] = live[b] /\ source'[b] = source[b]
                   /\ pressure'[b] = pressure[b]
      PROVE  BusInv'
  BY <1>2 DEF BusInv
<1>3. ASSUME NEW b \in Budgets, InitBudget(b) \/ Deinit(b)
      PROVE  BusInv'
  <2>1. /\ UNCHANGED <<told, call, late, crossed>>
        /\ \A a \in Budgets :
                \/ ~live'[a] \/ source'[a] # "bus"
                \/ /\ live'[a] = live[a] /\ source'[a] = source[a]
                   /\ pressure'[a] = pressure[a]
    BY <1>3 DEF InitBudget, Deinit, Types
  <2> QED
    BY <1>2, <2>1 DEF Announces
<1>4. ASSUME NEW c \in AttachCalls, SetDecisionHook(c)
      PROVE  BusInv'
  BY <1>4 DEF SetDecisionHook, BusInv, Announces
<1>5. ASSUME NEW t \in Contexts, ReadHealth(t), Free(t),
             UNCHANGED <<live, pressure, told, source>>
      PROVE  BusInv'
  <2>1. /\ call'[t].at = "health"
        /\ \A u \in Contexts : u # t => call'[u] = call[u]
    BY <1>5, ReadHealthCall
  <2>2. /\ UNCHANGED crossed
        /\ \A u \in Contexts : ~InHealth(u) /\ u # t =>
                                 (u \in late' <=> u \in late)
    BY <1>5 DEF ReadHealth, Begun
  <2>3. \A b \in Budgets : ~Announces(t, b) /\ ~Announces(t, b)'
    BY <1>5, <2>1 DEF Announces, Free
  <2>4. \A u \in Contexts, b \in Budgets :
           /\ Announces(u, b)' <=> Announces(u, b)
           /\ Announces(u, b) => call'[u] = call[u] /\ (u \in late' <=> u \in late)
    BY <2>1, <2>2, <2>3 DEF Announces, InHealth
  <2> QED
    BY <1>2, <1>5, <2>2, <2>4
<1>6. ASSUME NEW c \in HealthCalls, MicrohealthAttach(c)
      PROVE  BusInv'
  BY <1>5, <1>6, AdaptersAssumption DEF MicrohealthAttach
<1>7. ASSUME NEW p \in Levels, HealthChange(p)
      PROVE  BusInv'
  BY <1>7 DEF HealthChange, BusInv, Announces
<1>8. CASE Callback
  BY <1>5, <1>8, AdaptersAssumption DEF Callback
<1>9. ASSUME NEW b \in Budgets, NEW p, SetPressure(b, p)
      PROVE  BusInv'
  <2>1. /\ UNCHANGED <<told, call, late, crossed>>
        /\ \A a \in Budgets :
                \/ ~live'[a] \/ source'[a] # "bus"
                \/ /\ live'[a] = live[a] /\ source'[a] = source[a]
                   /\ pressure'[a] = pressure[a]
    BY <1>9 DEF SetPressure, PressureSet, Types
  <2> QED
    BY <1>2, <2>1 DEF Announces
<1>10. ASSUME NEW t \in Contexts, ApplyHealth(t)
       PROVE  BusInv'
  <2>1. /\ UNCHANGED <<told, live>> /\ call[t].at = "health"
        /\ call'[t].at = "idle" /\ late' = late \ {t}
        /\ \A u \in Contexts : u # t => call'[u] = call[u]
        /\ \A b \in Budgets : b \in crossed' <=> b \in crossed
    BY <1>10, AdaptersAssumption
       DEF ApplyHealth, Finished, InHealth, Types, NoCall
  <2>2. \A a \in Budgets :
           \/ ~live'[a] \/ source'[a] # "bus"
           \/ /\ live'[a] = live[a] /\ source'[a] = source[a]
              /\ pressure'[a] = pressure[a]
    BY <1>10, <2>1 DEF ApplyHealth, PressureSet, Types
  <2>3. \A u \in Contexts, b \in Budgets :
           /\ Announces(u, b)' <=> Announces(u, b)
           /\ Announces(u, b) => call'[u] = call[u] /\ (u \in late' <=> u \in late)
    BY <2>1 DEF Announces
  <2> QED
    BY <1>2, <2>1, <2>2, <2>3
<1>11. ASSUME NEW t \in Contexts, NEW b \in Budgets, NEW p,
              MicrobusSetPressure(t, b, p)
       PROVE  BusInv'
  <2>1. /\ UNCHANGED <<live, told>> /\ live[b]
        /\ \A a \in Budgets : ~Announces(t, a)
        /\ call'[t].at = "publish" /\ call'[t].budget = b
        /\ call'[t].value = p
        /\ \A u \in Contexts : u # t => call'[u] = call[u]
        /\ pressure'[b] = p
        /\ \A a \in Budgets : a # b => /\ pressure'[a] = pressure[a]
                                       /\ source'[a] = source[a]
    BY <1>11 DEF MicrobusSetPressure, PressureSet, Free, Announces, Types
  <2>2. UNCHANGED crossed /\ t \notin late'
    BY <1>11 DEF MicrobusSetPressure, Begun
  <2>3. \A u \in Contexts, a \in Budgets : u # t /\ Announces(u, a) =>
           IF a = b THEN u \in late' ELSE u \in late' <=> u \in late
    BY <1>11 DEF MicrobusSetPressure, Begun, Announces
  <2>4. /\ \A a \in Budgets : Announces(t, a)' <=> a = b
        /\ \A u \in Contexts, a \in Budgets :
              u # t => (Announces(u, a)' <=> Announces(u, a))
    BY <2>1 DEF Announces
  <2> QED
    BY <2>1, <2>2, <2>3, <2>4 DEF BusInv
<1>12. ASSUME NEW t \in Contexts, PublishChange(t)
       PROVE  BusInv'
  <2> DEFINE b == call[t].budget
  <2>1. /\ b \in Budgets /\ Announces(t, b)
        /\ UNCHANGED <<live, pressure, source>>
        /\ call'[t].at = "idle" /\ late' = late \ {t}
        /\ crossed' = IF t \in late THEN crossed \cup {b} ELSE crossed \ {b}
        /\ \A u \in Contexts : u # t => call'[u] = call[u]
        /\ told'[b] = call[t].value
        /\ \A a \in Budgets : a # b => told'[a] = told[a]
    BY <1>12 DEF PublishChange, Finished, Announces, Types, NoCall
  <2>2. \A a \in Budgets : Announces(t, a) <=> a = b
    BY <2>1 DEF Announces
  <2>3. /\ \A a \in Budgets : ~Announces(t, a)'
        /\ \A u \in Contexts, a \in Budgets :
              u # t => (Announces(u, a)' <=> Announces(u, a))
    BY <2>1 DEF Announces
  <2> HIDE DEF b
  <2> QED
    BY <2>1, <2>2, <2>3 DEF BusInv
<1> QED
  BY <1>1, <1>3, <1>4, <1>6, <1>7, <1>8, <1>9, <1>10, <1>11, <1>12
     DEF Next, LoxguardAttach, MicrobusAttach, MicrologAttach, NvlogAttach

(* When no pressure call is under way the last one has had its say:        *)
(* pressure from the health monitor is that of its present percentage and  *)
(* thresholds, pressure through microbus is the one announced, unless a    *)
(* call finished after one that began later.  Any number of contexts.      *)
THEOREM PressureAlwaysSettled == Spec => []PressureSettled
<1>1. Init => Types /\ HealthInv /\ BusInv
  <2> SUFFICES ASSUME Init PROVE HealthInv /\ BusInv
    BY TypesInit
  <2>1. /\ \A t \in Contexts : ~InHealth(t)
        /\ \A t \in Contexts, b \in Budgets : ~Announces(t, b)
        /\ ~pending /\ \A b \in Budgets : ~live[b]
    BY DEF Init, InHealth, Announces, NoCall
  <2> QED
    BY <2>1 DEF HealthInv, BusInv
<1>2. Types /\ HealthInv /\ BusInv /\ [Next]_vars
        => Types' /\ HealthInv' /\ BusInv'
  BY TypesStep, HealthStep, BusStep
<1>3. HealthInv /\ BusInv => PressureSettled
  BY DEF HealthInv, BusInv, PressureSettled, Announces
<1> QED
  BY <1>1, <1>2, <1>3, PTL DEF Spec

=============================================================================
