----------------------------- MODULE LoxAdapters -----------------------------
(***************************************************************************)
(* The adapters of adapters/*: four that pass decisions on through the     *)
(* single decision hook of an instance (loxguard, microbus, microlog,      *)
(* nvlog), and two that move its pressure (microhealth, microbus).         *)
(*                                                                         *)
(* Each adapter keeps one static context for the whole program, whatever   *)
(* the number of instances.  None takes the critical section: a pressure   *)
(* call is two steps, and two contexts of the application can cross them.  *)
(* The other libraries (the sinks, the health monitor) are external.       *)
(***************************************************************************)
EXTENDS LoxDecision

CONSTANTS
    Budgets,        \* the instances of the program
    NoHook,         \* decision_hook is NULL
    AttachCalls,    \* arguments of the attach functions
    Levels,         \* what microhealth_pressure_pct may return
    HealthCalls,    \* arguments of loxbudget_microhealth_attach
    PressureCalls,  \* arguments of the two set_pressure functions
    Contexts,       \* the contexts of the program, ...
    Main,           \* ... the one that configures ...
    Monitor         \* ... and the one the health monitor calls back in

Adapters  == {"loxguard", "microbus", "microlog", "nvlog"}
Unhealthy == [budget |-> NoHook]
NoAttach  == [adapter |-> NoHook]

ASSUME AdaptersAssumption ==
    /\ NoHook \notin Adapters \cup Budgets /\ "health" \notin Budgets
    /\ \A c \in AttachCalls : c.adapter \in Adapters /\ c.budget \in Budgets
    /\ Levels \subseteq 0 .. 100
    /\ \A c \in HealthCalls :
         /\ c.budget \in Budgets
         /\ {c.elevated, c.critical, c.survival} \subseteq Nat
    /\ PressureCalls \subseteq Pressures
    /\ {Main, Monitor} \subseteq Contexts /\ Main # Monitor

VARIABLES
    live,      \* magic # 0
    hook,      \* decision_hook: the adapter whose callback it is
    ctx,       \* the static context of each adapter: its last attach
    health,    \* the static context of microhealth, and its subscription
    pct,       \* the monitor's percentage
    pending,   \* the monitor has not yet called back after a change
    pressure,  \* budget->pressure
    told,      \* the pressure microbus last announced
    call,      \* the pressure call a context is in the middle of
    asked,     \* history: the last attach that installed its hook
    again,     \* history: instances whose adapter was attached again
    source,    \* history: what set the pressure last
    late,      \* history: contexts in a pressure call that another call of
               \* the same kind has begun after
    crossed    \* history: where such a call finished last: the health
               \* callbacks ("health"), the changes of an instance

hookVars  == <<hook, ctx, asked, again>>
vars == <<live, hook, ctx, health, pct, pending, pressure, told, call, asked,
          again, source, late, crossed>>

-----------------------------------------------------------------------------
(* Decisions. *)

(* The order of loxbudget_action_t, which is also nvlog's severity. *)
Severity(action) ==
    CASE action = "ALLOW_FULL"     -> 0
      [] action = "ALLOW_DEGRADED" -> 1
      [] action = "WAIT"           -> 2
      [] action = "REJECT"         -> 3
      [] action = "LOCKDOWN"       -> 4

(* Whether the callback of an adapter passes a decision on; the records of *)
(* loxguard and nvlog carry the uptime, which a snapshot of the context's  *)
(* instance gives or refuses.  (On LOCKDOWN loxguard also flushes its      *)
(* guard, which changes nothing here.)                                     *)
LoxguardPasses(x, action) == action \in {"REJECT", "LOCKDOWN"} /\ live[x.budget]
MicrobusPasses(x, action) == action \in {"REJECT", "LOCKDOWN"}
MicrologPasses(x, action) == Severity(action) >= x.min
NvlogPasses(x, action)    == Severity(action) >= x.min /\ live[x.budget]

(* The sinks that hear of a decision of b. *)
Hears(b, action) ==
    LET x == ctx[hook[b]]
    IN  IF \/ hook[b] = "loxguard" /\ LoxguardPasses(x, action)
           \/ hook[b] = "microbus" /\ MicrobusPasses(x, action)
           \/ hook[b] = "microlog" /\ MicrologPasses(x, action)
           \/ hook[b] = "nvlog"    /\ NvlogPasses(x, action)
        THEN {x.sink} ELSE {}

-----------------------------------------------------------------------------
(* Instances and hooks. *)

NoCall == [at |-> "idle", budget |-> NoHook, value |-> 0]

Init ==
    /\ live = [b \in Budgets |-> FALSE]
    /\ hook = [b \in Budgets |-> NoHook]
    /\ ctx = [a \in Adapters |-> NoAttach]
    /\ health = Unhealthy
    /\ pct \in Levels
    /\ pending = FALSE
    /\ pressure = [b \in Budgets |-> NORMAL]
    /\ told = [b \in Budgets |-> NORMAL]
    /\ call = [t \in Contexts |-> NoCall]
    /\ asked = [b \in Budgets |-> NoAttach]
    /\ again = {}
    /\ source = [b \in Budgets |-> "init"]
    /\ late = {}
    /\ crossed = {}

Free(t) == call[t].at = "idle"

(* Mutant: the hook of the life before is kept. *)
BugInitBudget(b) ==
    /\ Free(Main)
    /\ live' = [live EXCEPT ![b] = TRUE]
    /\ asked' = [asked EXCEPT ![b] = NoAttach]
    /\ pressure' = [pressure EXCEPT ![b] = NORMAL]
    /\ source' = [source EXCEPT ![b] = "init"]
    /\ again' = again \ {b}
    /\ UNCHANGED <<hook, ctx, health, pct, pending, told, call, late, crossed>>

(* loxbudget_init: the whole instance is zeroed first. *)
InitBudget(b) ==
    /\ Free(Main)
    /\ live' = [live EXCEPT ![b] = TRUE]
    /\ hook' = [hook EXCEPT ![b] = NoHook]
    /\ asked' = [asked EXCEPT ![b] = NoAttach]
    /\ pressure' = [pressure EXCEPT ![b] = NORMAL]
    /\ source' = [source EXCEPT ![b] = "init"]
    /\ again' = again \ {b}
    /\ UNCHANGED <<ctx, health, pct, pending, told, call, late, crossed>>

(* loxbudget_deinit clears the magic and nothing else. *)
Deinit(b) ==
    /\ Free(Main)
    /\ live[b]
    /\ live' = [live EXCEPT ![b] = FALSE]
    /\ UNCHANGED <<hookVars, health, pct, pending, pressure, told, call,
                   source, late, crossed>>

(* The attach functions fill the adapter's context whether or not          *)
(* set_decision_hook then refuses the instance.                            *)
SetDecisionHook(c) ==
    /\ Free(Main)
    /\ ctx' = [ctx EXCEPT ![c.adapter] = c]
    /\ hook' = [b \in Budgets |->
                  IF b = c.budget /\ live[b] THEN c.adapter ELSE hook[b]]
    /\ asked' = [b \in Budgets |->
                   IF b = c.budget /\ live[b] THEN c ELSE asked[b]]
    /\ again' = {b \in Budgets : /\ ~(b = c.budget /\ live[b])
                                 /\ b \in again \/ hook[b] = c.adapter}
    /\ UNCHANGED <<live, health, pct, pending, pressure, told, call, source,
                   late, crossed>>

LoxguardAttach(c) == c.adapter = "loxguard" /\ SetDecisionHook(c)
MicrobusAttach(c) == c.adapter = "microbus" /\ SetDecisionHook(c)
MicrologAttach(c) == c.adapter = "microlog" /\ SetDecisionHook(c)
NvlogAttach(c)    == c.adapter = "nvlog"    /\ SetDecisionHook(c)

-----------------------------------------------------------------------------
(* Pressure. *)

(* lb__mh_map_. *)
Mapped(x, p) ==
    CASE p >= x.survival -> SURVIVAL
      [] p < x.survival /\ p >= x.critical -> CRITICAL
      [] p < x.survival /\ p < x.critical /\ p >= x.elevated -> ELEVATED
      [] OTHER -> NORMAL

InHealth(t)     == call[t].at = "health"
Announces(t, b) == call[t].at = "publish" /\ call[t].budget = b

(* t begins a pressure call while those in Others are in one of its kind, *)
Begun(t, Others) == late' = (late \cup Others) \ {t} /\ UNCHANGED crossed

(* and finishes one of kind k.                                             *)
Finished(t, k) ==
    /\ crossed' = IF t \in late THEN crossed \cup {k} ELSE crossed \ {k}
    /\ late' = late \ {t}

(* lb__mh_on_change_ up to the percentage it reads. *)
ReadHealth(t) ==
    /\ call' = [call EXCEPT ![t] = [NoCall EXCEPT !.at = "health",
                                                  !.value = pct]]
    /\ Begun(t, {u \in Contexts : InHealth(u)})

(* Mutant: the new thresholds wait for the next change. *)
BugMicrohealthAttach(c) ==
    /\ Free(Main)
    /\ health' = c
    /\ UNCHANGED <<live, hookVars, pct, pending, pressure, told, call, source,
                   late, crossed>>

(* loxbudget_microhealth_attach subscribes and then runs the callback      *)
(* itself.                                                                 *)
MicrohealthAttach(c) ==
    /\ Free(Main)
    /\ health' = c
    /\ ReadHealth(Main)
    /\ UNCHANGED <<live, hookVars, pct, pending, pressure, told, source>>

(* The monitor's percentage changes; it will call its subscriber. *)
HealthChange(p) ==
    /\ p # pct
    /\ pct' = p
    /\ pending' = (health # Unhealthy)
    /\ UNCHANGED <<live, hookVars, health, pressure, told, call, source, late,
                   crossed>>

Callback ==
    /\ Free(Monitor)
    /\ pending
    /\ pending' = FALSE
    /\ ReadHealth(Monitor)
    /\ UNCHANGED <<live, hookVars, health, pct, pressure, told, source>>

(* loxbudget_set_pressure as the adapters call it. *)
PressureSet(b, p, from) ==
    /\ pressure' = [pressure EXCEPT ![b] = IF live[b] THEN p ELSE @]
    /\ source' = [source EXCEPT ![b] = IF live[b] THEN from ELSE @]

(* The rest of lb__mh_on_change_. *)
ApplyHealth(t) ==
    /\ InHealth(t)
    /\ PressureSet(health.budget, Mapped(health, call[t].value), "health")
    /\ call' = [call EXCEPT ![t] = NoCall]
    /\ Finished(t, "health")
    /\ UNCHANGED <<live, hookVars, health, pct, pending, told>>

(* The application sets the pressure without an adapter. *)
SetPressure(b, p) ==
    /\ Free(Main)
    /\ live[b]
    /\ PressureSet(b, p, "app")
    /\ UNCHANGED <<live, hookVars, health, pct, pending, told, call, late,
                   crossed>>

(* loxbudget_microbus_set_pressure changes the pressure, and then          *)
(* announces it; a refused change is not announced.                        *)
MicrobusSetPressure(t, b, p) ==
    /\ Free(t)
    /\ live[b]
    /\ PressureSet(b, p, "bus")
    /\ call' = [call EXCEPT ![t] = [at |-> "publish", budget |-> b,
                                    value |-> p]]
    /\ Begun(t, {u \in Contexts : Announces(u, b)})
    /\ UNCHANGED <<live, hookVars, health, pct, pending, told>>

PublishChange(t) ==
    /\ call[t].at = "publish"
    /\ told' = [told EXCEPT ![call[t].budget] = call[t].value]
    /\ call' = [call EXCEPT ![t] = NoCall]
    /\ Finished(t, call[t].budget)
    /\ UNCHANGED <<live, hookVars, health, pct, pending, pressure, source>>

Next ==
    \/ \E b \in Budgets : InitBudget(b) \/ Deinit(b)
    \/ \E c \in AttachCalls : \/ LoxguardAttach(c) \/ MicrobusAttach(c)
                              \/ MicrologAttach(c) \/ NvlogAttach(c)
    \/ \E c \in HealthCalls : MicrohealthAttach(c)
    \/ \E p \in Levels : HealthChange(p)
    \/ Callback
    \/ \E b \in Budgets, p \in PressureCalls : SetPressure(b, p)
    \/ \E t \in Contexts, b \in Budgets, p \in PressureCalls :
         MicrobusSetPressure(t, b, p)
    \/ \E t \in Contexts : ApplyHealth(t) \/ PublishChange(t)

Spec == Init /\ [][Next]_vars

-----------------------------------------------------------------------------
(* Properties. *)

(* What the caller of an attach function asked to hear of. *)
Wanted(c, action) ==
    IF c.adapter \in {"loxguard", "microbus"}
    THEN action \in {"REJECT", "LOCKDOWN"}
    ELSE Severity(action) >= c.min

(* A decision of an initialised instance reaches the sink of the adapter   *)
(* attached to it last, if that adapter passes such decisions on, and no   *)
(* other, across deinit and init; unless the same adapter was attached     *)
(* once more since: its one static context then belongs to the later call, *)
(* also when that call's instance was not initialised and refused it.      *)
DecisionsReachSink ==
    \A b \in Budgets : live[b] /\ b \notin again =>
       \A action \in Actions :
          Hears(b, action) =
             IF asked[b] # NoAttach /\ Wanted(asked[b], action)
             THEN {asked[b].sink} ELSE {}

(* When no pressure call is under way the last one has had its say: a      *)
(* pressure that came from the health monitor is that of its present       *)
(* percentage under the present thresholds, and one that came through      *)
(* microbus is the one announced.  Calls may overlap; but the code does    *)
(* not hinder the one that read or wrote first from finishing last, and    *)
(* then the older value stands (crossed) until the next call.              *)
PressureSettled ==
    \A b \in Budgets : live[b] =>
       /\ /\ source[b] = "health" /\ health.budget = b
          /\ ~pending /\ \A t \in Contexts : ~InHealth(t)
          /\ "health" \notin crossed
          => pressure[b] = Mapped(health, pct)
       /\ /\ source[b] = "bus"
          /\ \A t \in Contexts : call[t].at # "publish"
          /\ b \notin crossed
          => told[b] = pressure[b]

=============================================================================
