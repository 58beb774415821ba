----------------------------- MODULE LoxCausality -----------------------------
(***************************************************************************)
(* The causality graph of src/loxbudget_causality.c and the cascade stage  *)
(* of loxbudget_check that uses it (LOXBUDGET_ENABLE_CAUSALITY).           *)
(*                                                                         *)
(* Both walks of the graph are depth-first searches over the edge table    *)
(* with a stack of LOXBUDGET_MAX_OPS entries and one visited bitmap in the *)
(* instance's storage, which no critical section protects.  Taking an      *)
(* operation from the stack is a step, and so is looking at the next edge  *)
(* that leaves it, so that the walks of two contexts interleave and        *)
(* overwrite each other's bitmap.                                          *)
(*                                                                         *)
(* The resource tables are configured and do not change here: what they do *)
(* is LoxBudget's.                                                         *)
(***************************************************************************)
EXTENDS LoxDecision, Sequences

CONSTANTS
    StackSize,     \* LOXBUDGET_MAX_OPS, the entries of a walk's stack
    MaxEdges,      \* LOXBUDGET_CAUSALITY_MAX_EDGES
    MaxDepth,      \* LOXBUDGET_CAUSALITY_MAX_DEPTH
    ResourceTable, NeedLists,   \* what was configured at start
    NoOp,          \* no operation is being expanded
    Contexts,      \* the contexts that call check
    Configurator,  \* the one of them that also calls op_may_trigger
    TriggerCalls,  \* arguments of op_may_trigger
    CheckCalls     \* operations and pressures each context checks

NEVER   == 0
RARE    == 32
MAYBE   == 128
ALWAYS  == 255
Weights == {NEVER, RARE, MAYBE, ALWAYS}

ASSUME CausalityAssumption ==
    /\ StackSize \in Nat /\ StackSize >= MaxOps
    /\ MaxEdges \in Nat \ {0}
    /\ MaxDepth \in Nat \ {0}
    /\ ResourceTable \in [ResourceIds -> Resource]
    /\ NeedLists \in [OpIds -> NeedList]
    /\ NoOp \notin OpIds
    /\ Configurator \in Contexts
    /\ TriggerCalls \subseteq OpIds \X OpIds \X Weights
    /\ CheckCalls \in [Contexts -> SUBSET (OpIds \X Pressures)]

VARIABLES
    edges,     \* the edge table, its length is edge_count
    visited,   \* the bits of the shared bitmap that are set
    walk,      \* the walk of each context
    tainted    \* history: a search that was disturbed or dropped an
               \* operation has let an edge in

vars == <<edges, visited, walk, tainted>>

-----------------------------------------------------------------------------
(* Types. *)

Edge  == [parent : OpIds, child : OpIds, weight : Weights]
Place == [op : OpIds, depth : 0 .. MaxDepth]

(* at: where the context is; goal: the parent of the new edge, or the      *)
(* operation that is checked; cur: the operation taken from the stack and  *)
(* its depth; ei: the last edge looked at; need: need_per_res; exact:      *)
(* history, the walk shared the bitmap with nobody and dropped nothing.    *)
Walk  == [at : {"idle", "search", "cascade", "decide"}, goal : OpIds,
          press : Pressures, stack : Seq(Place), cur : OpIds \cup {NoOp},
          depth : 0 .. MaxDepth, ei : 0 .. MaxEdges,
          need : [ResourceIds -> U16], exact : BOOLEAN]

NoNeeds == [r \in ResourceIds |-> 0]
Idle    == [at |-> "idle", goal |-> 0, press |-> NORMAL, stack |-> <<>>,
            cur |-> NoOp, depth |-> 0, ei |-> 0, need |-> NoNeeds,
            exact |-> TRUE]

TypeOK ==
    /\ edges \in Seq(Edge) /\ Len(edges) =< MaxEdges
    /\ visited \subseteq OpIds
    /\ walk \in [Contexts -> Walk]
    /\ \A t \in Contexts : Len(walk[t].stack) =< StackSize
    /\ tainted \in BOOLEAN

-----------------------------------------------------------------------------
(* Needs. *)

(* Mutant: the sum grows past 16 bits. *)
BugSaturated(v) == v

Saturated(v) == IF v > U16_MAX THEN U16_MAX ELSE v

(* What an operation's list asks of a resource; at most one entry does     *)
(* (NeedsDistinct of LoxBudget).                                           *)
NeedOf(o, r) ==
    IF \E i \in NeedIndex : /\ NeedLists[o][i].resource = r
                            /\ NeedLists[o][i].amount # 0
    THEN LET i == CHOOSE i \in NeedIndex : /\ NeedLists[o][i].resource = r
                                           /\ NeedLists[o][i].amount # 0
         IN  NeedLists[o][i].amount
    ELSE 0

(* Round to nearest in Q8. *)
Scaled(amount, w) == (amount * w + 128) \div 256

(* The need list stage of check sums the needs it tested against room. *)
OwnNeed(o) == [r \in ResourceIds |->
                 IF ResourceTable[r].kind = "STATE" THEN 0 ELSE NeedOf(o, r)]

(* The needs after one triggered operation was added to them. *)
WithChild(need, e) ==
    [r \in ResourceIds |->
       Saturated(need[r] + Scaled(NeedOf(e.child, r), e.weight))]

(* The edges a cascade follows. *)
Live(e, press) == e.weight # NEVER /\ ~(e.weight = RARE /\ press < CRITICAL)

(* Mutant: what others have reserved is not asked. *)
BugCascadeFailures(need) ==
    {r \in ResourceIds :
       LET x == ResourceTable[r]
       IN  /\ need[r] # 0
           /\ x.cfg
           /\ x.limit < IF x.kind = "STATE" THEN 1 ELSE need[r]}

(* The resources the accumulated need does not fit. *)
CascadeFailures(need) ==
    {r \in ResourceIds :
       LET x == ResourceTable[r]
       IN  /\ need[r] # 0
           /\ x.cfg
           /\ IF x.kind = "STATE" THEN x.limit = 0
                                  ELSE AvailableOf(x) < need[r]}

CascadeVerdict(need, press) ==
    LET r == Min(CascadeFailures(need))
        x == ResourceTable[r]
        n == [resource |-> r, amount |-> need[r]]
    IN  NeedDenied(IF x.kind = "REUSABLE" THEN "WAIT" ELSE "REJECT",
                   "CAUSAL_CASCADE", press, n,
                   IF x.kind = "STATE" THEN 0 ELSE AvailableOf(x))

-----------------------------------------------------------------------------

Init ==
    /\ edges = <<>>
    /\ visited = {}
    /\ walk = [t \in Contexts |-> Idle]
    /\ tainted = FALSE

(* loxbudget_init clears the table and the bitmap. *)
Reinit ==
    /\ \A t \in Contexts : walk[t].at = "idle"
    /\ edges' = <<>>
    /\ visited' = {}
    /\ tainted' = FALSE
    /\ UNCHANGED walk

Alone(t) == \A u \in Contexts \ {t} : walk[u].at = "idle"

(* The walks that context t finds under way are no longer exact. *)
Disturbed(t, u) ==
    IF u = t \/ walk[u].at = "idle" THEN walk[u]
    ELSE [walk[u] EXCEPT !.exact = FALSE]

(* A walk clears the bitmap and puts its first operation on the stack. *)
StartWalk(t, w) ==
    /\ visited' = {}
    /\ walk' = [u \in Contexts |->
                  IF u = t THEN [w EXCEPT !.exact = Alone(t)]
                  ELSE Disturbed(t, u)]

Present(p, c) == {i \in 1 .. Len(edges) : edges[i].parent = p
                                          /\ edges[i].child = c}

(* loxbudget_op_may_trigger for an edge that is there: a new weight. *)
UpdateEdge(t, p, c, w) ==
    /\ walk[t].at = "idle"
    /\ p # c
    /\ Present(p, c) # {}
    /\ edges' = [i \in 1 .. Len(edges) |->
                   IF i \in Present(p, c) THEN [edges[i] EXCEPT !.weight = w]
                                          ELSE edges[i]]
    /\ walk' = [u \in Contexts |-> Disturbed(t, u)]
    /\ UNCHANGED <<visited, tainted>>

(* For a new edge: it is appended, then searched for a path back.  A full  *)
(* table, p = c, and operations that are not registered are refused.       *)
AppendEdge(t, p, c, w) ==
    /\ walk[t].at = "idle"
    /\ p # c
    /\ Present(p, c) = {}
    /\ Len(edges) < MaxEdges
    /\ edges' = Append(edges, [parent |-> p, child |-> c, weight |-> w])
    /\ StartWalk(t, [Idle EXCEPT !.at = "search", !.goal = p,
                                 !.stack = <<[op |-> c, depth |-> 0]>>])
    /\ UNCHANGED tainted

(* loxbudget_check reaches its cascade stage. *)
StartCascade(t, o, press) ==
    /\ walk[t].at = "idle"
    /\ NeedFailures(NeedLists[o], ResourceTable) = {}
    /\ StartWalk(t, [Idle EXCEPT !.at = "cascade", !.goal = o,
                                 !.press = press, !.need = OwnNeed(o),
                                 !.stack = <<[op |-> o, depth |-> 0]>>])
    /\ UNCHANGED <<edges, tainted>>

-----------------------------------------------------------------------------
(* The walks. *)

Walking(t) == walk[t].at \in {"search", "cascade"}

(* Mutant: the scan stops at the first edge that leaves the operation. *)
BugNextEdges(t) ==
    {i \in walk[t].ei + 1 .. Len(edges) :
       /\ edges[i].parent = walk[t].cur
       /\ \A k \in 1 .. i - 1 : edges[k].parent # walk[t].cur}

(* The next edge that leaves the operation being expanded. *)
NextEdges(t) ==
    {i \in walk[t].ei + 1 .. Len(edges) :
       /\ edges[i].parent = walk[t].cur
       /\ \A k \in walk[t].ei + 1 .. i - 1 : edges[k].parent # walk[t].cur}

(* Take an operation from the stack.  One that was visited is passed over; *)
(* a cascade does not expand what it meets at MaxDepth.                    *)
Pop(t) ==
    /\ Walking(t) /\ NextEdges(t) = {} /\ walk[t].stack # <<>>
    /\ LET s   == walk[t].stack
           top == s[Len(s)]
           skip == \/ top.op \in visited
                   \/ walk[t].at = "cascade" /\ top.depth >= MaxDepth
       IN  /\ visited' = visited \cup {top.op}
           /\ walk' = [walk EXCEPT
                         ![t].stack = SubSeq(s, 1, Len(s) - 1),
                         ![t].cur = IF skip THEN NoOp ELSE top.op,
                         ![t].depth = IF skip THEN 0 ELSE top.depth,
                         ![t].ei = 0]
    /\ UNCHANGED <<edges, tainted>>

(* Put the child of edge e on the stack, if there is room. *)
Pushed(w, e, i) ==
    LET room == Len(w.stack) < StackSize
        d    == IF w.at = "cascade" THEN w.depth + 1 ELSE 0
    IN  [w EXCEPT !.ei = i,
                  !.stack = IF room THEN Append(@, [op |-> e.child, depth |-> d])
                            ELSE @,
                  !.exact = @ /\ room]

(* Look at one edge of the search for a path back to the parent. *)
SearchEdge(t) ==
    /\ walk[t].at = "search"
    /\ \E i \in NextEdges(t) :
         LET e == edges[i]
         IN  IF e.child = walk[t].goal
             THEN (* a cycle: the new edge is taken out again *)
                  /\ edges' = SubSeq(edges, 1, Len(edges) - 1)
                  /\ walk' = [walk EXCEPT ![t] = Idle]
             ELSE /\ walk' = [walk EXCEPT ![t] =
                                IF e.child \in visited
                                THEN [walk[t] EXCEPT !.ei = i]
                                ELSE Pushed(walk[t], e, i)]
                  /\ UNCHANGED edges
    /\ UNCHANGED <<visited, tainted>>

(* Mutants: only what the operation triggers itself is added; an edge that *)
(* is passed over is looked at again.                                      *)
BugCascadeEdge(t) ==
    /\ walk[t].at = "cascade"
    /\ \E i \in NextEdges(t) :
         LET e == edges[i]
         IN  walk' = [walk EXCEPT ![t] =
                        IF e.child \notin visited /\ Live(e, walk[t].press)
                        THEN Pushed([walk[t] EXCEPT !.need =
                                       IF walk[t].depth = 0
                                       THEN WithChild(@, e) ELSE @], e, i)
                        ELSE [walk[t] EXCEPT !.ei = i]]
    /\ UNCHANGED <<edges, visited, tainted>>

BugStuckEdge(t) ==
    /\ walk[t].at = "cascade"
    /\ \E i \in NextEdges(t) :
         LET e == edges[i]
         IN  walk' = [walk EXCEPT ![t] =
                        IF e.child \notin visited /\ Live(e, walk[t].press)
                        THEN Pushed([walk[t] EXCEPT !.need = WithChild(@, e)],
                                    e, i)
                        ELSE walk[t]]
    /\ UNCHANGED <<edges, visited, tainted>>

(* Look at one edge of the cascade. *)
CascadeEdge(t) ==
    /\ walk[t].at = "cascade"
    /\ \E i \in NextEdges(t) :
         LET e == edges[i]
         IN  walk' = [walk EXCEPT ![t] =
                        IF e.child \notin visited /\ Live(e, walk[t].press)
                        THEN Pushed([walk[t] EXCEPT !.need = WithChild(@, e)],
                                    e, i)
                        ELSE [walk[t] EXCEPT !.ei = i]]
    /\ UNCHANGED <<edges, visited, tainted>>

Exhausted(t) == NextEdges(t) = {} /\ walk[t].stack = <<>>

(* No path back: the new edge stays. *)
SearchDone(t) ==
    /\ walk[t].at = "search" /\ Exhausted(t)
    /\ tainted' = (tainted \/ ~walk[t].exact)
    /\ walk' = [walk EXCEPT ![t] = Idle]
    /\ UNCHANGED <<edges, visited>>

CascadeDone(t) ==
    /\ walk[t].at = "cascade" /\ Exhausted(t)
    /\ walk' = [walk EXCEPT ![t].at = "decide", ![t].cur = NoOp,
                            ![t].depth = 0, ![t].ei = 0]
    /\ UNCHANGED <<edges, visited, tainted>>

(* check compares the needs with what is available and returns its verdict *)
(* (CascadeFailures, CascadeVerdict), which changes no table here.         *)
Decide(t) ==
    /\ walk[t].at = "decide"
    /\ walk' = [walk EXCEPT ![t] = Idle]
    /\ UNCHANGED <<edges, visited, tainted>>

Step(t) == \/ Pop(t) \/ SearchEdge(t) \/ CascadeEdge(t) \/ SearchDone(t)
           \/ CascadeDone(t) \/ Decide(t)

Next ==
    \/ Reinit
    \/ \E c \in TriggerCalls : \/ UpdateEdge(Configurator, c[1], c[2], c[3])
                               \/ AppendEdge(Configurator, c[1], c[2], c[3])
    \/ \E t \in Contexts : \/ \E c \in CheckCalls[t] : StartCascade(t, c[1], c[2])
                           \/ Step(t)

Spec == Init /\ [][Next]_vars /\ \A t \in Contexts : WF_vars(Step(t))

-----------------------------------------------------------------------------
(* Properties. *)

(* Every non-empty set of operations has one that triggers none of it. *)
AcyclicEdges(E) ==
    \A S \in SUBSET OpIds :
       S # {} => \E p \in S : \A c \in S : <<p, c>> \notin E

Pairs(n) == {<<edges[i].parent, edges[i].child>> : i \in 1 .. n}

Searching == walk[Configurator].at = "search"

(* The edge under search is the last one and not yet let in. *)
Settled == Pairs(IF Searching THEN Len(edges) - 1 ELSE Len(edges))

(* "Cycle detection at registration time (fail loud at boot)."             *)
Acyclic == AcyclicEdges(Settled)

(* It holds as long as no edge was let in by a search that another context *)
(* disturbed through the shared bitmap or that ran out of stack.           *)
AcyclicUnlessTainted == ~tainted => Acyclic

(* The edge table is the first parameter of what follows. *)

LiveFrom(E, S, press) == {i \in 1 .. Len(E) : /\ E[i].parent \in S
                                              /\ Live(E[i], press)}

(* The live edges from S end in S. *)
Closed(E, S, press) == \A i \in LiveFrom(E, S, press) : E[i].child \in S

(* What the operation may trigger, itself included. *)
Downstream(E, o, press) ==
    {c \in OpIds :
       \A S \in SUBSET OpIds : o \in S /\ Closed(E, S, press) => c \in S}

Triggers(E, p, c, press) ==
    \E i \in LiveFrom(E, {p}, press) : E[i].child = c

(* No live path from the operation is longer than MaxDepth. *)
NoLongPath(E, o, press) ==
    \A f \in [0 .. MaxDepth + 1 -> OpIds] :
       f[0] = o => \E k \in 0 .. MaxDepth : ~Triggers(E, f[k], f[k + 1], press)

Cost(E, i, r) == Scaled(NeedOf(E[i].child, r), E[i].weight)

(* The least that counting c once can add: one of the edges from S does. *)
Lightest(E, S, c, press, r) ==
    Min({Cost(E, i, r) : i \in {j \in LiveFrom(E, S, press) : E[j].child = c}})

(* Every operation downstream counted once, by its lightest edge; and      *)
(* every edge downstream counted.                                          *)
LeastNeed(E, o, press, r) ==
    LET D == Downstream(E, o, press)
    IN  Saturated(OwnNeed(o)[r]
          + SumOf([c \in D \ {o} |-> Lightest(E, D, c, press, r)]))

MostNeed(E, o, press, r) ==
    LET L == LiveFrom(E, Downstream(E, o, press), press)
    IN  Saturated(OwnNeed(o)[r] + SumOf([i \in L |-> Cost(E, i, r)]))

(* The cascade of a check that shared the bitmap with nobody counts every  *)
(* operation downstream at least once, if no live path is longer than      *)
(* MaxDepth, and never an edge twice.  A cycle that a tainted search let   *)
(* in makes no difference.                                                 *)
CascadeCounted ==
    \A t \in Contexts :
       walk[t].at = "decide" /\ walk[t].exact =>
          \A r \in ResourceIds :
             LET o == walk[t].goal
                 p == walk[t].press
             IN  /\ walk[t].need[r] =< MostNeed(edges, o, p, r)
                 /\ NoLongPath(edges, o, p) =>
                       LeastNeed(edges, o, p, r) =< walk[t].need[r]

(* What check decides from it: an operation it lets through fits with      *)
(* everything it may trigger, and one it refuses would not fit if every    *)
(* edge were followed.                                                     *)
CascadeDecides ==
    \A t \in Contexts :
       walk[t].at = "decide" /\ walk[t].exact =>
          LET o == walk[t].goal
              p == walk[t].press
              d == CascadeVerdict(walk[t].need, p)
          IN  IF CascadeFailures(walk[t].need) # {}
              THEN /\ ~Allowed(d.action)
                   /\ MostNeed(edges, o, p, d.denied_resource) > d.available
              ELSE NoLongPath(edges, o, p) =>
                      \A r \in ResourceIds :
                         LET x == ResourceTable[r]
                         IN  x.cfg /\ x.kind # "STATE" =>
                                LeastNeed(edges, o, p, r) =< AvailableOf(x)

(* Every walk comes to an end, also one whose bitmap other contexts keep   *)
(* clearing, unless a tainted search has let a cycle in: then a search can *)
(* go round for ever.                                                      *)
WalksEnd ==
    \A t \in Contexts :
       walk[t].at # "idle" /\ ~tainted ~> walk[t].at = "idle" \/ tainted

=============================================================================
