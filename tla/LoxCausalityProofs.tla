-------------------------- MODULE LoxCausalityProofs --------------------------
(***************************************************************************)
(* Theorems about the causality graph, for every number of contexts,       *)
(* operations and edges, every size of the stack and every interleaving:   *)
(* the search that keeps it acyclic, and the needs a cascade adds up.      *)
(***************************************************************************)
EXTENDS LoxCausality, LoxDecisionProofs, SequenceTheorems

-----------------------------------------------------------------------------
(* Without its last element. *)
LEMMA FrontOf ==
    ASSUME NEW S, NEW s \in Seq(S), Len(s) \in Nat \ {0}
    PROVE  /\ SubSeq(s, 1, Len(s) - 1) \in Seq(S)
           /\ Len(SubSeq(s, 1, Len(s) - 1)) = Len(s) - 1
           /\ \A k \in 1 .. Len(s) - 1 : SubSeq(s, 1, Len(s) - 1)[k] = s[k]
<1> DEFINE n == Len(s) - 1
<1>1. n \in Nat /\ \A i \in 1 .. n : s[i] \in S
  OBVIOUS
<1> HIDE DEF n
<1>2. /\ SubSeq(s, 1, n) \in Seq(S)
      /\ Len(SubSeq(s, 1, n)) = IF 1 <= n THEN n - 1 + 1 ELSE 0
      /\ \A i \in 1 .. n - 1 + 1 : SubSeq(s, 1, n)[i] = s[1 + i - 1]
  BY <1>1, SubSeqProperties
<1>3. /\ Len(SubSeq(s, 1, n)) = n
      /\ \A i \in 1 .. n : SubSeq(s, 1, n)[i] = s[i]
  BY <1>1, <1>2
<1> QED
  BY <1>2, <1>3 DEF n

-----------------------------------------------------------------------------
(* Needs. *)

LEMMA NeedOfType ==
    ASSUME NEW o \in OpIds, NEW r \in ResourceIds
    PROVE  NeedOf(o, r) \in U16
<1> DEFINE Asks(i) == /\ NeedLists[o][i].resource = r
                      /\ NeedLists[o][i].amount # 0
<1>1. NeedLists[o] \in NeedList /\ U16_MAX \in Nat
  BY CausalityAssumption, SizesAssumption
<1>2. CASE \E i \in NeedIndex : Asks(i)
  <2> DEFINE j == CHOOSE i \in NeedIndex : Asks(i)
  <2>1. j \in NeedIndex
    BY <1>2
  <2>2. NeedLists[o][j].amount \in U16
    BY <1>1, <2>1 DEF NeedList, Need
  <2> QED
    BY <1>2, <2>2 DEF NeedOf
<1>3. CASE ~ \E i \in NeedIndex : Asks(i)
  BY <1>1, <1>3 DEF NeedOf, U16
<1> QED
  BY <1>2, <1>3

LEMMA ScaledType ==
    ASSUME NEW a \in Nat, NEW w \in Weights
    PROVE  Scaled(a, w) \in Nat
<1>1. a * 0 \in Nat /\ a * 32 \in Nat /\ a * 128 \in Nat /\ a * 255 \in Nat
  OBVIOUS
<1>2. a * w \in Nat
  BY <1>1 DEF Weights, NEVER, RARE, MAYBE, ALWAYS
<1> DEFINE k == a * w
<1> HIDE DEF k
<1>3. k \in Nat
  BY <1>2 DEF k
<1>4. (k + 128) \div 256 \in Nat
  BY <1>3
<1> QED
  BY <1>4 DEF Scaled, k

LEMMA NeedsType ==
    ASSUME NEW need \in [ResourceIds -> U16], NEW e \in Edge
    PROVE  WithChild(need, e) \in [ResourceIds -> U16]
<1> SUFFICES ASSUME NEW r \in ResourceIds
             PROVE  Saturated(need[r] + Scaled(NeedOf(e.child, r), e.weight))
                       \in U16
  BY DEF WithChild
<1>1. U16_MAX \in Nat /\ need[r] \in Nat
  BY SizesAssumption DEF U16
<1>2. NeedOf(e.child, r) \in Nat
  BY NeedOfType, SizesAssumption DEF Edge, U16
<1>3. Scaled(NeedOf(e.child, r), e.weight) \in Nat
  BY <1>2, ScaledType DEF Edge
<1> QED
  BY <1>1, <1>3 DEF Saturated, U16

LEMMA OwnNeedType ==
    ASSUME NEW o \in OpIds
    PROVE  OwnNeed(o) \in [ResourceIds -> U16]
  BY NeedOfType, SizesAssumption DEF OwnNeed, U16

-----------------------------------------------------------------------------
(* Types.  A cascade expands only what it met above MaxDepth, and only the *)
(* configurator searches.                                                  *)

WalkOK(w) ==
    /\ w \in Walk
    /\ Len(w.stack) =< StackSize
    /\ (w.at = "cascade" /\ w.cur # NoOp) => w.depth < MaxDepth

OneSearcher == \A t \in Contexts : walk[t].at = "search" => t = Configurator

TypeInv ==
    /\ edges \in Seq(Edge) /\ Len(edges) =< MaxEdges
    /\ visited \subseteq OpIds
    /\ walk \in [Contexts -> Walk]
    /\ \A t \in Contexts : WalkOK(walk[t])
    /\ tainted \in BOOLEAN
    /\ OneSearcher

LEMMA ConstantTypes ==
    /\ StackSize \in Nat \ {0} /\ MaxDepth \in Nat \ {0}
    /\ MaxEdges \in Nat \ {0} /\ 0 \in OpIds
    /\ NoOp \notin OpIds /\ Configurator \in Contexts
  BY CausalityAssumption, SizesAssumption DEF OpIds

LEMMA IdleOK == WalkOK(Idle) /\ Idle.at = "idle"
<1>1. NoNeeds \in [ResourceIds -> U16]
  BY SizesAssumption DEF NoNeeds, U16
<1>2. Idle \in Walk
  BY <1>1, ConstantTypes DEF Idle, Walk, Pressures, NORMAL, LOCKDOWN
<1> QED
  BY <1>2, ConstantTypes DEF WalkOK, Idle

(* The two walks as they are started: one operation is on the stack. *)
NewSearch(p, c, a) ==
    [[Idle EXCEPT !.at = "search", !.goal = p,
                  !.stack = <<[op |-> c, depth |-> 0]>>] EXCEPT !.exact = a]

NewCascade(o, press, a) ==
    [[Idle EXCEPT !.at = "cascade", !.goal = o, !.press = press,
                  !.need = OwnNeed(o),
                  !.stack = <<[op |-> o, depth |-> 0]>>] EXCEPT !.exact = a]

LEMMA SearchOK ==
    ASSUME NEW p \in OpIds, NEW c \in OpIds, NEW a \in BOOLEAN
    PROVE  LET y == NewSearch(p, c, a)
           IN  /\ WalkOK(y) /\ y.at = "search" /\ y.goal = p /\ y.ei = 0
               /\ y.stack = <<[op |-> c, depth |-> 0]>>
               /\ y.exact = a
<1> DEFINE s == <<[op |-> c, depth |-> 0]>>
           y == NewSearch(p, c, a)
<1>1. s \in Seq(Place) /\ Len(s) = 1
  BY ConstantTypes DEF Place
<1>2. Idle \in Walk /\ Idle.ei = 0
  BY IdleOK DEF WalkOK, Idle
<1>3. y = [[Idle EXCEPT !.at = "search", !.goal = p, !.stack = s]
             EXCEPT !.exact = a]
  BY DEF NewSearch
<1> HIDE DEF s, y
<1>4. y \in Walk /\ y.at = "search" /\ y.goal = p /\ y.ei = 0 /\ y.stack = s
      /\ y.exact = a
  BY <1>1, <1>2, <1>3 DEF Walk
<1>5. WalkOK(y)
  BY <1>1, <1>4, ConstantTypes DEF WalkOK
<1> QED
  BY <1>4, <1>5 DEF s, y

LEMMA CascadeOK ==
    ASSUME NEW o \in OpIds, NEW press \in Pressures, NEW a \in BOOLEAN
    PROVE  LET y == NewCascade(o, press, a)
           IN  WalkOK(y) /\ y.at = "cascade" /\ y.exact = a
<1> DEFINE s == <<[op |-> o, depth |-> 0]>>
           n == OwnNeed(o)
           y == NewCascade(o, press, a)
<1>0. n \in [ResourceIds -> U16]
  BY OwnNeedType
<1>1. s \in Seq(Place) /\ Len(s) = 1 /\ 1 =< StackSize
  BY ConstantTypes DEF Place
<1>2. Idle \in Walk /\ Idle.cur = NoOp
  BY IdleOK DEF WalkOK, Idle
<1>3. y = [[Idle EXCEPT !.at = "cascade", !.goal = o, !.press = press,
                        !.need = n, !.stack = s] EXCEPT !.exact = a]
  BY DEF NewCascade
<1> HIDE DEF s, n, y
<1>4. y \in Walk /\ y.at = "cascade" /\ y.stack = s /\ y.exact = a
  BY <1>0, <1>1, <1>2, <1>3 DEF Walk
<1>5. y.cur = NoOp
  BY <1>2, <1>3 DEF Walk
<1>6. WalkOK(y)
  <2>1. Len(y.stack) =< StackSize
    BY <1>1, <1>4
  <2> QED
    BY <1>4, <1>5, <2>1, Zenon DEF WalkOK
<1> QED
  BY <1>4, <1>6 DEF y

LEMMA DisturbedOK ==
    ASSUME NEW t \in Contexts, NEW u \in Contexts, WalkOK(walk[u])
    PROVE  /\ WalkOK(Disturbed(t, u))
           /\ Disturbed(t, u).at = walk[u].at
           /\ Disturbed(t, u).exact => walk[u].exact
           /\ Disturbed(t, u).at # "idle" /\ Disturbed(t, u).exact => u = t
           /\ u = t => Disturbed(t, u) = walk[u]
<1>1. CASE u = t \/ walk[u].at = "idle"
  BY <1>1 DEF Disturbed
<1>2. CASE ~(u = t \/ walk[u].at = "idle")
  <2>1. Disturbed(t, u) = [walk[u] EXCEPT !.exact = FALSE]
    BY <1>2 DEF Disturbed
  <2> QED
    BY <1>2, <2>1 DEF WalkOK, Walk
<1> QED
  BY <1>1, <1>2

LEMMA PushedOK ==
    ASSUME NEW w, WalkOK(w), NEW e \in Edge, NEW i \in 1 .. MaxEdges,
           w.at = "cascade" => w.depth < MaxDepth
    PROVE  /\ WalkOK(Pushed(w, e, i))
           /\ Pushed(w, e, i).at = w.at
           /\ Pushed(w, e, i).exact => w.exact
<1> DEFINE room == Len(w.stack) < StackSize
           d == IF w.at = "cascade" THEN w.depth + 1 ELSE 0
           s == IF room THEN Append(w.stack, [op |-> e.child, depth |-> d])
                ELSE w.stack
<1>1. w \in Walk /\ w.stack \in Seq(Place) /\ Len(w.stack) \in Nat
  BY DEF WalkOK, Walk
<1>2. d \in 0 .. MaxDepth
  BY <1>1, ConstantTypes DEF Walk
<1>3. [op |-> e.child, depth |-> d] \in Place
  BY <1>2 DEF Place, Edge
<1>4. s \in Seq(Place) /\ Len(s) =< StackSize
  BY <1>1, <1>3, ConstantTypes DEF WalkOK
<1>5. Pushed(w, e, i) = [w EXCEPT !.ei = i, !.stack = s,
                                  !.exact = w.exact /\ room]
  BY DEF Pushed
<1> HIDE DEF s, d, room
<1>6. (w.exact /\ room) \in BOOLEAN
  BY <1>1 DEF Walk, room
<1>7. Pushed(w, e, i) \in Walk
  <2>1. i \in 0 .. MaxEdges
    BY ConstantTypes
  <2> DEFINE x == w.exact /\ room
  <2> HIDE DEF x
  <2>2. x \in BOOLEAN /\ Pushed(w, e, i) = [w EXCEPT !.ei = i, !.stack = s,
                                                   !.exact = x]
    BY <1>5, <1>6 DEF x
  <2> QED
    BY <1>1, <1>4, <2>1, <2>2 DEF Walk
<1> QED
  BY <1>1, <1>4, <1>5, <1>7 DEF WalkOK, Walk

(* What is next to look at leads from the operation being expanded. *)
LEMMA NextEdgesAre ==
    ASSUME TypeInv, NEW t \in Contexts, NEW i \in NextEdges(t)
    PROVE  /\ i \in 1 .. Len(edges) /\ i \in 1 .. MaxEdges
           /\ edges[i] \in Edge
           /\ edges[i].parent = walk[t].cur /\ walk[t].cur # NoOp
           /\ walk[t].ei < i
           /\ \A k \in walk[t].ei + 1 .. i - 1 : edges[k].parent # walk[t].cur
<1>1. walk[t].ei \in Nat /\ Len(edges) \in Nat
  BY ConstantTypes DEF TypeInv, Walk
<1>2. /\ i \in walk[t].ei + 1 .. Len(edges) /\ edges[i].parent = walk[t].cur
      /\ \A k \in walk[t].ei + 1 .. i - 1 : edges[k].parent # walk[t].cur
  BY DEF NextEdges
<1>3. i \in 1 .. Len(edges) /\ i \in 1 .. MaxEdges /\ walk[t].ei < i
  BY <1>1, <1>2, ConstantTypes DEF TypeInv
<1>4. edges[i] \in Edge
  BY <1>3 DEF TypeInv
<1> QED
  BY <1>2, <1>3, <1>4, ConstantTypes DEF Edge

(* When nothing is next, every edge from that operation was looked at: the *)
(* scan cannot pass over one.                                              *)
LEMMA NoneMissed ==
    ASSUME TypeInv, NEW t \in Contexts, NextEdges(t) = {},
           NEW i \in 1 .. Len(edges), edges[i].parent = walk[t].cur
    PROVE  i =< walk[t].ei
<1> SUFFICES ASSUME i > walk[t].ei
             PROVE  FALSE
  BY ConstantTypes DEF TypeInv, Walk
<1> DEFINE S == {k \in walk[t].ei + 1 .. Len(edges) :
                    edges[k].parent = walk[t].cur}
<1>1. walk[t].ei \in Nat /\ Len(edges) \in Nat
  BY ConstantTypes DEF TypeInv, Walk
<1>2. S \in SUBSET Nat /\ i \in S
  BY <1>1
<1>3. Min(S) \in S /\ \A k \in S : Min(S) =< k
  BY <1>2, MinIn
<1> DEFINE m == Min(S)
<1> HIDE DEF m
<1>4. m \in S /\ \A k \in S : m =< k
  BY <1>3 DEF m
<1>5. \A k \in walk[t].ei + 1 .. m - 1 : edges[k].parent # walk[t].cur
  BY <1>1, <1>4
<1>6. m \in NextEdges(t)
  BY <1>4, <1>5 DEF NextEdges
<1> QED
  BY <1>6

-----------------------------------------------------------------------------
(* Steps keep the types. *)

(* One context's walk changes, to one that is well formed. *)
LEMMA OneWalk ==
    ASSUME TypeInv, NEW t \in Contexts, NEW w, WalkOK(w),
           w.at = "search" => t = Configurator,
           walk' = [walk EXCEPT ![t] = w]
    PROVE  /\ walk' \in [Contexts -> Walk]
           /\ \A u \in Contexts : WalkOK(walk'[u])
           /\ \A u \in Contexts : walk'[u].at = "search" => u = Configurator
<1>1. w \in Walk
  BY DEF WalkOK
<1>2. \A u \in Contexts : walk'[u] = IF u = t THEN w ELSE walk[u]
  BY DEF TypeInv
<1>3. walk' \in [Contexts -> Walk]
  BY <1>1 DEF TypeInv
<1> QED
  BY <1>2, <1>3 DEF TypeInv, OneSearcher

(* One context starts a walk, the others are disturbed. *)
LEMMA StartedTypes ==
    ASSUME TypeInv, NEW t \in Contexts, NEW w, NEW x,
           WalkOK(x), x.at = "search" => t = Configurator,
           x = [w EXCEPT !.exact = Alone(t)],
           StartWalk(t, w)
    PROVE  /\ walk' \in [Contexts -> Walk]
           /\ \A u \in Contexts : WalkOK(walk'[u])
           /\ \A u \in Contexts : walk'[u].at = "search" => u = Configurator
           /\ visited' = {} /\ walk'[t] = x
<1>1. walk' = [u \in Contexts |-> IF u = t THEN x ELSE Disturbed(t, u)]
      /\ visited' = {}
  BY DEF StartWalk
<1>2. WalkOK(x) /\ (x.at = "search" => t = Configurator)
  OBVIOUS
<1>3. \A u \in Contexts : /\ WalkOK(Disturbed(t, u))
                         /\ Disturbed(t, u).at = walk[u].at
  BY DisturbedOK DEF TypeInv
<1>4. \A u \in Contexts : walk'[u] = IF u = t THEN x ELSE Disturbed(t, u)
  BY <1>1
<1>5. \A u \in Contexts : WalkOK(walk'[u])
  BY <1>2, <1>3, <1>4
<1>6. walk' \in [Contexts -> Walk]
  BY <1>1, <1>4, <1>5 DEF WalkOK
<1>7. \A u \in Contexts : walk'[u].at = "search" => u = Configurator
  BY <1>2, <1>3, <1>4 DEF TypeInv, OneSearcher
<1> QED
  BY <1>1, <1>5, <1>6, <1>7

LEMMA UpdateEdgeTypes ==
    ASSUME TypeInv, NEW t \in Contexts, NEW p \in OpIds, NEW c \in OpIds,
           NEW w \in Weights, UpdateEdge(t, p, c, w)
    PROVE  /\ TypeInv' /\ Len(edges') = Len(edges)
           /\ \A i \in 1 .. Len(edges) : /\ edges'[i].parent = edges[i].parent
                                        /\ edges'[i].child = edges[i].child
<1> DEFINE f == [i \in 1 .. Len(edges) |->
                   IF i \in Present(p, c) THEN [edges[i] EXCEPT !.weight = w]
                                          ELSE edges[i]]
<1>1. edges' = f /\ walk' = [u \in Contexts |-> Disturbed(t, u)]
      /\ visited' = visited /\ tainted' = tainted
  BY DEF UpdateEdge
<1>2. Len(edges) \in Nat /\ \A i \in 1 .. Len(edges) : edges[i] \in Edge
  BY DEF TypeInv
<1>3. \A i \in 1 .. Len(edges) : /\ f[i] \in Edge
                                /\ f[i].parent = edges[i].parent
                                /\ f[i].child = edges[i].child
  BY <1>2 DEF Edge
<1> HIDE DEF f
<1>4. f \in Seq(Edge) /\ Len(f) = Len(edges)
  <2>1. f \in [1 .. Len(edges) -> Edge]
    BY <1>3 DEF f
  <2> QED
    BY <1>2, <2>1
<1>5. \A u \in Contexts : /\ WalkOK(Disturbed(t, u))
                         /\ Disturbed(t, u).at = walk[u].at
  BY DisturbedOK DEF TypeInv
<1>6. walk' \in [Contexts -> Walk]
  BY <1>1, <1>5 DEF WalkOK
<1>7. \A u \in Contexts : WalkOK(walk'[u]) /\ walk'[u].at = walk[u].at
  BY <1>1, <1>5
<1>8. TypeInv'
  BY <1>1, <1>4, <1>6, <1>7 DEF TypeInv, OneSearcher
<1> QED
  BY <1>1, <1>3, <1>4, <1>8

LEMMA AppendEdgeTypes ==
    ASSUME TypeInv, NEW p \in OpIds, NEW c \in OpIds, NEW w \in Weights,
           AppendEdge(Configurator, p, c, w)
    PROVE  /\ TypeInv' /\ Len(edges') = Len(edges) + 1
           /\ \A i \in 1 .. Len(edges) : edges'[i] = edges[i]
           /\ edges'[Len(edges) + 1].parent = p
           /\ edges'[Len(edges) + 1].child = c
           /\ visited' = {} /\ tainted' = tainted
           /\ walk'[Configurator].at = "search"
           /\ walk'[Configurator].goal = p
           /\ walk'[Configurator].stack = <<[op |-> c, depth |-> 0]>>
<1> DEFINE t == Configurator
           e == [parent |-> p, child |-> c, weight |-> w]
           a == Alone(t)
           x == [Idle EXCEPT !.at = "search", !.goal = p,
                             !.stack = <<[op |-> c, depth |-> 0]>>]
           y == NewSearch(p, c, a)
<1>1. edges' = Append(edges, e) /\ StartWalk(t, x) /\ tainted' = tainted
      /\ Len(edges) < MaxEdges
  BY DEF AppendEdge
<1>2. a \in BOOLEAN
  BY DEF Alone
<1>3. y = [x EXCEPT !.exact = Alone(t)]
  BY DEF NewSearch
<1> HIDE DEF a, x
<1>5. WalkOK(y) /\ y.at = "search" /\ y.goal = p
      /\ y.stack = <<[op |-> c, depth |-> 0]>>
  BY <1>2, SearchOK
<1>6. e \in Edge
  BY DEF Edge
<1> HIDE DEF e
<1>7. edges' \in Seq(Edge) /\ Len(edges') = Len(edges) + 1
      /\ (\A i \in 1 .. Len(edges) : edges'[i] = edges[i])
      /\ edges'[Len(edges) + 1] = e
  BY <1>1, <1>6 DEF TypeInv
<1>8. t \in Contexts
  BY ConstantTypes
<1> HIDE DEF y, t
<1>10. /\ walk' \in [Contexts -> Walk]
       /\ \A u \in Contexts : WalkOK(walk'[u])
       /\ \A u \in Contexts : walk'[u].at = "search" => u = Configurator
       /\ visited' = {} /\ walk'[t] = y
  BY <1>1, <1>3, <1>5, <1>8, StartedTypes DEF t
<1>11. Len(edges') =< MaxEdges /\ visited' \subseteq OpIds
  BY <1>1, <1>7, <1>10, ConstantTypes DEF TypeInv
<1>12. TypeInv'
  BY <1>1, <1>7, <1>10, <1>11 DEF TypeInv, OneSearcher
<1> QED
  BY <1>1, <1>5, <1>7, <1>10, <1>12 DEF e, t

LEMMA StartCascadeTypes ==
    ASSUME TypeInv, NEW t \in Contexts, NEW o \in OpIds,
           NEW press \in Pressures, StartCascade(t, o, press)
    PROVE  TypeInv' /\ edges' = edges /\ tainted' = tainted
           /\ walk[t].at = "idle" /\ walk'[t].at = "cascade"
<1> DEFINE x == [Idle EXCEPT !.at = "cascade", !.goal = o,
                             !.press = press, !.need = OwnNeed(o),
                             !.stack = <<[op |-> o, depth |-> 0]>>]
           a == Alone(t)
           y == NewCascade(o, press, a)
<1>1. edges' = edges /\ StartWalk(t, x) /\ tainted' = tainted
      /\ walk[t].at = "idle"
  BY DEF StartCascade
<1>2. a \in BOOLEAN
  BY DEF Alone
<1>3. y = [x EXCEPT !.exact = Alone(t)]
  BY DEF NewCascade
<1> HIDE DEF a, x
<1>4. WalkOK(y) /\ y.at = "cascade"
  BY <1>2, CascadeOK
<1> HIDE DEF y
<1>5. /\ walk' \in [Contexts -> Walk]
      /\ \A u \in Contexts : WalkOK(walk'[u])
      /\ \A u \in Contexts : walk'[u].at = "search" => u = Configurator
      /\ visited' = {} /\ walk'[t] = y
  BY <1>1, <1>3, <1>4, StartedTypes
<1> QED
  BY <1>1, <1>4, <1>5 DEF TypeInv, OneSearcher

(* What Pop does with the top of the stack and what is left of it. *)
Popped(t, top, s, skip) ==
    /\ Walking(t) /\ NextEdges(t) = {}
    /\ Len(walk[t].stack) \in Nat \ {0}
    /\ Len(s) = Len(walk[t].stack) - 1
    /\ top = walk[t].stack[Len(walk[t].stack)]
    /\ \A j \in 1 .. Len(s) : s[j] = walk[t].stack[j]
    /\ skip <=> (\/ top.op \in visited
                 \/ walk[t].at = "cascade" /\ top.depth >= MaxDepth)
    /\ visited' = visited \cup {top.op}
    /\ edges' = edges /\ tainted' = tainted
    /\ walk' = [walk EXCEPT
                  ![t] = [walk[t] EXCEPT
                    !.stack = s,
                    !.cur = IF skip THEN NoOp ELSE top.op,
                    !.depth = IF skip THEN 0 ELSE top.depth,
                    !.ei = 0]]

LEMMA PopIs ==
    ASSUME TypeInv, NEW t \in Contexts, Pop(t)
    PROVE  \E top \in Place, s \in Seq(Place), skip \in BOOLEAN :
              Popped(t, top, s, skip)
<1> DEFINE st == walk[t].stack
           top == st[Len(st)]
           s == SubSeq(st, 1, Len(st) - 1)
           skip == \/ top.op \in visited
                   \/ walk[t].at = "cascade" /\ top.depth >= MaxDepth
<1>1. st \in Seq(Place) /\ st # <<>> /\ Walking(t) /\ NextEdges(t) = {}
  BY DEF Pop, TypeInv, Walk
<1>2. Len(st) \in Nat \ {0} /\ top \in Place
  BY <1>1
<1>3. s \in Seq(Place) /\ Len(s) = Len(st) - 1
      /\ \A j \in 1 .. Len(s) : s[j] = st[j]
  BY <1>1, <1>2
<1>4. /\ visited' = visited \cup {top.op}
      /\ edges' = edges /\ tainted' = tainted
      /\ walk' = [walk EXCEPT ![t].stack = s,
                              ![t].cur = IF skip THEN NoOp ELSE top.op,
                              ![t].depth = IF skip THEN 0 ELSE top.depth,
                              ![t].ei = 0]
  BY DEF Pop
<1>5. walk' = [walk EXCEPT
                 ![t] = [walk[t] EXCEPT
                   !.stack = s,
                   !.cur = IF skip THEN NoOp ELSE top.op,
                   !.depth = IF skip THEN 0 ELSE top.depth,
                   !.ei = 0]]
  <2> HIDE DEF s, top, skip
  <2> QED
    BY <1>4 DEF TypeInv, Walk
<1>6. skip \in BOOLEAN
  OBVIOUS
<1> QED
  <2> HIDE DEF s, top, skip
  <2>1. top \in Place /\ s \in Seq(Place) /\ skip \in BOOLEAN
    BY <1>2, <1>3, <1>6
  <2>2. /\ s = SubSeq(st, 1, Len(st) - 1) /\ top = st[Len(st)]
        /\ skip <=> \/ top.op \in visited
                    \/ walk[t].at = "cascade" /\ top.depth >= MaxDepth
    BY DEF s, top, skip
  <2> DEFINE c == IF skip THEN NoOp ELSE top.op
             d == IF skip THEN 0 ELSE top.depth
  <2>3. walk' = [walk EXCEPT ![t] = [walk[t] EXCEPT !.stack = s, !.cur = c,
                                                   !.depth = d, !.ei = 0]]
    BY <1>5
  <2>4. /\ visited' = visited \cup {top.op}
        /\ edges' = edges /\ tainted' = tainted
    BY <1>4
  <2> QED
    BY <1>1, <1>2, <1>3, <2>1, <2>2, <2>3, <2>4 DEF Popped

LEMMA PopTypes ==
    ASSUME TypeInv, NEW t \in Contexts, Pop(t)
    PROVE  TypeInv'
<1>0. PICK top \in Place, s \in Seq(Place), skip \in BOOLEAN :
         Popped(t, top, s, skip)
  BY PopIs
<1>1. /\ Walking(t)
      /\ Len(walk[t].stack) \in Nat \ {0}
      /\ Len(s) = Len(walk[t].stack) - 1
      /\ skip <=> \/ top.op \in visited
                  \/ walk[t].at = "cascade" /\ top.depth >= MaxDepth
      /\ visited' = visited \cup {top.op}
      /\ edges' = edges /\ tainted' = tainted
      /\ walk' = [walk EXCEPT
                    ![t] = [walk[t] EXCEPT
                      !.stack = s,
                      !.cur = IF skip THEN NoOp ELSE top.op,
                      !.depth = IF skip THEN 0 ELSE top.depth,
                      !.ei = 0]]
  BY <1>0 DEF Popped
<1> DEFINE c == IF skip THEN NoOp ELSE top.op
           d == IF skip THEN 0 ELSE top.depth
           w == [walk[t] EXCEPT !.stack = s, !.cur = c, !.depth = d, !.ei = 0]
<1>2. c \in OpIds \cup {NoOp} /\ d \in 0 .. MaxDepth
      /\ (walk[t].at = "cascade" /\ c # NoOp => d < MaxDepth)
  BY <1>1, ConstantTypes DEF Place
<1> HIDE DEF c, d
<1>3. walk[t] \in Walk /\ Len(walk[t].stack) =< StackSize
      /\ (walk[t].at = "search" => t = Configurator)
  BY DEF TypeInv, WalkOK, OneSearcher
<1>4. w \in Walk
  <2>1. 0 \in 0 .. MaxEdges
    BY ConstantTypes
  <2> QED
    BY <1>2, <1>3, <2>1 DEF Walk
<1>5. w.stack = s /\ w.at = walk[t].at /\ w.cur = c /\ w.depth = d
  BY <1>3 DEF Walk
<1>6. WalkOK(w) /\ (w.at = "search" => t = Configurator)
  <2> HIDE DEF w
  <2> QED
    BY <1>1, <1>2, <1>3, <1>4, <1>5, ConstantTypes DEF WalkOK
<1>7. walk' = [walk EXCEPT ![t] = w]
  BY <1>1 DEF c, d
<1> HIDE DEF w
<1>8. /\ walk' \in [Contexts -> Walk]
      /\ \A u \in Contexts : WalkOK(walk'[u])
      /\ \A u \in Contexts : walk'[u].at = "search" => u = Configurator
  BY <1>6, <1>7, OneWalk
<1>9. visited' \subseteq OpIds
  BY <1>1 DEF TypeInv, Place
<1> QED
  BY <1>1, <1>8, <1>9 DEF TypeInv, OneSearcher

(* A walk that has looked at one more edge. *)
LEMMA LookedOK ==
    ASSUME NEW w, WalkOK(w), NEW i \in 1 .. MaxEdges
    PROVE  WalkOK([w EXCEPT !.ei = i]) /\ [w EXCEPT !.ei = i].at = w.at
  BY ConstantTypes DEF WalkOK, Walk

LEMMA SearchEdgeTypes ==
    ASSUME TypeInv, NEW t \in Contexts, SearchEdge(t)
    PROVE  TypeInv'
<1>1. PICK i \in NextEdges(t) :
        IF edges[i].child = walk[t].goal
        THEN /\ edges' = SubSeq(edges, 1, Len(edges) - 1)
             /\ walk' = [walk EXCEPT ![t] = Idle]
        ELSE /\ walk' = [walk EXCEPT ![t] =
                           IF edges[i].child \in visited
                           THEN [walk[t] EXCEPT !.ei = i]
                           ELSE Pushed(walk[t], edges[i], i)]
             /\ UNCHANGED edges
  BY DEF SearchEdge
<1>2. visited' = visited /\ tainted' = tainted /\ walk[t].at = "search"
  BY DEF SearchEdge
<1>3. i \in 1 .. Len(edges) /\ i \in 1 .. MaxEdges /\ edges[i] \in Edge
  BY NextEdgesAre
<1>4. WalkOK(walk[t]) /\ t = Configurator
  BY <1>2 DEF TypeInv, OneSearcher
<1>5. CASE edges[i].child = walk[t].goal
  <2>1. edges' \in Seq(Edge) /\ Len(edges') =< MaxEdges
    <3>1. edges \in Seq(Edge) /\ Len(edges) \in Nat /\ Len(edges) =< MaxEdges
          /\ MaxEdges \in Nat /\ Len(edges) >= 1
      BY <1>3, ConstantTypes DEF TypeInv
    <3>2. edges' = SubSeq(edges, 1, Len(edges) - 1)
      BY <1>1, <1>5
    <3>3. edges' \in Seq(Edge) /\ Len(edges') = Len(edges) - 1
      BY ONLY <3>1, <3>2, FrontOf
    <3> QED
      BY ONLY <3>1, <3>3
  <2>2. /\ walk' \in [Contexts -> Walk]
        /\ \A u \in Contexts : WalkOK(walk'[u])
        /\ \A u \in Contexts : walk'[u].at = "search" => u = Configurator
    BY <1>1, <1>4, <1>5, IdleOK, OneWalk
  <2> QED
    BY <1>2, <2>1, <2>2 DEF TypeInv, OneSearcher
<1>6. CASE edges[i].child # walk[t].goal
  <2> DEFINE w == IF edges[i].child \in visited
                  THEN [walk[t] EXCEPT !.ei = i]
                  ELSE Pushed(walk[t], edges[i], i)
  <2>1. WalkOK(w)
    <3>1. WalkOK([walk[t] EXCEPT !.ei = i])
      BY <1>3, <1>4, LookedOK
    <3>2. WalkOK(Pushed(walk[t], edges[i], i))
      BY <1>2, <1>3, <1>4, PushedOK
    <3> QED
      BY <3>1, <3>2
  <2>2. walk' = [walk EXCEPT ![t] = w] /\ edges' = edges
    BY <1>1, <1>6
  <2> HIDE DEF w
  <2>3. /\ walk' \in [Contexts -> Walk]
        /\ \A u \in Contexts : WalkOK(walk'[u])
        /\ \A u \in Contexts : walk'[u].at = "search" => u = Configurator
    BY <1>4, <2>1, <2>2, OneWalk
  <2> QED
    BY <1>2, <2>2, <2>3 DEF TypeInv, OneSearcher
<1> QED
  BY <1>5, <1>6

LEMMA CascadeEdgeTypes ==
    ASSUME TypeInv, NEW t \in Contexts, CascadeEdge(t)
    PROVE  /\ TypeInv' /\ walk'[t].at = "cascade" /\ edges' = edges
           /\ visited' = visited /\ tainted' = tainted
           /\ walk'[t].exact => walk[t].exact
           /\ \A u \in Contexts \ {t} : walk'[u] = walk[u]
<1>1. PICK i \in NextEdges(t) :
        walk' = [walk EXCEPT ![t] =
                   IF edges[i].child \notin visited /\ Live(edges[i], walk[t].press)
                   THEN Pushed([walk[t] EXCEPT !.need = WithChild(@, edges[i])],
                               edges[i], i)
                   ELSE [walk[t] EXCEPT !.ei = i]]
  BY DEF CascadeEdge
<1>2. /\ visited' = visited /\ tainted' = tainted /\ edges' = edges
      /\ walk[t].at = "cascade"
  BY DEF CascadeEdge
<1>3. i \in 1 .. Len(edges) /\ i \in 1 .. MaxEdges /\ edges[i] \in Edge
      /\ walk[t].cur # NoOp
  BY NextEdgesAre
<1>4. WalkOK(walk[t]) /\ walk[t].depth < MaxDepth /\ walk[t] \in Walk
  BY <1>2, <1>3 DEF TypeInv, WalkOK
<1> DEFINE v == [walk[t] EXCEPT !.need = WithChild(@, edges[i])]
           w == IF edges[i].child \notin visited /\ Live(edges[i], walk[t].press)
                THEN Pushed(v, edges[i], i) ELSE [walk[t] EXCEPT !.ei = i]
<1>5. /\ WalkOK(v) /\ v.at = "cascade" /\ v.depth < MaxDepth
      /\ v.exact = walk[t].exact
  <2>1. WithChild(walk[t].need, edges[i]) \in [ResourceIds -> U16]
    BY <1>3, <1>4, NeedsType DEF Walk
  <2>2. v \in Walk
    BY <1>4, <2>1 DEF Walk
  <2> QED
    BY <1>2, <1>4, <2>2 DEF WalkOK, Walk
<1>6. WalkOK(w) /\ w.at = "cascade" /\ (w.exact => walk[t].exact)
  <2> DEFINE y == [walk[t] EXCEPT !.ei = i]
  <2>1. WalkOK(y) /\ y.at = "cascade" /\ y.exact = walk[t].exact
    BY <1>2, <1>3, <1>4, LookedOK DEF Walk
  <2> HIDE DEF v
  <2>2. /\ WalkOK(Pushed(v, edges[i], i))
        /\ Pushed(v, edges[i], i).at = "cascade"
        /\ Pushed(v, edges[i], i).exact => walk[t].exact
    BY <1>3, <1>5, PushedOK
  <2> HIDE DEF y
  <2>3. w = Pushed(v, edges[i], i) \/ w = y
    BY DEF y
  <2> QED
    BY <2>1, <2>2, <2>3
<1>7. walk' = [walk EXCEPT ![t] = w]
  BY <1>1
<1> HIDE DEF w
<1>8. /\ walk' \in [Contexts -> Walk]
      /\ \A u \in Contexts : WalkOK(walk'[u])
      /\ \A u \in Contexts : walk'[u].at = "search" => u = Configurator
  BY <1>6, <1>7, OneWalk
<1>9. walk'[t] = w /\ \A u \in Contexts \ {t} : walk'[u] = walk[u]
  BY <1>7 DEF TypeInv
<1> QED
  BY <1>2, <1>6, <1>7, <1>8, <1>9 DEF TypeInv, OneSearcher

(* The walk of one context ends, or is ready for the verdict. *)
LEMMA DoneTypes ==
    ASSUME TypeInv, NEW t \in Contexts,
           SearchDone(t) \/ CascadeDone(t) \/ Decide(t)
    PROVE  TypeInv' /\ edges' = edges
           /\ visited' = visited
           /\ walk'[t].at \in {"idle", "decide"}
           /\ (walk'[t].at = "idle" \/ walk'[t].exact = walk[t].exact)
           /\ walk[t].at # "idle"
           /\ \A u \in Contexts \ {t} : walk'[u] = walk[u]
<1> DEFINE y == [walk[t] EXCEPT !.at = "decide", !.cur = NoOp,
                                !.depth = 0, !.ei = 0]
<1>1. walk[t] \in Walk /\ WalkOK(walk[t])
  BY DEF TypeInv
<1>2. WalkOK(y) /\ y.at = "decide" /\ y.exact = walk[t].exact
  <2>1. 0 \in 0 .. MaxDepth /\ 0 \in 0 .. MaxEdges
    BY ConstantTypes
  <2>2. y \in Walk
    BY <1>1, <2>1 DEF Walk
  <2> QED
    BY <1>1, <2>2 DEF WalkOK, Walk
<1>3. walk' = [walk EXCEPT ![t] = Idle] \/ walk' = [walk EXCEPT ![t] = y]
  BY <1>1 DEF SearchDone, CascadeDone, Decide, TypeInv, Walk
<1> HIDE DEF y
<1>4. PICK w : /\ w = Idle \/ w = y
               /\ walk' = [walk EXCEPT ![t] = w]
  BY <1>3
<1>5. WalkOK(w) /\ w.at \in {"idle", "decide"}
      /\ (w.at = "idle" \/ w.exact = walk[t].exact)
  BY <1>2, <1>4, IdleOK
<1>6. /\ walk' \in [Contexts -> Walk]
      /\ \A u \in Contexts : WalkOK(walk'[u])
      /\ \A u \in Contexts : walk'[u].at = "search" => u = Configurator
  BY <1>4, <1>5, OneWalk
<1>7. walk'[t] = w /\ \A u \in Contexts \ {t} : walk'[u] = walk[u]
  BY <1>4 DEF TypeInv
<1>8. /\ edges' = edges /\ visited' = visited /\ tainted' \in BOOLEAN
      /\ walk[t].at # "idle"
  BY <1>1 DEF SearchDone, CascadeDone, Decide, TypeInv, Walk
<1> QED
  BY <1>5, <1>6, <1>7, <1>8 DEF TypeInv, OneSearcher

-----------------------------------------------------------------------------
(* The type invariant. *)

LEMMA ReinitTypes ==
    ASSUME TypeInv, Reinit
    PROVE  TypeInv'
<1>1. edges' \in Seq(Edge) /\ Len(edges') =< MaxEdges
  BY ConstantTypes DEF Reinit
<1> QED
  BY <1>1 DEF TypeInv, Reinit, OneSearcher

(* The arguments Next chooses have their types. *)
LEMMA Calls ==
    /\ \A c \in TriggerCalls : c[1] \in OpIds /\ c[2] \in OpIds /\ c[3] \in Weights
    /\ \A t \in Contexts : \A c \in CheckCalls[t] :
          c[1] \in OpIds /\ c[2] \in Pressures
<1>1. TriggerCalls \subseteq OpIds \X OpIds \X Weights
  BY CausalityAssumption
<1>2. \A t \in Contexts : CheckCalls[t] \subseteq OpIds \X Pressures
  BY CausalityAssumption
<1>3. ASSUME NEW c \in OpIds \X OpIds \X Weights
      PROVE  c[1] \in OpIds /\ c[2] \in OpIds /\ c[3] \in Weights
  OBVIOUS
<1>4. ASSUME NEW c \in OpIds \X Pressures
      PROVE  c[1] \in OpIds /\ c[2] \in Pressures
  OBVIOUS
<1> QED
  BY <1>1, <1>2, <1>3, <1>4

LEMMA TypeInit == Init => TypeInv
<1> SUFFICES ASSUME Init
             PROVE  TypeInv
  OBVIOUS
<1>1. walk \in [Contexts -> Walk] /\ \A t \in Contexts : walk[t] = Idle
  BY IdleOK DEF Init, WalkOK
<1>2. edges \in Seq(Edge) /\ Len(edges) =< MaxEdges
  BY ConstantTypes DEF Init
<1> QED
  BY <1>1, <1>2, IdleOK DEF Init, TypeInv, OneSearcher

LEMMA TypeNext == TypeInv /\ [Next]_vars => TypeInv'
<1> SUFFICES ASSUME TypeInv, [Next]_vars
             PROVE  TypeInv'
  OBVIOUS
<1>1. CASE Reinit
  BY <1>1, ReinitTypes
<1>2. ASSUME NEW c \in TriggerCalls, UpdateEdge(Configurator, c[1], c[2], c[3])
      PROVE  TypeInv'
  BY <1>2, Calls, ConstantTypes, UpdateEdgeTypes
<1>3. ASSUME NEW c \in TriggerCalls, AppendEdge(Configurator, c[1], c[2], c[3])
      PROVE  TypeInv'
  BY <1>3, Calls, AppendEdgeTypes
<1>4. ASSUME NEW t \in Contexts, NEW c \in CheckCalls[t],
             StartCascade(t, c[1], c[2])
      PROVE  TypeInv'
  BY <1>4, Calls, StartCascadeTypes
<1>5. ASSUME NEW t \in Contexts, Step(t)
      PROVE  TypeInv'
  <2>1. CASE Pop(t)
    BY <2>1, PopTypes
  <2>2. CASE SearchEdge(t)
    BY <2>2, SearchEdgeTypes
  <2>3. CASE CascadeEdge(t)
    BY <2>3, CascadeEdgeTypes
  <2>4. CASE SearchDone(t) \/ CascadeDone(t) \/ Decide(t)
    BY <2>4, DoneTypes
  <2> QED
    BY <1>5, <2>1, <2>2, <2>3, <2>4 DEF Step
<1>6. CASE UNCHANGED vars
  BY <1>6 DEF vars, TypeInv, OneSearcher
<1> QED
  BY <1>1, <1>2, <1>3, <1>4, <1>5, <1>6 DEF Next

(* Every table keeps its bounds and every walk its fields, however the     *)
(* walks of the contexts interleave: the stack never grows past its array, *)
(* no depth past the limit.                                                *)
THEOREM GraphTypeCorrect == Spec => []TypeOK
<1>1. TypeInv => TypeOK
  BY DEF TypeInv, TypeOK, WalkOK
<1> QED
  BY <1>1, TypeInit, TypeNext, PTL DEF Spec

-----------------------------------------------------------------------------
(* A walk that is exact has the bitmap for itself.                         *)

ExactInv ==
    \A t, u \in Contexts :
       (walk[t].at # "idle" /\ walk[t].exact /\ u # t) => walk[u].at = "idle"

(* No walk but t's changes, and t's is one that goes on, or ends. *)
LEMMA ExactKept ==
    ASSUME ExactInv, NEW t \in Contexts, walk[t].at # "idle",
           walk'[t].at # "idle" => (walk'[t].exact => walk[t].exact),
           \A u \in Contexts \ {t} : walk'[u] = walk[u]
    PROVE  ExactInv'
<1> SUFFICES ASSUME NEW v \in Contexts, NEW u \in Contexts,
                    walk'[v].at # "idle", walk'[v].exact, u # v
             PROVE  walk'[u].at = "idle"
  BY DEF ExactInv
<1>1. CASE v = t
  BY <1>1 DEF ExactInv
<1>2. CASE v # t
  <2>1. walk[v].at # "idle" /\ walk[v].exact
    BY <1>2
  <2>2. walk[t].at = "idle"
    BY <1>2, <2>1 DEF ExactInv
  <2> QED
    BY <2>2
<1> QED
  BY <1>1, <1>2

(* A walk starts, or a weight changes: the others are disturbed. *)
LEMMA ExactStarted ==
    ASSUME TypeInv, NEW t \in Contexts, walk[t].at = "idle",
           walk'[t].at # "idle" /\ walk'[t].exact => Alone(t),
           \A u \in Contexts \ {t} : walk'[u] = Disturbed(t, u)
    PROVE  ExactInv'
<1> SUFFICES ASSUME NEW v \in Contexts, NEW u \in Contexts,
                    walk'[v].at # "idle", walk'[v].exact, u # v
             PROVE  walk'[u].at = "idle"
  BY DEF ExactInv
<1>1. \A x \in Contexts \ {t} :
         /\ walk'[x].at = walk[x].at
         /\ ~(walk'[x].at # "idle" /\ walk'[x].exact)
  BY DisturbedOK DEF TypeInv
<1>2. v = t
  BY <1>1
<1>3. walk[u].at = "idle"
  BY <1>2 DEF Alone
<1> QED
  BY <1>1, <1>2, <1>3

-----------------------------------------------------------------------------
(* The search for a path back.                                             *)

(* The operations a search has seen: visited, or waiting on its stack. *)
Seen(w, seen, o) == o \in seen \/ \E j \in 1 .. Len(w.stack) : w.stack[j].op = o

(* What an undisturbed search knows: it has seen the child of the new edge *)
(* and not its parent, and every edge that leaves a visited operation, but *)
(* those of the one being expanded it has not come to, leads to what it    *)
(* has seen.                                                               *)
Closing(w, seen, es) ==
    /\ ~Seen(w, seen, w.goal)
    /\ Seen(w, seen, es[Len(es)].child)
    /\ \A i \in 1 .. Len(es) :
          es[i].parent \in seen /\ (es[i].parent # w.cur \/ i =< w.ei)
             => Seen(w, seen, es[i].child)

SearchInv ==
    walk[Configurator].at = "search" =>
       /\ Len(edges) > 0
       /\ edges[Len(edges)].parent = walk[Configurator].goal
       /\ walk[Configurator].exact => Closing(walk[Configurator], visited, edges)

(* A search starts with the child of the new edge. *)
LEMMA SearchStarts ==
    ASSUME TypeInv, NEW p \in OpIds, NEW c \in OpIds, NEW w \in Weights,
           AppendEdge(Configurator, p, c, w)
    PROVE  SearchInv'
<1>1. /\ Len(edges) \in Nat /\ Len(edges') = Len(edges) + 1
      /\ edges'[Len(edges) + 1].parent = p
      /\ edges'[Len(edges) + 1].child = c
      /\ visited' = {} /\ p # c
      /\ walk'[Configurator].goal = p
      /\ walk'[Configurator].stack = <<[op |-> c, depth |-> 0]>>
  <2>1. p # c
    BY DEF AppendEdge
  <2>2. Len(edges) \in Nat
    BY DEF TypeInv
  <2> QED
    BY <2>1, <2>2, AppendEdgeTypes
<1> DEFINE x == walk'[Configurator]
<1> HIDE DEF x
<1>2. \A o : Seen(x, visited', o) <=> o = c
  BY <1>1 DEF Seen, x
<1>3. Closing(x, visited', edges')
  BY <1>1, <1>2 DEF Closing, x
<1> QED
  BY <1>1, <1>3 DEF SearchInv, x

(* Taking an operation from the stack keeps what was seen. *)
LEMMA SearchPops ==
    ASSUME TypeInv, SearchInv, Pop(Configurator)
    PROVE  SearchInv'
<1> DEFINE t == Configurator
<1>1. t \in Contexts
  BY ConstantTypes
<1>2. PICK top \in Place, s \in Seq(Place), skip \in BOOLEAN :
         Popped(t, top, s, skip)
  BY <1>1, PopIs
<1>3. walk[t] \in Walk /\ Len(walk[t].stack) \in Nat \ {0}
  BY <1>1, <1>2 DEF TypeInv, Popped
<1> DEFINE w == walk[t]
           c == IF skip THEN NoOp ELSE top.op
           d == IF skip THEN 0 ELSE top.depth
<1>4. walk'[t] = [w EXCEPT !.stack = s, !.cur = c, !.depth = d, !.ei = 0]
  BY <1>1, <1>2 DEF Popped, TypeInv
<1> HIDE DEF c, d
<1>5. PICK x : x = walk'[t]
  OBVIOUS
<1>6. /\ x.stack = s /\ x.cur = c /\ x.ei = 0
      /\ x.at = w.at /\ x.goal = w.goal /\ x.exact = w.exact
  BY <1>3, <1>4, <1>5 DEF Walk
<1>7. /\ NextEdges(t) = {} /\ Len(s) = Len(w.stack) - 1
      /\ top = w.stack[Len(w.stack)]
      /\ \A j \in 1 .. Len(s) : s[j] = w.stack[j]
      /\ visited' = visited \cup {top.op} /\ edges' = edges
      /\ skip <=> (\/ top.op \in visited
                   \/ w.at = "cascade" /\ top.depth >= MaxDepth)
  BY <1>2 DEF Popped
<1> SUFFICES ASSUME x.at = "search"
             PROVE  /\ Len(edges) > 0 /\ edges[Len(edges)].parent = x.goal
                    /\ x.exact => Closing(x, visited', edges)
  BY <1>5, <1>7 DEF SearchInv
<1>8. Len(edges) > 0 /\ edges[Len(edges)].parent = x.goal
  BY <1>6 DEF SearchInv
<1>9. ASSUME w.exact
      PROVE  Closing(x, visited', edges)
  <2> DEFINE v == visited'
  <2>1. Closing(w, visited, edges)
    BY <1>6, <1>9 DEF SearchInv
  <2>2. \A o : Seen(x, v, o) <=> Seen(w, visited, o)
    <3>1. ASSUME NEW o, Seen(x, v, o)
          PROVE  Seen(w, visited, o)
      <4>1. CASE o \in visited
        BY <4>1 DEF Seen
      <4>2. CASE o = top.op
        <5>1. Len(w.stack) \in 1 .. Len(w.stack)
          BY <1>3
        <5> QED
          BY <1>7, <4>2, <5>1 DEF Seen
      <4>3. CASE \E j \in 1 .. Len(s) : s[j].op = o
        <5>1. PICK j \in 1 .. Len(s) : s[j].op = o
          BY <4>3
        <5>2. j \in 1 .. Len(w.stack) /\ w.stack[j].op = o
          BY <1>3, <1>7, <5>1
        <5> QED
          BY <5>2 DEF Seen
      <4> QED
        BY <1>6, <1>7, <3>1, <4>1, <4>2, <4>3 DEF Seen
    <3>2. ASSUME NEW o, Seen(w, visited, o)
          PROVE  Seen(x, v, o)
      <4>1. CASE o \in visited
        BY <1>7, <4>1 DEF Seen
      <4>2. CASE \E j \in 1 .. Len(w.stack) : w.stack[j].op = o
        <5>1. PICK j \in 1 .. Len(w.stack) : w.stack[j].op = o
          BY <4>2
        <5>2. CASE j = Len(w.stack)
          BY <1>7, <5>1, <5>2 DEF Seen
        <5>3. CASE j # Len(w.stack)
          <6>1. j \in 1 .. Len(s)
            BY <1>3, <1>7, <5>3
          <6> QED
            BY <1>6, <1>7, <5>1, <6>1 DEF Seen
        <5> QED
          BY <5>2, <5>3
      <4> QED
        BY <3>2, <4>1, <4>2 DEF Seen
    <3> QED
      BY <3>1, <3>2
  <2>3. ASSUME NEW i \in 1 .. Len(edges), edges[i].parent \in v,
               edges[i].parent # x.cur \/ i =< x.ei
        PROVE  Seen(w, visited, edges[i].child)
    <3>1. i > 0 /\ edges[i].parent # c
      BY <1>6, <2>3 DEF TypeInv
    <3>2. edges[i].parent \in visited
      BY <1>6, <1>7, <2>3, <3>1 DEF c
    <3>3. edges[i].parent = w.cur => i =< w.ei
      BY <1>1, <1>7, NoneMissed
    <3> QED
      BY <2>1, <3>2, <3>3 DEF Closing
  <2> HIDE DEF v
  <2> QED
    BY <1>6, <2>1, <2>2, <2>3 DEF Closing, v
<1> QED
  BY <1>6, <1>8, <1>9

(* Looking at an edge that does not close a cycle: its child was visited,  *)
(* or is put on the stack.                                                 *)
LEMMA SearchLooks ==
    ASSUME TypeInv, SearchInv, SearchEdge(Configurator)
    PROVE  SearchInv'
<1> DEFINE t == Configurator
           w == walk[t]
<1>1. t \in Contexts /\ w \in Walk /\ WalkOK(w)
  BY ConstantTypes DEF TypeInv
<1>2. PICK i \in NextEdges(t) :
        IF edges[i].child = w.goal
        THEN /\ edges' = SubSeq(edges, 1, Len(edges) - 1)
             /\ walk' = [walk EXCEPT ![t] = Idle]
        ELSE /\ walk' = [walk EXCEPT ![t] =
                           IF edges[i].child \in visited
                           THEN [w EXCEPT !.ei = i]
                           ELSE Pushed(w, edges[i], i)]
             /\ UNCHANGED edges
  BY DEF SearchEdge
<1>3. visited' = visited /\ w.at = "search"
  BY DEF SearchEdge
<1>4. /\ i \in 1 .. Len(edges) /\ edges[i] \in Edge
      /\ edges[i].parent = w.cur /\ w.ei < i
      /\ \A k \in w.ei + 1 .. i - 1 : edges[k].parent # w.cur
  BY <1>1, NextEdgesAre
<1>5. CASE edges[i].child = w.goal
  <2>1. walk'[t].at = "idle"
    BY <1>1, <1>2, <1>5, IdleOK DEF TypeInv
  <2> QED
    BY <2>1 DEF SearchInv
<1>6. CASE edges[i].child # w.goal
  <2> DEFINE e == edges[i]
             room == Len(w.stack) < StackSize
             s == IF e.child \in visited \/ ~room THEN w.stack
                  ELSE Append(w.stack, [op |-> e.child, depth |-> 0])
  <2>1. PICK x : x = walk'[t]
    OBVIOUS
  <2>2. x = IF e.child \in visited THEN [w EXCEPT !.ei = i] ELSE Pushed(w, e, i)
    BY <1>1, <1>2, <1>6, <2>1 DEF TypeInv
  <2>3. /\ x.stack = s /\ x.ei = i /\ x.cur = w.cur /\ x.goal = w.goal
        /\ x.at = "search"
        /\ x.exact => w.exact /\ (e.child \in visited \/ room)
    <3>1. CASE e.child \in visited
      BY <1>1, <1>3, <2>2, <3>1 DEF Walk
    <3>2. CASE e.child \notin visited
      BY <1>1, <1>3, <2>2, <3>2 DEF Walk, Pushed
    <3> QED
      BY <3>1, <3>2
  <2>4. edges' = edges
    BY <1>2, <1>6
  <2>5. ASSUME x.exact
        PROVE  Closing(x, visited, edges)
    <3>1. Closing(w, visited, edges)
      BY <1>3, <2>3, <2>5 DEF SearchInv
    <3>2. w.stack \in Seq(Place) /\ Len(w.stack) \in Nat
      BY <1>1 DEF Walk
    <3>3. \A o : Seen(x, visited, o) <=> Seen(w, visited, o) \/ o = e.child
      <4>1. CASE e.child \in visited
        BY <2>3, <4>1 DEF Seen
      <4>2. CASE e.child \notin visited
        <5> DEFINE a == [op |-> e.child, depth |-> 0]
        <5>1. s = Append(w.stack, a) /\ a.op = e.child
          BY <2>3, <2>5, <4>2
        <5>2. a \in Place
          BY <1>4, ConstantTypes DEF Place, Edge
        <5> HIDE DEF a, s
        <5>3. /\ Len(s) = Len(w.stack) + 1 /\ s[Len(w.stack) + 1] = a
              /\ \A j \in 1 .. Len(w.stack) : s[j] = w.stack[j]
          BY <3>2, <5>1, <5>2
        <5>4. \A j \in 1 .. Len(s) : j \in 1 .. Len(w.stack) \/ j = Len(w.stack) + 1
          BY <3>2, <5>3
        <5>5. Len(w.stack) + 1 \in 1 .. Len(s) /\ 1 .. Len(w.stack) \subseteq 1 .. Len(s)
          BY <3>2, <5>3
        <5> QED
          BY <2>3, <5>1, <5>3, <5>4, <5>5 DEF Seen
      <4> QED
        BY <4>1, <4>2
    <3>4. ASSUME NEW k \in 1 .. Len(edges), edges[k].parent \in visited,
                 edges[k].parent # x.cur \/ k =< x.ei
          PROVE  Seen(w, visited, edges[k].child) \/ k = i
      <4>1. w.ei \in Nat /\ i \in Nat /\ k \in Nat
        BY <1>1, <1>4, ConstantTypes DEF Walk, TypeInv
      <4>2. edges[k].parent # w.cur \/ k =< w.ei \/ k = i
        BY <1>4, <2>3, <3>4, <4>1
      <4> QED
        BY <3>1, <3>4, <4>2 DEF Closing
    <3> HIDE DEF e
    <3> QED
      BY <1>6, <2>3, <3>1, <3>3, <3>4 DEF Closing, e
  <2> QED
    BY <1>3, <2>1, <2>3, <2>4, <2>5 DEF SearchInv
<1> QED
  BY <1>5, <1>6

-----------------------------------------------------------------------------
(* Acyclic graphs.                                                         *)

(* An edge closes no cycle when some set of operations contains its child, *)
(* not its parent, and no edge leaves it: what the search establishes.     *)
LEMMA AcyclicAppend ==
    ASSUME NEW E, NEW V, NEW p, NEW c, AcyclicEdges(E),
           p \notin V, c \in V,
           \A a, b : <<a, b>> \in E /\ a \in V => b \in V
    PROVE  AcyclicEdges(E \cup {<<p, c>>})
<1> SUFFICES ASSUME NEW S \in SUBSET OpIds, S # {}
             PROVE  \E a \in S : \A b \in S : <<a, b>> \notin E \cup {<<p, c>>}
  BY DEF AcyclicEdges
<1>1. CASE S \cap V = {}
  <2>1. PICK a \in S : \A b \in S : <<a, b>> \notin E
    BY DEF AcyclicEdges
  <2>2. \A b \in S : <<a, b>> # <<p, c>>
    BY <1>1
  <2> QED
    BY <2>1, <2>2
<1>2. CASE S \cap V # {}
  <2>1. PICK a \in S \cap V : \A b \in S \cap V : <<a, b>> \notin E
    BY <1>2 DEF AcyclicEdges
  <2>2. \A b \in S : <<a, b>> \notin E
    BY <2>1
  <2>3. \A b \in S : <<a, b>> # <<p, c>>
    BY <2>1
  <2> QED
    BY <2>1, <2>2, <2>3
<1> QED
  BY <1>1, <1>2

(* Only which operations an edge joins matters. *)
LEMMA PairsAgree ==
    ASSUME NEW n \in Nat,
           \A i \in 1 .. n : /\ edges'[i].parent = edges[i].parent
                            /\ edges'[i].child = edges[i].child
    PROVE  Pairs(n)' = Pairs(n)
  BY DEF Pairs

LEMMA PairsNext ==
    ASSUME NEW n \in Nat
    PROVE  Pairs(n + 1) = Pairs(n) \cup
              {<<edges[n + 1].parent, edges[n + 1].child>>}
<1>1. 1 .. n + 1 = (1 .. n) \cup {n + 1}
  OBVIOUS
<1> QED
  BY <1>1 DEF Pairs

(* A search that ends without having met the parent leaves no cycle. *)
LEMMA SearchSound ==
    ASSUME TypeInv, SearchInv, SearchDone(Configurator),
           walk[Configurator].exact, AcyclicEdges(Pairs(Len(edges) - 1))
    PROVE  AcyclicEdges(Pairs(Len(edges)))
<1> DEFINE t == Configurator
           w == walk[t]
           n == Len(edges) - 1
<1>1. t \in Contexts /\ w \in Walk
  BY ConstantTypes DEF TypeInv
<1>2. w.at = "search" /\ NextEdges(t) = {} /\ w.stack = <<>>
  BY DEF SearchDone, Exhausted
<1>3. Closing(w, visited, edges) /\ Len(edges) > 0
      /\ edges[Len(edges)].parent = w.goal
  BY <1>2 DEF SearchInv
<1>4. n \in Nat /\ n + 1 = Len(edges)
  BY <1>3 DEF TypeInv
<1>5. \A o : Seen(w, visited, o) <=> o \in visited
  BY <1>2 DEF Seen
<1>6. \A i \in 1 .. Len(edges) :
         edges[i].parent \in visited => edges[i].child \in visited
  <2> SUFFICES ASSUME NEW i \in 1 .. Len(edges), edges[i].parent \in visited
               PROVE  edges[i].child \in visited
    OBVIOUS
  <2>1. edges[i].parent = w.cur => i =< w.ei
    BY <1>1, <1>2, NoneMissed
  <2> QED
    BY <1>3, <1>5, <2>1 DEF Closing
<1>7. w.goal \notin visited /\ edges[Len(edges)].child \in visited
  BY <1>3, <1>5 DEF Closing
<1>8. \A a, b : <<a, b>> \in Pairs(n) /\ a \in visited => b \in visited
  <2> SUFFICES ASSUME NEW a, NEW b, <<a, b>> \in Pairs(n), a \in visited
               PROVE  b \in visited
    OBVIOUS
  <2>1. PICK i \in 1 .. n : <<a, b>> = <<edges[i].parent, edges[i].child>>
    BY DEF Pairs
  <2>2. a = edges[i].parent /\ b = edges[i].child /\ i \in 1 .. Len(edges)
    BY <1>4, <2>1
  <2> QED
    BY <1>6, <2>2
<1>9. Pairs(Len(edges)) = Pairs(n) \cup
         {<<edges[Len(edges)].parent, edges[Len(edges)].child>>}
  BY <1>4, PairsNext
<1> DEFINE E == Pairs(n)
           c == edges[Len(edges)].child
<1>10. /\ AcyclicEdges(E) /\ w.goal \notin visited /\ c \in visited
       /\ \A a, b : <<a, b>> \in E /\ a \in visited => b \in visited
       /\ Pairs(Len(edges)) = E \cup {<<w.goal, c>>}
  BY <1>3, <1>7, <1>8, <1>9, Zenon
<1> HIDE DEF E, c, w, n
<1>11. AcyclicEdges(E \cup {<<w.goal, c>>})
  BY ONLY <1>10, AcyclicAppend
<1> QED
  BY <1>10, <1>11, Zenon

-----------------------------------------------------------------------------
(* The graph stays acyclic.                                                *)

GraphInv == TypeInv /\ ExactInv /\ SearchInv /\ AcyclicUnlessTainted

LEMMA GraphInit == Init => GraphInv
<1> SUFFICES ASSUME Init
             PROVE  GraphInv
  OBVIOUS
<1>1. TypeInv
  BY TypeInit
<1>2. \A t \in Contexts : walk[t].at = "idle"
  BY IdleOK DEF Init
<1>3. ExactInv /\ SearchInv
  BY <1>2, ConstantTypes DEF ExactInv, SearchInv
<1>4. Settled = {}
  BY <1>2, ConstantTypes DEF Init, Settled, Searching, Pairs
<1>5. AcyclicUnlessTainted
  BY <1>4 DEF AcyclicUnlessTainted, Acyclic, AcyclicEdges
<1> QED
  BY <1>1, <1>3, <1>5 DEF GraphInv

(* With the graph unchanged, a settled graph stays settled. *)
LEMMA SettledKept ==
    ASSUME TypeInv, AcyclicUnlessTainted, SearchInv, edges' = edges,
           tainted' = tainted,
           Searching' <=> Searching
    PROVE  AcyclicUnlessTainted'
<1>1. Settled' = Settled
  BY DEF Settled, Pairs
<1> QED
  BY <1>1 DEF AcyclicUnlessTainted, Acyclic

LEMMA ReinitKeeps ==
    ASSUME GraphInv, Reinit
    PROVE  GraphInv'
<1>1. TypeInv'
  BY ReinitTypes DEF GraphInv
<1>2. (\A t \in Contexts : walk'[t].at = "idle") /\ edges' = <<>>
  BY DEF Reinit
<1>3. ExactInv' /\ SearchInv'
  BY <1>2, ConstantTypes DEF ExactInv, SearchInv
<1>4. Settled' = {}
  BY <1>2, ConstantTypes DEF Settled, Searching, Pairs
<1>5. AcyclicUnlessTainted'
  BY <1>4 DEF AcyclicUnlessTainted, Acyclic, AcyclicEdges
<1> QED
  BY <1>1, <1>3, <1>5 DEF GraphInv

LEMMA UpdateEdgeKeeps ==
    ASSUME GraphInv, NEW p \in OpIds, NEW c \in OpIds, NEW w \in Weights,
           UpdateEdge(Configurator, p, c, w)
    PROVE  GraphInv'
<1> DEFINE t == Configurator
<1>0. t \in Contexts /\ TypeInv
  BY ConstantTypes DEF GraphInv
<1>1. /\ TypeInv' /\ Len(edges') = Len(edges) /\ Len(edges) \in Nat
      /\ \A i \in 1 .. Len(edges) : /\ edges'[i].parent = edges[i].parent
                                   /\ edges'[i].child = edges[i].child
  <2>1. Len(edges) \in Nat
    BY <1>0 DEF TypeInv
  <2> QED
    BY <1>0, <2>1, UpdateEdgeTypes
<1>2. walk[t].at = "idle" /\ tainted' = tainted
      /\ \A u \in Contexts : walk'[u] = Disturbed(t, u)
  BY DEF UpdateEdge
<1>3. walk'[t].at = "idle"
  BY <1>0, <1>2 DEF Disturbed
<1>4. ExactInv'
  BY <1>0, <1>2, <1>3, ExactStarted
<1>5. SearchInv'
  BY <1>3 DEF SearchInv
<1>6. Settled = Pairs(Len(edges)) /\ Settled' = Pairs(Len(edges))'
  <2>1. ~Searching /\ ~Searching'
    BY <1>2, <1>3 DEF Searching
  <2> QED
    BY <2>1 DEF Settled
<1>7. Pairs(Len(edges))' = Pairs(Len(edges))
  BY <1>1 DEF Pairs
<1>8. AcyclicUnlessTainted'
  BY <1>2, <1>6, <1>7 DEF GraphInv, AcyclicUnlessTainted, Acyclic
<1> QED
  BY <1>1, <1>4, <1>5, <1>8 DEF GraphInv

LEMMA AppendEdgeKeeps ==
    ASSUME GraphInv, NEW p \in OpIds, NEW c \in OpIds, NEW w \in Weights,
           AppendEdge(Configurator, p, c, w)
    PROVE  GraphInv'
<1> DEFINE t == Configurator
<1>0. t \in Contexts /\ TypeInv
  BY ConstantTypes DEF GraphInv
<1>1. /\ TypeInv' /\ Len(edges') = Len(edges) + 1 /\ Len(edges) \in Nat
      /\ \A i \in 1 .. Len(edges) : edges'[i] = edges[i]
      /\ tainted' = tainted /\ walk'[t].at = "search"
  <2>1. Len(edges) \in Nat
    BY <1>0 DEF TypeInv
  <2> QED
    BY <1>0, <2>1, AppendEdgeTypes
<1>2. walk[t].at = "idle"
      /\ (\A u \in Contexts \ {t} : walk'[u] = Disturbed(t, u))
      /\ (walk'[t].exact => Alone(t))
  <2> DEFINE x == [Idle EXCEPT !.at = "search", !.goal = p,
                               !.stack = <<[op |-> c, depth |-> 0]>>]
             a == Alone(t)
  <2>1. walk[t].at = "idle" /\ StartWalk(t, x)
    BY DEF AppendEdge
  <2>2. (\A u \in Contexts \ {t} : walk'[u] = Disturbed(t, u))
        /\ walk'[t] = NewSearch(p, c, a)
    BY <1>0, <2>1 DEF StartWalk, NewSearch
  <2>3. a \in BOOLEAN
    BY DEF Alone
  <2> HIDE DEF a
  <2>4. NewSearch(p, c, a).exact = a
    BY <2>3, SearchOK
  <2>5. walk'[t].exact = a
    BY <2>2, <2>4
  <2> QED
    BY <2>1, <2>2, <2>5 DEF a
<1>3. ExactInv'
  BY <1>0, <1>2, ExactStarted
<1>4. SearchInv'
  BY <1>0, SearchStarts
<1>5. Settled = Pairs(Len(edges)) /\ Settled' = Pairs(Len(edges) - 1)'
  <2>1. ~Searching /\ Searching'
    BY <1>1, <1>2 DEF Searching
  <2> QED
    BY <2>1 DEF Settled
<1>6. Pairs(Len(edges) - 1)' = Pairs(Len(edges))
  <2>1. Len(edges') - 1 = Len(edges)
    BY <1>1
  <2> QED
    BY <1>1, <2>1 DEF Pairs
<1>7. AcyclicUnlessTainted'
  BY <1>1, <1>5, <1>6 DEF GraphInv, AcyclicUnlessTainted, Acyclic
<1> QED
  BY <1>1, <1>3, <1>4, <1>7 DEF GraphInv

LEMMA StartCascadeKeeps ==
    ASSUME GraphInv, NEW t \in Contexts, NEW o \in OpIds,
           NEW press \in Pressures, StartCascade(t, o, press)
    PROVE  GraphInv'
<1>0. Configurator \in Contexts /\ TypeInv
  BY ConstantTypes DEF GraphInv
<1>1. /\ TypeInv' /\ edges' = edges /\ tainted' = tainted
      /\ walk[t].at = "idle" /\ walk'[t].at = "cascade"
  BY <1>0, StartCascadeTypes
<1>2. (\A u \in Contexts \ {t} : walk'[u] = Disturbed(t, u))
      /\ (walk'[t].exact => Alone(t))
  <2> DEFINE x == [Idle EXCEPT !.at = "cascade", !.goal = o,
                               !.press = press, !.need = OwnNeed(o),
                               !.stack = <<[op |-> o, depth |-> 0]>>]
             a == Alone(t)
  <2>1. StartWalk(t, x)
    BY DEF StartCascade
  <2>2. (\A u \in Contexts \ {t} : walk'[u] = Disturbed(t, u))
        /\ walk'[t] = NewCascade(o, press, a)
    BY <2>1 DEF StartWalk, NewCascade
  <2>3. a \in BOOLEAN
    BY DEF Alone
  <2> HIDE DEF a
  <2>4. walk'[t].exact = a
    BY <2>2, <2>3, CascadeOK
  <2> QED
    BY <2>2, <2>4 DEF a
<1>3. ExactInv'
  BY <1>0, <1>1, <1>2, ExactStarted
<1>4. Configurator # t =>
         /\ walk'[Configurator].at = walk[Configurator].at
         /\ walk'[Configurator].goal = walk[Configurator].goal
         /\ walk'[Configurator].at = "search" => ~walk'[Configurator].exact
  <2> SUFFICES ASSUME Configurator # t
               PROVE  /\ walk'[Configurator].at = walk[Configurator].at
                      /\ walk'[Configurator].goal = walk[Configurator].goal
                      /\ walk'[Configurator].at = "search"
                            => ~walk'[Configurator].exact
    OBVIOUS
  <2>1. walk[Configurator] \in Walk
    BY <1>0 DEF TypeInv
  <2>2. walk'[Configurator] = Disturbed(t, Configurator)
    BY <1>0, <1>2
  <2> QED
    BY <2>1, <2>2 DEF Disturbed, Walk
<1>5. SearchInv'
  BY <1>0, <1>1, <1>4 DEF GraphInv, SearchInv
<1>6. Searching' <=> Searching
  BY <1>1, <1>4 DEF Searching
<1>7. AcyclicUnlessTainted'
  BY <1>0, <1>1, <1>6, SettledKept DEF GraphInv
<1> QED
  BY <1>1, <1>3, <1>5, <1>7 DEF GraphInv

(* A step of a walk that another context than the configurator makes: the  *)
(* configurator's own search is no longer exact.                           *)
LEMMA OthersKeep ==
    ASSUME GraphInv, NEW t \in Contexts, t # Configurator,
           walk[t].at # "idle", TypeInv', ExactInv',
           edges' = edges, tainted' = tainted,
           \A u \in Contexts \ {t} : walk'[u] = walk[u]
    PROVE  GraphInv'
<1>1. Configurator \in Contexts /\ walk'[Configurator] = walk[Configurator]
  BY ConstantTypes
<1>2. walk[Configurator].at = "search" => ~walk[Configurator].exact
  BY <1>1 DEF GraphInv, ExactInv
<1>3. SearchInv'
  BY <1>1, <1>2 DEF GraphInv, SearchInv
<1>4. Searching' <=> Searching
  BY <1>1 DEF Searching
<1>5. AcyclicUnlessTainted'
  BY <1>4, SettledKept DEF GraphInv
<1> QED
  BY <1>3, <1>5 DEF GraphInv

LEMMA PopKeeps ==
    ASSUME GraphInv, NEW t \in Contexts, Pop(t)
    PROVE  GraphInv'
<1>1. TypeInv /\ TypeInv'
  BY PopTypes DEF GraphInv
<1>2. PICK top \in Place, s \in Seq(Place), skip \in BOOLEAN :
         Popped(t, top, s, skip)
  BY <1>1, PopIs
<1> DEFINE c == IF skip THEN NoOp ELSE top.op
           d == IF skip THEN 0 ELSE top.depth
           w == [walk[t] EXCEPT !.stack = s, !.cur = c, !.depth = d, !.ei = 0]
<1>3. /\ edges' = edges /\ tainted' = tainted
      /\ walk[t].at # "idle"
      /\ walk' = [walk EXCEPT ![t] = w]
  BY <1>2 DEF Popped, Walking
<1> HIDE DEF c, d
<1>4. w.at = walk[t].at /\ w.exact = walk[t].exact
  BY <1>1 DEF TypeInv, Walk
<1> HIDE DEF w
<1>5. walk'[t] = w /\ \A u \in Contexts \ {t} : walk'[u] = walk[u]
  BY <1>1, <1>3 DEF TypeInv
<1>6. ExactInv'
  BY <1>3, <1>4, <1>5, ExactKept DEF GraphInv
<1>7. CASE t = Configurator
  <2>1. SearchInv'
    BY <1>1, <1>7, SearchPops DEF GraphInv
  <2>2. Searching' <=> Searching
    BY <1>4, <1>5, <1>7 DEF Searching
  <2>3. AcyclicUnlessTainted'
    BY <1>1, <1>3, <2>2, SettledKept DEF GraphInv
  <2> QED
    BY <1>1, <1>6, <2>1, <2>3 DEF GraphInv
<1>8. CASE t # Configurator
  BY <1>1, <1>3, <1>5, <1>6, <1>8, OthersKeep
<1> QED
  BY <1>7, <1>8

LEMMA SearchEdgeKeeps ==
    ASSUME GraphInv, NEW t \in Contexts, SearchEdge(t)
    PROVE  GraphInv'
<1>1. TypeInv /\ TypeInv' /\ t = Configurator /\ walk[t].at = "search"
  BY SearchEdgeTypes DEF GraphInv, SearchEdge, TypeInv, OneSearcher
<1>2. SearchInv'
  BY <1>1, SearchLooks DEF GraphInv
<1>3. PICK i \in NextEdges(t) :
        IF edges[i].child = walk[t].goal
        THEN /\ edges' = SubSeq(edges, 1, Len(edges) - 1)
             /\ walk' = [walk EXCEPT ![t] = Idle]
        ELSE /\ walk' = [walk EXCEPT ![t] =
                           IF edges[i].child \in visited
                           THEN [walk[t] EXCEPT !.ei = i]
                           ELSE Pushed(walk[t], edges[i], i)]
             /\ UNCHANGED edges
  BY DEF SearchEdge
<1>4. i \in 1 .. Len(edges) /\ i \in 1 .. MaxEdges /\ edges[i] \in Edge
  BY <1>1, NextEdgesAre
<1>5. tainted' = tainted /\ \A u \in Contexts \ {t} : walk'[u] = walk[u]
  BY <1>1, <1>3 DEF SearchEdge, TypeInv
<1>6. CASE edges[i].child = walk[t].goal
  <2>1. walk'[t].at = "idle"
    BY <1>1, <1>3, <1>6, IdleOK DEF TypeInv
  <2>2. ExactInv'
    BY <1>1, <1>5, <2>1, ExactKept DEF GraphInv
  <2>3. /\ edges' = SubSeq(edges, 1, Len(edges) - 1)
        /\ edges \in Seq(Edge) /\ Len(edges) \in Nat \ {0}
    BY <1>1, <1>3, <1>4, <1>6 DEF TypeInv
  <2>4. Len(edges') = Len(edges) - 1
        /\ \A k \in 1 .. Len(edges) - 1 : edges'[k] = edges[k]
    BY <2>3, FrontOf
  <2>5. Settled = Pairs(Len(edges) - 1) /\ Settled' = Pairs(Len(edges))'
    BY <1>1, <2>1 DEF Settled, Searching
  <2>6. Pairs(Len(edges))' = Pairs(Len(edges) - 1)
    BY <2>4 DEF Pairs
  <2>7. AcyclicUnlessTainted'
    BY <1>5, <2>5, <2>6 DEF GraphInv, AcyclicUnlessTainted, Acyclic
  <2> QED
    BY <1>1, <1>2, <2>2, <2>7 DEF GraphInv
<1>7. CASE edges[i].child # walk[t].goal
  <2> DEFINE w == IF edges[i].child \in visited
                  THEN [walk[t] EXCEPT !.ei = i]
                  ELSE Pushed(walk[t], edges[i], i)
  <2>1. WalkOK(walk[t]) /\ walk[t] \in Walk
    BY <1>1 DEF TypeInv
  <2>2. w.at = "search" /\ (w.exact => walk[t].exact)
    <3>1. CASE edges[i].child \in visited
      BY <1>1, <2>1, <3>1 DEF Walk
    <3>2. CASE edges[i].child \notin visited
      BY <1>1, <1>4, <2>1, <3>2, PushedOK
    <3> QED
      BY <3>1, <3>2
  <2>3. walk'[t] = w /\ edges' = edges
    BY <1>1, <1>3, <1>7 DEF TypeInv
  <2> HIDE DEF w
  <2>4. ExactInv'
    BY <1>1, <1>5, <2>2, <2>3, ExactKept DEF GraphInv
  <2>5. Searching' <=> Searching
    BY <1>1, <2>2, <2>3 DEF Searching
  <2>6. AcyclicUnlessTainted'
    BY <1>1, <1>5, <2>3, <2>5, SettledKept DEF GraphInv
  <2> QED
    BY <1>1, <1>2, <2>4, <2>6 DEF GraphInv
<1> QED
  BY <1>6, <1>7

LEMMA CascadeEdgeKeeps ==
    ASSUME GraphInv, NEW t \in Contexts, CascadeEdge(t)
    PROVE  GraphInv'
<1>1. TypeInv /\ Configurator \in Contexts
  BY ConstantTypes DEF GraphInv
<1>2. /\ TypeInv' /\ walk'[t].at = "cascade" /\ edges' = edges
      /\ tainted' = tainted
      /\ walk'[t].exact => walk[t].exact
      /\ \A u \in Contexts \ {t} : walk'[u] = walk[u]
  BY <1>1, CascadeEdgeTypes
<1>3. walk[t].at = "cascade"
  BY DEF CascadeEdge
<1>4. ExactInv'
  BY <1>2, <1>3, ExactKept DEF GraphInv
<1>5. CASE t # Configurator
  BY <1>2, <1>3, <1>4, <1>5, OthersKeep
<1>6. CASE t = Configurator
  <2>1. SearchInv' /\ (Searching' <=> Searching)
    BY <1>2, <1>3, <1>6 DEF SearchInv, Searching
  <2> QED
    BY <1>1, <1>2, <1>4, <2>1, SettledKept DEF GraphInv
<1> QED
  BY <1>5, <1>6

LEMMA DoneKeeps ==
    ASSUME GraphInv, NEW t \in Contexts,
           SearchDone(t) \/ CascadeDone(t) \/ Decide(t)
    PROVE  GraphInv'
<1>1. TypeInv /\ Configurator \in Contexts
  BY ConstantTypes DEF GraphInv
<1>2. /\ TypeInv' /\ edges' = edges
      /\ walk'[t].at \in {"idle", "decide"}
      /\ (walk'[t].at = "idle" \/ walk'[t].exact = walk[t].exact)
      /\ walk[t].at # "idle"
      /\ \A u \in Contexts \ {t} : walk'[u] = walk[u]
  BY <1>1, DoneTypes
<1>3. ExactInv'
  BY <1>2, ExactKept DEF GraphInv
<1>4. CASE CascadeDone(t) \/ Decide(t)
  <2>1. tainted' = tainted /\ walk[t].at \in {"cascade", "decide"}
    BY <1>4 DEF CascadeDone, Decide
  <2>2. CASE t # Configurator
    BY <1>2, <1>3, <2>1, <2>2, OthersKeep
  <2>3. CASE t = Configurator
    <3>1. SearchInv' /\ (Searching' <=> Searching)
      BY <1>2, <2>1, <2>3 DEF SearchInv, Searching
    <3> QED
      BY <1>1, <1>2, <1>3, <2>1, <3>1, SettledKept DEF GraphInv
  <2> QED
    BY <2>2, <2>3
<1>5. CASE SearchDone(t)
  <2>1. walk[t].at = "search" /\ t = Configurator
        /\ tainted' = (tainted \/ ~walk[t].exact)
    BY <1>1, <1>5 DEF SearchDone, TypeInv, OneSearcher
  <2>2. walk'[t].at # "search"
    BY <1>2
  <2>3. SearchInv'
    BY <2>1, <2>2 DEF SearchInv
  <2>4. Settled = Pairs(Len(edges) - 1) /\ Settled' = Pairs(Len(edges))
    <3>1. Searching /\ ~Searching'
      BY <2>1, <2>2 DEF Searching
    <3> QED
      BY <1>2, <3>1 DEF Settled, Pairs
  <2>5. ASSUME ~tainted'
        PROVE  AcyclicEdges(Settled')
    <3>1. walk[t].exact /\ AcyclicEdges(Pairs(Len(edges) - 1))
      BY <2>1, <2>4, <2>5 DEF GraphInv, AcyclicUnlessTainted, Acyclic
    <3> QED
      BY <1>1, <1>5, <2>1, <2>4, <3>1, SearchSound DEF GraphInv
  <2>6. AcyclicUnlessTainted'
    BY <2>5 DEF AcyclicUnlessTainted, Acyclic, AcyclicEdges
  <2> QED
    BY <1>2, <1>3, <2>3, <2>6 DEF GraphInv
<1> QED
  BY <1>4, <1>5

LEMMA GraphNext == GraphInv /\ [Next]_vars => GraphInv'
<1> SUFFICES ASSUME GraphInv, [Next]_vars
             PROVE  GraphInv'
  OBVIOUS
<1>1. CASE Reinit
  BY <1>1, ReinitKeeps
<1>2. ASSUME NEW c \in TriggerCalls, UpdateEdge(Configurator, c[1], c[2], c[3])
      PROVE  GraphInv'
  BY <1>2, Calls, UpdateEdgeKeeps
<1>3. ASSUME NEW c \in TriggerCalls, AppendEdge(Configurator, c[1], c[2], c[3])
      PROVE  GraphInv'
  BY <1>3, Calls, AppendEdgeKeeps
<1>4. ASSUME NEW t \in Contexts, NEW c \in CheckCalls[t],
             StartCascade(t, c[1], c[2])
      PROVE  GraphInv'
  BY <1>4, Calls, StartCascadeKeeps
<1>5. ASSUME NEW t \in Contexts, Step(t)
      PROVE  GraphInv'
  <2>1. CASE Pop(t)
    BY <2>1, PopKeeps
  <2>2. CASE SearchEdge(t)
    BY <2>2, SearchEdgeKeeps
  <2>3. CASE CascadeEdge(t)
    BY <2>3, CascadeEdgeKeeps
  <2>4. CASE SearchDone(t) \/ CascadeDone(t) \/ Decide(t)
    BY <2>4, DoneKeeps
  <2> QED
    BY <1>5, <2>1, <2>2, <2>3, <2>4 DEF Step
<1>6. CASE UNCHANGED vars
  <2>1. TypeInv' /\ ExactInv'
    BY <1>6 DEF vars, GraphInv, TypeInv, OneSearcher, ExactInv
  <2>2. SearchInv'
    BY <1>6 DEF vars, GraphInv, SearchInv
  <2>3. AcyclicUnlessTainted'
    BY <1>6, SettledKept DEF vars, GraphInv, Searching
  <2> QED
    BY <2>1, <2>2, <2>3 DEF GraphInv
<1> QED
  BY <1>1, <1>2, <1>3, <1>4, <1>5, <1>6 DEF Next

(* Cycle detection at registration: the depth-first search of              *)
(* op_may_trigger, which appends the edge first and shares its bitmap with *)
(* every check, lets no cycle in unless a search was disturbed or ran out  *)
(* of stack.                                                               *)
THEOREM GraphStaysAcyclic == Spec => []AcyclicUnlessTainted
<1>1. GraphInv => AcyclicUnlessTainted
  BY DEF GraphInv
<1> QED
  BY <1>1, GraphInit, GraphNext, PTL DEF Spec

-----------------------------------------------------------------------------
(* What an operation may trigger, and the sums over it.  The edge table is *)
(* a parameter, as it is of the definitions.                               *)

(* The least set with the operation that live edges do not leave. *)
LEMMA DownstreamIs ==
    ASSUME NEW E \in Seq(Edge), NEW o \in OpIds, NEW p
    PROVE  /\ Downstream(E, o, p) \in SUBSET OpIds
           /\ o \in Downstream(E, o, p)
           /\ Closed(E, Downstream(E, o, p), p)
           /\ \A S \in SUBSET OpIds :
                 o \in S /\ Closed(E, S, p) => Downstream(E, o, p) \subseteq S
<1> DEFINE D == Downstream(E, o, p)
<1>1. D \in SUBSET OpIds /\ o \in D
  BY DEF Downstream
<1>2. \A S \in SUBSET OpIds : o \in S /\ Closed(E, S, p) => D \subseteq S
  BY DEF Downstream
<1>3. Closed(E, D, p)
  <2> SUFFICES ASSUME NEW i \in LiveFrom(E, D, p)
               PROVE  E[i].child \in D
    BY DEF Closed
  <2>1. i \in 1 .. Len(E) /\ E[i].parent \in D /\ Live(E[i], p)
    BY DEF LiveFrom
  <2>2. E[i].child \in OpIds
    <3>1. E[i] \in Edge
      BY <2>1
    <3> QED
      BY <3>1 DEF Edge
  <2>3. ASSUME NEW S \in SUBSET OpIds, o \in S, Closed(E, S, p)
        PROVE  E[i].child \in S
    <3>1. i \in LiveFrom(E, S, p)
      BY <1>2, <2>1, <2>3 DEF LiveFrom
    <3> QED
      BY <2>3, <3>1 DEF Closed
  <2> QED
    BY <2>2, <2>3 DEF Downstream
<1> QED
  BY <1>1, <1>2, <1>3

LEMMA CostType ==
    ASSUME NEW E \in Seq(Edge), NEW i \in 1 .. Len(E), NEW r \in ResourceIds
    PROVE  Cost(E, i, r) \in Nat
<1>1. E[i] \in Edge
  OBVIOUS
<1>2. NeedOf(E[i].child, r) \in Nat /\ E[i].weight \in Weights
  BY <1>1, NeedOfType, SizesAssumption DEF Edge, U16
<1> QED
  BY <1>2, ScaledType DEF Cost

(* An edge costs no less than the lightest to the same operation. *)
LEMMA LightestIs ==
    ASSUME NEW E \in Seq(Edge), NEW S, NEW p, NEW r \in ResourceIds,
           NEW i \in LiveFrom(E, S, p)
    PROVE  /\ Lightest(E, S, E[i].child, p, r) \in Nat
           /\ Lightest(E, S, E[i].child, p, r) =< Cost(E, i, r)
<1> DEFINE J == {j \in LiveFrom(E, S, p) : E[j].child = E[i].child}
           C == {Cost(E, j, r) : j \in J}
<1>1. \A j \in LiveFrom(E, S, p) : Cost(E, j, r) \in Nat
  BY CostType DEF LiveFrom
<1>2. C \in SUBSET Nat /\ Cost(E, i, r) \in C
  BY <1>1
<1>3. Lightest(E, S, E[i].child, p, r) = Min(C)
  BY DEF Lightest
<1> HIDE DEF C
<1>4. Min(C) \in C /\ Min(C) =< Cost(E, i, r)
  BY <1>2, MinIn
<1> QED
  BY <1>2, <1>3, <1>4

(* Over the part S of T, g is f; it is 0 over the rest. *)
PartOf(S, f, T, g) ==
    /\ S \in SUBSET T /\ f \in [S -> Nat] /\ g \in [T -> Nat]
    /\ \A x \in S : g[x] = f[x]
    /\ \A x \in T \ S : g[x] = 0

(* A sum over a part, and the same sum over the whole. *)
LEMMA SumOfPart ==
    ASSUME NEW S, NEW f, NEW T, NEW g, PartOf(S, f, T, g)
    PROVE  SumOf(f) = SumOf(g)
<1>1. DOMAIN f = S /\ DOMAIN g = T /\ S \in SUBSET T
  BY DEF PartOf
<1>2. /\ \A x \in S : x \in T /\ 1 .. g[x] = 1 .. f[x]
      /\ \A x \in T \ S : 1 .. g[x] = {}
  BY DEF PartOf
<1>3. Units(f) = Units(g)
  <2>1. ASSUME NEW u \in Units(f) PROVE u \in Units(g)
    <3>1. PICK x \in S : u \in {x} \X (1 .. f[x])
      BY <1>1, <2>1 DEF Units
    <3>2. u \in {x} \X (1 .. g[x])
      BY <1>2, <3>1
    <3> QED
      BY <1>1, <3>2 DEF Units
  <2>2. ASSUME NEW u \in Units(g) PROVE u \in Units(f)
    <3>1. PICK x \in T : u \in {x} \X (1 .. g[x])
      BY <1>1, <2>2 DEF Units
    <3>2. x \in S /\ u \in {x} \X (1 .. f[x])
      BY <1>2, <3>1
    <3> QED
      BY <1>1, <3>2 DEF Units
  <2> QED
    BY <2>1, <2>2
<1> QED
  BY <1>3 DEF SumOf

(* One more member of the part. *)
LEMMA SumOfMore ==
    ASSUME NEW T, IsFiniteSet(T), NEW S \in SUBSET T, NEW x \in T, x \notin S,
           NEW f, \A y \in S \cup {x} : f[y] \in Nat
    PROVE  /\ SumOf([y \in T |-> IF y \in S THEN f[y] ELSE 0]) \in Nat
           /\ SumOf([y \in T |-> IF y \in S \cup {x} THEN f[y] ELSE 0])
                = SumOf([y \in T |-> IF y \in S THEN f[y] ELSE 0]) + f[x]
<1> DEFINE g == [y \in T |-> IF y \in S THEN f[y] ELSE 0]
           h == [y \in T |-> IF y \in S \cup {x} THEN f[y] ELSE 0]
<1>1. g \in [T -> Nat] /\ g[x] = 0 /\ f[x] \in Nat
  OBVIOUS
<1>2. h = [g EXCEPT ![x] = f[x]]
  OBVIOUS
<1> HIDE DEF g, h
<1>3. /\ SumOf(g) \in Nat
      /\ SumOf([g EXCEPT ![x] = f[x]]) = SumOf(g) - g[x] + f[x]
  BY <1>1, SumUpdate
<1>4. SumOf(h) = SumOf(g) + f[x]
  BY <1>1, <1>2, <1>3
<1> QED
  BY <1>3, <1>4 DEF g, h

(* Saturating at each addition is saturating once, and keeps the order. *)
LEMMA SaturatedSum ==
    ASSUME NEW a \in Nat, NEW b \in Nat
    PROVE  /\ Saturated(a) \in Nat
           /\ Saturated(Saturated(a) + b) = Saturated(a + b)
           /\ a =< b => Saturated(a) =< Saturated(b)
<1>1. U16_MAX \in Nat
  BY SizesAssumption
<1> QED
  BY <1>1 DEF Saturated

-----------------------------------------------------------------------------
(* The cascade of a check.                                                 *)

(* The operations a walk has met: visited, or waiting on its stack. *)
Met(w, V) == V \cup {w.stack[j].op : j \in 1 .. Len(w.stack)}

(* The live edges it has looked at, and those of the operations it passed  *)
(* over.                                                                   *)
Looked(E, w, V) ==
    {i \in LiveFrom(E, V, w.press) : E[i].parent = w.cur => i =< w.ei}

(* A live path of d edges leads from o to c. *)
PathTo(E, o, p, c, d) ==
    \E f \in [0 .. d -> OpIds] :
       f[0] = o /\ f[d] = c /\ \A k \in 0 .. d - 1 : Triggers(E, f[k], f[k + 1], p)

(* What the walk has met is downstream, it knows a path as long as the     *)
(* depth it notes, and if no path is longer than MaxDepth, it has met what *)
(* the edges it has looked at lead to.                                     *)
Traced(E, w, V) ==
    LET o == w.goal
        p == w.press
    IN  /\ o \in Met(w, V)
        /\ Met(w, V) \subseteq Downstream(E, o, p)
        /\ \A c \in Met(w, V) \ {o} :
              \E i \in LiveFrom(E, Downstream(E, o, p), p) : E[i].child = c
        /\ \A j \in 1 .. Len(w.stack) :
              PathTo(E, o, p, w.stack[j].op, w.stack[j].depth)
        /\ w.cur # NoOp => w.cur \in V /\ PathTo(E, o, p, w.cur, w.depth)
        /\ NoLongPath(E, o, p) =>
              \A i \in Looked(E, w, V) : E[i].child \in Met(w, V)

EdgeCosts(E, X, r) ==
    [i \in 1 .. Len(E) |-> IF i \in X THEN Cost(E, i, r) ELSE 0]

OpCosts(E, o, p, M, r) ==
    [c \in OpIds |-> IF c \in M
                     THEN Lightest(E, Downstream(E, o, p), c, p, r) ELSE 0]

(* It has counted no edge twice, and every operation it has met once.      *)
Charged(E, w, V) ==
    \A r \in ResourceIds :
       LET own == OwnNeed(w.goal)[r]
       IN  /\ w.need[r]
                =< Saturated(own + SumOf(EdgeCosts(E, Looked(E, w, V), r)))
           /\ Saturated(own + SumOf(OpCosts(E, w.goal, w.press,
                                            Met(w, V) \ {w.goal}, r)))
                =< w.need[r]

(* The context of what follows: a table, a walk and its bitmap. *)
Graph(E, w, V) == E \in Seq(Edge) /\ w \in Walk /\ w.goal \in OpIds
                  /\ V \in SUBSET OpIds

-----------------------------------------------------------------------------
(* Sums over the edges and the operations.                                 *)

LEMMA EdgeSum ==
    ASSUME NEW E \in Seq(Edge), NEW r \in ResourceIds, NEW X \in SUBSET (1 .. Len(E))
    PROVE  /\ SumOf(EdgeCosts(E, X, r)) \in Nat
           /\ \A Y \in SUBSET (1 .. Len(E)) : X \subseteq Y =>
                 SumOf(EdgeCosts(E, X, r)) =< SumOf(EdgeCosts(E, Y, r))
           /\ \A i \in (1 .. Len(E)) \ X :
                 SumOf(EdgeCosts(E, X \cup {i}, r))
                   = SumOf(EdgeCosts(E, X, r)) + Cost(E, i, r)
<1> DEFINE T == 1 .. Len(E)
           f == [i \in T |-> Cost(E, i, r)]
<1>1. IsFiniteSet(T)
  BY FS_Interval
<1>2. \A Y \in SUBSET T :
         /\ EdgeCosts(E, Y, r) \in [T -> Nat]
         /\ EdgeCosts(E, Y, r) = [y \in T |-> IF y \in Y THEN f[y] ELSE 0]
  BY CostType DEF EdgeCosts
<1>3. SumOf(EdgeCosts(E, X, r)) \in Nat
  BY <1>1, <1>2, SumNat
<1>4. ASSUME NEW Y \in SUBSET T, X \subseteq Y
      PROVE  SumOf(EdgeCosts(E, X, r)) =< SumOf(EdgeCosts(E, Y, r))
  <2>1. \A x \in T : EdgeCosts(E, X, r)[x] =< EdgeCosts(E, Y, r)[x]
    BY <1>4, CostType DEF EdgeCosts
  <2> QED
    BY <1>1, <1>2, <2>1, SumMonotone
<1>5. ASSUME NEW i \in T, i \notin X
      PROVE  SumOf(EdgeCosts(E, X \cup {i}, r))
               = SumOf(EdgeCosts(E, X, r)) + Cost(E, i, r)
  <2> DEFINE g == EdgeCosts(E, X, r)
  <2>1. g \in [T -> Nat] /\ g[i] = 0 /\ Cost(E, i, r) \in Nat
    BY <1>5, CostType DEF EdgeCosts
  <2>2. EdgeCosts(E, X \cup {i}, r) = [g EXCEPT ![i] = Cost(E, i, r)]
    BY DEF EdgeCosts
  <2> HIDE DEF g, T
  <2>3. SumOf([g EXCEPT ![i] = Cost(E, i, r)]) = SumOf(g) - g[i] + Cost(E, i, r)
        /\ SumOf(g) \in Nat
    BY <1>1, <2>1, SumUpdate
  <2>4. SumOf(EdgeCosts(E, X \cup {i}, r)) = SumOf(g) + Cost(E, i, r)
    BY <2>1, <2>2, <2>3
  <2> QED
    BY <2>4 DEF g
<1> QED
  BY <1>3, <1>4, <1>5

LEMMA OpSum ==
    ASSUME NEW E \in Seq(Edge), NEW o \in OpIds, NEW p, NEW r \in ResourceIds,
           NEW M \in SUBSET OpIds,
           \A c \in M : \E i \in LiveFrom(E, Downstream(E, o, p), p) :
                           E[i].child = c
    PROVE  /\ SumOf(OpCosts(E, o, p, M, r)) \in Nat
           /\ \A i \in LiveFrom(E, Downstream(E, o, p), p) :
                 LET c == E[i].child
                 IN  c \notin M /\ c \in OpIds =>
                       SumOf(OpCosts(E, o, p, M \cup {c}, r))
                         =< SumOf(OpCosts(E, o, p, M, r)) + Cost(E, i, r)
<1> DEFINE D == Downstream(E, o, p)
           f == [c \in OpIds |-> Lightest(E, D, c, p, r)]
<1>1. IsFiniteSet(OpIds)
  BY FS_Interval, SizesAssumption DEF OpIds
<1>2. \A N \in SUBSET OpIds :
         OpCosts(E, o, p, N, r) = [y \in OpIds |-> IF y \in N THEN f[y] ELSE 0]
  BY DEF OpCosts
<1>3. \A i \in LiveFrom(E, D, p) : E[i].child \in OpIds =>
         f[E[i].child] \in Nat /\ f[E[i].child] =< Cost(E, i, r)
  BY LightestIs
<1>4. \A c \in M : f[c] \in Nat
  BY <1>3
<1> HIDE DEF f, D
<1>5. SumOf(OpCosts(E, o, p, M, r)) \in Nat
  <2>1. OpCosts(E, o, p, M, r) \in [OpIds -> Nat]
    BY <1>2, <1>4
  <2> QED
    BY <1>1, <2>1, SumNat
<1>6. ASSUME NEW i \in LiveFrom(E, D, p), NEW c, c = E[i].child,
             c \notin M, c \in OpIds
      PROVE  SumOf(OpCosts(E, o, p, M \cup {c}, r))
               =< SumOf(OpCosts(E, o, p, M, r)) + Cost(E, i, r)
  <2>1. f[c] \in Nat /\ f[c] =< Cost(E, i, r) /\ Cost(E, i, r) \in Nat
    BY <1>3, <1>6, CostType DEF LiveFrom
  <2>2. SumOf([y \in OpIds |-> IF y \in M \cup {c} THEN f[y] ELSE 0])
          = SumOf([y \in OpIds |-> IF y \in M THEN f[y] ELSE 0]) + f[c]
    BY <1>1, <1>4, <1>6, <2>1, SumOfMore
  <2>3. SumOf(OpCosts(E, o, p, M \cup {c}, r))
          = SumOf(OpCosts(E, o, p, M, r)) + f[c]
    BY <1>2, <1>6, <2>2
  <2> QED
    BY <1>5, <2>1, <2>3
<1> QED
  BY <1>5, <1>6 DEF D

-----------------------------------------------------------------------------
(* Paths.                                                                  *)

LEMMA PathStarts ==
    ASSUME NEW E, NEW o \in OpIds, NEW p
    PROVE  PathTo(E, o, p, o, 0)
<1> DEFINE f == [k \in 0 .. 0 |-> o]
<1>1. f \in [0 .. 0 -> OpIds] /\ f[0] = o /\ \A k \in 0 .. 0 - 1 : FALSE
  OBVIOUS
<1> QED
  BY <1>1 DEF PathTo

(* A path that ends in c and a live edge from c are a longer path. *)
LEMMA PathGrows ==
    ASSUME NEW E \in Seq(Edge), NEW o \in OpIds, NEW p, NEW d \in Nat,
           NEW i \in 1 .. Len(E), Live(E[i], p),
           PathTo(E, o, p, E[i].parent, d)
    PROVE  PathTo(E, o, p, E[i].child, d + 1)
<1>1. PICK f \in [0 .. d -> OpIds] :
         /\ f[0] = o /\ f[d] = E[i].parent
         /\ \A k \in 0 .. d - 1 : Triggers(E, f[k], f[k + 1], p)
  BY DEF PathTo
<1> DEFINE g == [k \in 0 .. d + 1 |-> IF k = d + 1 THEN E[i].child ELSE f[k]]
<1>2. E[i] \in Edge /\ E[i].child \in OpIds
  <2>1. E[i] \in Edge
    OBVIOUS
  <2> QED
    BY <2>1 DEF Edge
<1>3. g \in [0 .. d + 1 -> OpIds]
  BY <1>2
<1>4. g[d + 1] = E[i].child /\ \A k \in 0 .. d : g[k] = f[k]
  OBVIOUS
<1>5. Triggers(E, E[i].parent, E[i].child, p)
  BY DEF Triggers, LiveFrom
<1>6. ASSUME NEW k \in 0 .. (d + 1) - 1
      PROVE  Triggers(E, g[k], g[k + 1], p)
  <2> HIDE DEF g
  <2>1. CASE k = d
    BY <1>1, <1>4, <1>5, <2>1
  <2>2. CASE k # d
    <3>1. k \in 0 .. d - 1 /\ k \in 0 .. d /\ k + 1 \in 0 .. d
      BY <2>2
    <3> QED
      BY <1>1, <1>4, <3>1
  <2> QED
    BY <2>1, <2>2
<1>7. g[0] = o
  BY <1>1
<1> HIDE DEF g
<1> QED
  BY <1>3, <1>4, <1>6, <1>7 DEF PathTo

(* At the limit a path does not go on, if none is longer. *)
LEMMA PathEnds ==
    ASSUME NEW E \in Seq(Edge), NEW o \in OpIds, NEW p, NoLongPath(E, o, p),
           NEW c, PathTo(E, o, p, c, MaxDepth)
    PROVE  LiveFrom(E, {c}, p) = {}
<1> SUFFICES ASSUME NEW i \in LiveFrom(E, {c}, p)
             PROVE  FALSE
  OBVIOUS
<1>1. i \in 1 .. Len(E) /\ E[i].parent = c /\ Live(E[i], p)
  BY DEF LiveFrom
<1>2. MaxDepth \in Nat
  BY ConstantTypes
<1>3. PathTo(E, o, p, E[i].child, MaxDepth + 1)
  BY <1>1, <1>2, PathGrows
<1>4. PICK f \in [0 .. MaxDepth + 1 -> OpIds] :
         /\ f[0] = o /\ f[MaxDepth + 1] = E[i].child
         /\ \A k \in 0 .. (MaxDepth + 1) - 1 : Triggers(E, f[k], f[k + 1], p)
  BY <1>3, Zenon DEF PathTo
<1>5. \A k \in 0 .. MaxDepth : k \in 0 .. (MaxDepth + 1) - 1
  BY <1>2
<1> QED
  BY <1>4, <1>5 DEF NoLongPath

-----------------------------------------------------------------------------
(* What a cascade keeps.                                                   *)

(* Nothing new is counted and more edges have been looked at. *)
LEMMA ChargedKept ==
    ASSUME NEW E, NEW w, NEW V, Graph(E, w, V), Charged(E, w, V),
           NEW x, NEW U, Graph(E, x, U),
           x.need = w.need, x.goal = w.goal, x.press = w.press,
           Met(x, U) = Met(w, V), Looked(E, w, V) \subseteq Looked(E, x, U)
    PROVE  Charged(E, x, U)
<1> SUFFICES ASSUME NEW r \in ResourceIds
             PROVE  x.need[r] =< Saturated(OwnNeed(x.goal)[r]
                                   + SumOf(EdgeCosts(E, Looked(E, x, U), r)))
  BY DEF Charged
<1> DEFINE own == OwnNeed(w.goal)[r]
           a == SumOf(EdgeCosts(E, Looked(E, w, V), r))
           b == SumOf(EdgeCosts(E, Looked(E, x, U), r))
<1>1. own \in Nat /\ w.need[r] \in Nat
  BY OwnNeedType, SizesAssumption DEF Graph, Walk, U16
<1>2. /\ Looked(E, w, V) \in SUBSET (1 .. Len(E))
      /\ Looked(E, x, U) \in SUBSET (1 .. Len(E))
  BY DEF Looked, LiveFrom
<1>3. a \in Nat /\ b \in Nat /\ a =< b
  BY <1>2, EdgeSum DEF Graph
<1>4. w.need[r] =< Saturated(own + a)
  BY DEF Charged
<1> HIDE DEF own, a, b
<1>5. own + a \in Nat /\ own + b \in Nat /\ own + a =< own + b
  BY <1>1, <1>3
<1>6. /\ Saturated(own + a) =< Saturated(own + b)
      /\ Saturated(own + a) \in Nat /\ Saturated(own + b) \in Nat
  BY <1>5, SaturatedSum
<1>7. w.need[r] =< Saturated(own + b)
  BY <1>1, <1>4, <1>6
<1> QED
  BY <1>7 DEF own, b

(* A cascade starts with the operation that is checked. *)
LEMMA CascadeStarts ==
    ASSUME NEW E, NEW w, Graph(E, w, {}),
           w.stack = <<[op |-> w.goal, depth |-> 0]>>, w.cur = NoOp,
           w.need = OwnNeed(w.goal)
    PROVE  Traced(E, w, {}) /\ Charged(E, w, {})
<1> DEFINE o == w.goal
           p == w.press
           D == Downstream(E, o, p)
<1>1. /\ Len(w.stack) = 1 /\ w.stack[1].op = o /\ w.stack[1].depth = 0
      /\ 1 .. Len(w.stack) = {1}
  OBVIOUS
<1>2. Met(w, {}) = {o}
  BY <1>1 DEF Met
<1>3. Looked(E, w, {}) = {}
  BY DEF Looked, LiveFrom
<1>4. o \in D /\ o \in OpIds /\ E \in Seq(Edge)
  BY DownstreamIs DEF Graph
<1>5. PathTo(E, o, p, o, 0)
  BY <1>4, PathStarts
<1>6. Traced(E, w, {})
  BY <1>1, <1>2, <1>3, <1>4, <1>5 DEF Traced
<1>7. ASSUME NEW r \in ResourceIds
      PROVE  /\ w.need[r] =< Saturated(OwnNeed(o)[r]
                               + SumOf(EdgeCosts(E, Looked(E, w, {}), r)))
             /\ Saturated(OwnNeed(o)[r]
                   + SumOf(OpCosts(E, o, p, Met(w, {}) \ {o}, r))) =< w.need[r]
  <2>1. EdgeCosts(E, {}, r) = [i \in 1 .. Len(E) |-> 0]
        /\ OpCosts(E, o, p, {}, r) = [c \in OpIds |-> 0]
    BY DEF EdgeCosts, OpCosts
  <2>2. SumOf(EdgeCosts(E, {}, r)) = 0 /\ SumOf(OpCosts(E, o, p, {}, r)) = 0
    BY <2>1, SumZero
  <2>3. Met(w, {}) \ {o} = {}
    BY <1>2
  <2>4. OwnNeed(o)[r] \in U16 /\ U16_MAX \in Nat
    BY <1>4, OwnNeedType, SizesAssumption
  <2> DEFINE n == OwnNeed(o)[r]
  <2> HIDE DEF n
  <2>5. Saturated(n + 0) = n /\ n =< n
    BY <2>4 DEF Saturated, U16, n
  <2> QED
    BY <1>3, <2>2, <2>3, <2>5 DEF n
<1>8. Charged(E, w, {})
  BY <1>7 DEF Charged
<1> QED
  BY <1>6, <1>8

(* What taking an operation from the stack makes of a walk. *)
PopsTo(w, V, x, top, s, skip) ==
    /\ Len(w.stack) > 0 /\ top = w.stack[Len(w.stack)]
    /\ Len(s) = Len(w.stack) - 1
    /\ \A j \in 1 .. Len(s) : s[j] = w.stack[j]
    /\ skip <=> top.op \in V \/ top.depth >= MaxDepth
    /\ x.stack = s /\ x.cur = IF skip THEN NoOp ELSE top.op
    /\ x.depth = IF skip THEN 0 ELSE top.depth
    /\ x.ei = 0 /\ x.need = w.need /\ x.goal = w.goal /\ x.press = w.press

LEMMA CascadePops ==
    ASSUME NEW E, NEW w, NEW V, Graph(E, w, V), Traced(E, w, V), Charged(E, w, V),
           \A i \in 1 .. Len(E) : E[i].parent = w.cur => i =< w.ei,
           NEW x, NEW top, NEW s, NEW skip \in BOOLEAN,
           PopsTo(w, V, x, top, s, skip),
           Graph(E, x, V \cup {top.op})
    PROVE  Traced(E, x, V \cup {top.op}) /\ Charged(E, x, V \cup {top.op})
<1> DEFINE o == w.goal
           p == w.press
           n == Len(w.stack)
           U == V \cup {top.op}
<1> SUFFICES ASSUME n > 0, top = w.stack[n], Len(s) = n - 1,
                    \A j \in 1 .. Len(s) : s[j] = w.stack[j],
                    skip <=> top.op \in V \/ top.depth >= MaxDepth,
                    x.stack = s, x.cur = IF skip THEN NoOp ELSE top.op,
                    x.depth = IF skip THEN 0 ELSE top.depth,
                    x.ei = 0, x.need = w.need, x.goal = w.goal,
                    x.press = w.press
             PROVE  Traced(E, x, U) /\ Charged(E, x, U)
  BY DEF PopsTo
<1>1. w.stack \in Seq(Place) /\ n \in Nat \ {0} /\ top \in Place
      /\ E \in Seq(Edge) /\ V \in SUBSET OpIds /\ o \in OpIds /\ w.ei \in Nat
  <2>1. w.stack \in Seq(Place) /\ w.ei \in Nat
    BY ConstantTypes DEF Graph, Walk
  <2> QED
    BY <2>1 DEF Graph
<1>2. Met(x, U) = Met(w, V)
  <2>1. ASSUME NEW c \in Met(x, U) PROVE c \in Met(w, V)
    <3>1. CASE c \in V
      BY <3>1 DEF Met
    <3>2. CASE c = top.op
      BY <1>1, <3>2 DEF Met
    <3>3. CASE \E j \in 1 .. Len(s) : c = s[j].op
      <4>1. PICK j \in 1 .. Len(s) : c = s[j].op
        BY <3>3
      <4>2. j \in 1 .. n /\ c = w.stack[j].op
        BY <1>1, <4>1
      <4> QED
        BY <4>2 DEF Met
    <3> QED
      BY <2>1, <3>1, <3>2, <3>3 DEF Met
  <2>2. ASSUME NEW c \in Met(w, V) PROVE c \in Met(x, U)
    <3>1. CASE c \in V
      BY <3>1 DEF Met
    <3>2. CASE \E j \in 1 .. n : c = w.stack[j].op
      <4>1. PICK j \in 1 .. n : c = w.stack[j].op
        BY <3>2
      <4>2. CASE j = n
        BY <4>1, <4>2 DEF Met
      <4>3. CASE j # n
        <5>1. j \in 1 .. Len(s) /\ c = s[j].op
          BY <1>1, <4>1, <4>3
        <5> QED
          BY <5>1 DEF Met
      <4> QED
        BY <4>2, <4>3
    <3> QED
      BY <2>2, <3>1, <3>2 DEF Met
  <2> QED
    BY <2>1, <2>2
<1>3. top.op \in OpIds /\ top.op # NoOp /\ top.depth \in 0 .. MaxDepth
      /\ PathTo(E, o, p, top.op, top.depth) /\ MaxDepth \in Nat
  BY <1>1, ConstantTypes DEF Place, Traced
<1>4. \A i \in LiveFrom(E, V, p) : i \in Looked(E, w, V)
  BY DEF Looked, LiveFrom
<1>5. ASSUME NEW i \in LiveFrom(E, V, p)
      PROVE  i \in Looked(E, x, U)
  <2>1. i \in LiveFrom(E, U, p) /\ E[i].parent \in V
    BY DEF LiveFrom
  <2>2. E[i].parent = x.cur => FALSE
    <3> SUFFICES ASSUME E[i].parent = x.cur
                 PROVE  FALSE
      OBVIOUS
    <3>1. x.cur = NoOp \/ x.cur \notin V
      OBVIOUS
    <3> QED
      BY <1>1, <2>1, <3>1, ConstantTypes
  <2> QED
    BY <2>1, <2>2 DEF Looked
<1>6. Looked(E, w, V) \subseteq Looked(E, x, U)
  BY <1>5 DEF Looked
<1>7. Charged(E, x, U)
  BY <1>2, <1>6, ChargedKept
<1>8. ASSUME NoLongPath(E, o, p), NEW i \in Looked(E, x, U)
      PROVE  E[i].child \in Met(x, U)
  <2>1. i \in 1 .. Len(E) /\ E[i].parent \in U /\ Live(E[i], p)
        /\ (E[i].parent = x.cur => i =< 0)
    BY <1>8 DEF Looked, LiveFrom
  <2>2. i > 0
    BY <1>1, <2>1
  <2>3. E[i].parent # x.cur
    BY <2>1, <2>2
  <2>4. E[i].parent \in V
    <3> SUFFICES ASSUME E[i].parent \notin V
                 PROVE  FALSE
      OBVIOUS
    <3>1. E[i].parent = top.op /\ skip /\ top.op \notin V
      BY <2>1, <2>3
    <3>2. top.depth = MaxDepth
      BY <1>3, <3>1
    <3>3. LiveFrom(E, {top.op}, p) = {}
      BY <1>1, <1>3, <1>8, <3>2, PathEnds
    <3> QED
      BY <2>1, <3>1, <3>3 DEF LiveFrom
  <2>5. i \in Looked(E, w, V)
    BY <1>4, <2>1, <2>4 DEF LiveFrom
  <2> QED
    BY <1>2, <1>8, <2>5 DEF Traced
<1>9. \A j \in 1 .. Len(x.stack) :
         PathTo(E, o, p, x.stack[j].op, x.stack[j].depth)
  <2>1. ASSUME NEW j \in 1 .. Len(s)
        PROVE  PathTo(E, o, p, s[j].op, s[j].depth)
    <3>1. j \in 1 .. n /\ s[j] = w.stack[j]
      BY <1>1
    <3> QED
      BY <3>1 DEF Traced
  <2> QED
    BY <2>1
<1>10. x.cur # NoOp => x.cur \in U /\ PathTo(E, o, p, x.cur, x.depth)
  BY <1>3
<1>11. Traced(E, x, U)
  <2> HIDE DEF U
  <2>1. /\ o \in Met(x, U) /\ Met(x, U) \subseteq Downstream(E, o, p)
        /\ \A c \in Met(x, U) \ {o} :
              \E i \in LiveFrom(E, Downstream(E, o, p), p) : E[i].child = c
    BY <1>2 DEF Traced
  <2> QED
    BY <1>8, <1>9, <1>10, <2>1 DEF Traced
<1> QED
  BY <1>7, <1>11

(* The bounds of a need, when what one edge costs is added. *)
LEMMA SaturatedBounds ==
    ASSUME NEW n \in Nat, NEW own \in Nat, NEW a \in Nat, NEW b \in Nat,
           NEW k \in Nat, NEW c \in Nat,
           n =< Saturated(own + a), Saturated(own + b) =< n, c =< b + k
    PROVE  /\ Saturated(n + k) =< Saturated(own + (a + k))
           /\ Saturated(own + c) =< Saturated(n + k)
<1>1. U16_MAX \in Nat
  BY SizesAssumption
<1> QED
  BY <1>1 DEF Saturated

(* Looking at the next edge. *)
LEMMA LookedGrows ==
    ASSUME NEW E, NEW w, NEW V, Graph(E, w, V),
           NEW i \in 1 .. Len(E), E[i].parent = w.cur, w.ei < i,
           \A k \in w.ei + 1 .. i - 1 : E[k].parent # w.cur,
           NEW x, x.cur = w.cur, x.ei = i, x.press = w.press
    PROVE  /\ i \notin Looked(E, w, V)
           /\ Looked(E, w, V) \subseteq Looked(E, x, V)
           /\ \A k \in Looked(E, x, V) : k \in Looked(E, w, V) \/ k = i
           /\ i \in Looked(E, x, V) => Live(E[i], w.press)
           /\ Live(E[i], w.press) /\ w.cur \in V => i \in Looked(E, x, V)
<1>1. w.ei \in Nat /\ i \in Nat
  BY ConstantTypes DEF Graph, Walk
<1>2. \A k \in LiveFrom(E, V, w.press) : k \in Nat
  BY DEF LiveFrom
<1>3. ASSUME NEW k \in Looked(E, x, V)
      PROVE  k \in Looked(E, w, V) \/ k = i
  <2>1. k \in LiveFrom(E, V, w.press) /\ (E[k].parent = w.cur => k =< i)
    BY <1>3 DEF Looked
  <2>2. CASE E[k].parent # w.cur
    BY <2>1, <2>2 DEF Looked
  <2>3. CASE E[k].parent = w.cur
    <3>1. k =< w.ei \/ k = i
      <4>1. k \notin w.ei + 1 .. i - 1
        BY <2>3
      <4> QED
        BY <1>1, <1>2, <2>1, <2>3, <4>1
    <3> QED
      BY <2>1, <2>3, <3>1 DEF Looked
  <2> QED
    BY <2>2, <2>3
<1>4. ASSUME NEW k \in Looked(E, w, V)
      PROVE  k \in Looked(E, x, V)
  <2>1. k \in LiveFrom(E, V, w.press) /\ (E[k].parent = w.cur => k =< w.ei)
    BY <1>4 DEF Looked
  <2>2. E[k].parent = w.cur => k =< i
    BY <1>1, <1>2, <2>1
  <2> QED
    BY <2>1, <2>2 DEF Looked
<1>5. i \notin Looked(E, w, V)
  BY <1>1 DEF Looked
<1>6. i \in Looked(E, x, V) => Live(E[i], w.press)
  BY DEF Looked, LiveFrom
<1>7. Live(E[i], w.press) /\ w.cur \in V => i \in Looked(E, x, V)
  BY <1>1 DEF Looked, LiveFrom
<1> QED
  BY <1>3, <1>4, <1>5, <1>6, <1>7

(* The edge is passed over: its child was visited, or it is not followed. *)
LEMMA CascadePasses ==
    ASSUME NEW E, NEW w, NEW V, Graph(E, w, V), Traced(E, w, V), Charged(E, w, V),
           NEW i \in 1 .. Len(E), E[i].parent = w.cur, w.ei < i,
           \A k \in w.ei + 1 .. i - 1 : E[k].parent # w.cur,
           E[i].child \in V \/ ~Live(E[i], w.press),
           NEW x, Graph(E, x, V), x.stack = w.stack, x.cur = w.cur,
           x.depth = w.depth, x.ei = i, x.need = w.need,
           x.goal = w.goal, x.press = w.press
    PROVE  Traced(E, x, V) /\ Charged(E, x, V)
<1>1. Met(x, V) = Met(w, V)
  BY DEF Met
<1>2. /\ Looked(E, w, V) \subseteq Looked(E, x, V)
      /\ \A k \in Looked(E, x, V) : k \in Looked(E, w, V) \/ k = i
      /\ i \in Looked(E, x, V) => Live(E[i], w.press)
  BY LookedGrows
<1>3. Charged(E, x, V)
  BY <1>1, <1>2, ChargedKept
<1>4. ASSUME NoLongPath(E, w.goal, w.press), NEW k \in Looked(E, x, V)
      PROVE  E[k].child \in Met(x, V)
  <2>1. CASE k \in Looked(E, w, V)
    BY <1>1, <1>4, <2>1 DEF Traced
  <2>2. CASE k = i
    BY <1>2, <1>4, <2>2 DEF Met
  <2> QED
    BY <1>2, <1>4, <2>1, <2>2
<1>5. Traced(E, x, V)
  BY <1>1, <1>4 DEF Traced
<1> QED
  BY <1>3, <1>5

(* The edge is followed: its child goes on the stack and is charged. *)
PushesTo(E, w, i, x, s) ==
    /\ x.stack = s /\ Len(s) = Len(w.stack) + 1
    /\ \A j \in 1 .. Len(w.stack) : s[j] = w.stack[j]
    /\ s[Len(w.stack) + 1] = [op |-> E[i].child, depth |-> w.depth + 1]
    /\ x.cur = w.cur /\ x.depth = w.depth /\ x.ei = i
    /\ x.need = WithChild(w.need, E[i])
    /\ x.goal = w.goal /\ x.press = w.press

LEMMA CascadePushes ==
    ASSUME NEW E, NEW w, NEW V, Graph(E, w, V), Traced(E, w, V), Charged(E, w, V),
           NEW i \in 1 .. Len(E), E[i].parent = w.cur, w.ei < i,
           \A k \in w.ei + 1 .. i - 1 : E[k].parent # w.cur,
           w.cur # NoOp, Live(E[i], w.press),
           NEW x, NEW s, Graph(E, x, V), PushesTo(E, w, i, x, s)
    PROVE  Traced(E, x, V) /\ Charged(E, x, V)
<1> DEFINE o == w.goal
           p == w.press
           c == E[i].child
           D == Downstream(E, o, p)
           n == Len(w.stack)
<1> SUFFICES ASSUME x.stack = s, Len(s) = n + 1,
                    \A j \in 1 .. n : s[j] = w.stack[j],
                    s[n + 1] = [op |-> c, depth |-> w.depth + 1],
                    x.cur = w.cur, x.depth = w.depth, x.ei = i,
                    x.need = WithChild(w.need, E[i]),
                    x.goal = w.goal, x.press = w.press
             PROVE  Traced(E, x, V) /\ Charged(E, x, V)
  BY DEF PushesTo
<1>1. /\ E \in Seq(Edge) /\ V \in SUBSET OpIds /\ o \in OpIds /\ n \in Nat
      /\ w.depth \in Nat /\ c \in OpIds
  <2>1. w.stack \in Seq(Place) /\ w.depth \in Nat
    BY ConstantTypes DEF Graph, Walk
  <2>2. E[i] \in Edge
    BY DEF Graph
  <2> QED
    BY <2>1, <2>2 DEF Graph, Edge
<1>2. /\ i \notin Looked(E, w, V)
      /\ Looked(E, w, V) \subseteq Looked(E, x, V)
      /\ \A k \in Looked(E, x, V) : k \in Looked(E, w, V) \/ k = i
      /\ w.cur \in V => i \in Looked(E, x, V)
  BY LookedGrows
<1>3. /\ w.cur \in V /\ PathTo(E, o, p, w.cur, w.depth)
      /\ o \in Met(w, V) /\ Met(w, V) \subseteq D
  BY DEF Traced
<1>4. Looked(E, x, V) = Looked(E, w, V) \cup {i}
  BY <1>2, <1>3
<1>5. Met(x, V) = Met(w, V) \cup {c}
  <2>1. \A j \in 1 .. Len(s) : j \in 1 .. n \/ j = n + 1
    BY <1>1
  <2>2. n + 1 \in 1 .. Len(s) /\ 1 .. n \subseteq 1 .. Len(s)
    BY <1>1
  <2>3. s[n + 1].op = c
    OBVIOUS
  <2> HIDE DEF n, c
  <2>4. \A d \in Met(x, V) : d \in Met(w, V) \cup {c}
    BY <2>1, <2>3 DEF Met, n
  <2>5. \A j \in 1 .. n : s[j].op \in Met(x, V)
    BY <2>2 DEF Met
  <2>6. \A d \in Met(w, V) \cup {c} : d \in Met(x, V)
    <3>1. c \in Met(x, V)
      BY <2>2, <2>3 DEF Met
    <3>2. \A d \in Met(w, V) : d \in V \/ \E j \in 1 .. n : d = s[j].op
      BY DEF Met, n
    <3>3. V \subseteq Met(x, V)
      BY DEF Met
    <3> QED
      BY <2>5, <3>1, <3>2, <3>3
  <2> QED
    BY <2>4, <2>6
<1>6. i \in LiveFrom(E, D, p)
  BY <1>3 DEF LiveFrom, Met
<1>7. c \in D
  BY <1>1, <1>6, DownstreamIs DEF Closed
<1>8. PathTo(E, o, p, c, w.depth + 1)
  BY <1>1, <1>3, PathGrows
<1>9. Traced(E, x, V)
  <2>1. /\ x.goal = o /\ x.press = p
        /\ x.cur # NoOp => x.cur \in V /\ PathTo(E, o, p, x.cur, x.depth)
    BY <1>3
  <2>2. ASSUME NEW j \in 1 .. Len(x.stack)
        PROVE  PathTo(E, o, p, x.stack[j].op, x.stack[j].depth)
    <3>1. CASE j \in 1 .. n
      <4>1. x.stack[j] = w.stack[j]
        BY <3>1
      <4>2. PathTo(E, o, p, w.stack[j].op, w.stack[j].depth)
        BY <3>1 DEF Traced
      <4> QED
        BY <4>1, <4>2
    <3>2. CASE j = n + 1
      <4>1. x.stack[j] = [op |-> c, depth |-> w.depth + 1]
        BY <3>2
      <4> QED
        BY <1>8, <4>1
    <3> QED
      BY <1>1, <2>2, <3>1, <3>2
  <2>3. ASSUME NEW d \in Met(x, V) \ {o}
        PROVE  \E k \in LiveFrom(E, D, p) : E[k].child = d
    BY <1>5, <1>6, <2>3 DEF Traced
  <2>4. ASSUME NoLongPath(E, o, p), NEW k \in Looked(E, x, V)
        PROVE  E[k].child \in Met(x, V)
    BY <1>4, <1>5, <2>4 DEF Traced
  <2>5. o \in Met(x, V) /\ Met(x, V) \subseteq D
    BY <1>3, <1>5, <1>7
  <2> QED
    BY <2>1, <2>2, <2>3, <2>4, <2>5 DEF Traced
<1>10. ASSUME NEW r \in ResourceIds
       PROVE  /\ x.need[r] =< Saturated(OwnNeed(o)[r]
                                + SumOf(EdgeCosts(E, Looked(E, x, V), r)))
              /\ Saturated(OwnNeed(o)[r]
                    + SumOf(OpCosts(E, o, p, Met(x, V) \ {o}, r))) =< x.need[r]
  <2> DEFINE own == OwnNeed(o)[r]
             M == Met(w, V) \ {o}
             a == SumOf(EdgeCosts(E, Looked(E, w, V), r))
             b == SumOf(OpCosts(E, o, p, M, r))
             b2 == SumOf(OpCosts(E, o, p, Met(x, V) \ {o}, r))
             k == Cost(E, i, r)
  <2>1. own \in Nat /\ w.need[r] \in Nat /\ k \in Nat
    BY <1>1, OwnNeedType, CostType, SizesAssumption DEF Graph, Walk, U16
  <2>2. /\ a \in Nat
        /\ SumOf(EdgeCosts(E, Looked(E, x, V), r)) = a + k
    <3>1. Looked(E, w, V) \in SUBSET (1 .. Len(E))
      BY DEF Looked, LiveFrom
    <3> QED
      BY <1>1, <1>2, <1>4, <3>1, EdgeSum
  <2>3. b \in Nat /\ b2 \in Nat /\ b2 =< b + k
    <3>1. M \in SUBSET OpIds
      BY <1>1, <1>3, DownstreamIs
    <3>2. \A d \in M : \E j \in LiveFrom(E, D, p) : E[j].child = d
      BY DEF Traced
    <3>3. /\ b \in Nat
          /\ c \notin M => SumOf(OpCosts(E, o, p, M \cup {c}, r)) =< b + k
      BY <1>1, <1>6, <3>1, <3>2, OpSum
    <3>4. b2 \in Nat
      <4>1. Met(x, V) \ {o} \in SUBSET OpIds
        BY <1>1, <1>5, <3>1
      <4>2. \A d \in Met(x, V) \ {o} : \E j \in LiveFrom(E, D, p) : E[j].child = d
        BY <1>9 DEF Traced
      <4> QED
        BY <1>1, <4>1, <4>2, OpSum
    <3>5. CASE c \in M \/ c = o
      <4>1. Met(x, V) \ {o} = M
        BY <1>5, <3>5
      <4>2. b2 = b
        BY <4>1
      <4> HIDE DEF b, b2, k
      <4> QED
        BY <2>1, <3>3, <3>4, <4>2
    <3>6. CASE ~(c \in M \/ c = o)
      <4>1. Met(x, V) \ {o} = M \cup {c}
        BY <1>5, <3>6
      <4> QED
        BY <3>3, <3>4, <3>6, <4>1
    <3> QED
      BY <3>5, <3>6
  <2>4. w.need[r] =< Saturated(own + a) /\ Saturated(own + b) =< w.need[r]
    BY DEF Charged
  <2>5. x.need[r] = Saturated(w.need[r] + k)
    BY DEF WithChild, Cost
  <2> HIDE DEF own, a, b, b2, k
  <2>6. /\ Saturated(w.need[r] + k) =< Saturated(own + (a + k))
        /\ Saturated(own + b2) =< Saturated(w.need[r] + k)
    BY <2>1, <2>2, <2>3, <2>4, SaturatedBounds
  <2> QED
    BY <2>2, <2>5, <2>6 DEF own, b2
<1>11. Charged(E, x, V)
  BY <1>10 DEF Charged
<1> QED
  BY <1>9, <1>11

-----------------------------------------------------------------------------
(* What the needs are when the cascade is done.                            *)

(* When no operation waits and none is expanded, what was met is what was  *)
(* visited, and every live edge that leaves it was looked at.              *)
LEMMA CascadeEnds ==
    ASSUME NEW E, NEW w, NEW V, Graph(E, w, V), Traced(E, w, V),
           w.stack = <<>>, w.cur = NoOp
    PROVE  /\ Met(w, V) = V /\ Looked(E, w, V) = LiveFrom(E, V, w.press)
           /\ NoLongPath(E, w.goal, w.press) =>
                 V = Downstream(E, w.goal, w.press)
<1> DEFINE o == w.goal
           p == w.press
<1>1. Met(w, V) = V
  BY DEF Met
<1>2. V \in SUBSET OpIds /\ o \in OpIds /\ E \in Seq(Edge)
  BY DEF Graph
<1>3. Looked(E, w, V) = LiveFrom(E, V, p)
  <2>1. \A i \in LiveFrom(E, V, p) : E[i].parent # NoOp
    BY <1>2, ConstantTypes DEF LiveFrom
  <2> QED
    BY <2>1 DEF Looked
<1>4. o \in V /\ V \subseteq Downstream(E, o, p)
  BY <1>1 DEF Traced
<1>5. ASSUME NoLongPath(E, o, p)
      PROVE  Downstream(E, o, p) \subseteq V
  <2>1. Closed(E, V, p)
    BY <1>1, <1>3, <1>5 DEF Traced, Closed
  <2> QED
    BY <1>2, <1>4, <2>1, DownstreamIs
<1> QED
  BY <1>1, <1>3, <1>4, <1>5

(* The bounds of the properties, as sums over the whole table and over all *)
(* operations.                                                             *)
LEMMA MostNeedIs ==
    ASSUME NEW E \in Seq(Edge), NEW o \in OpIds, NEW p, NEW r \in ResourceIds
    PROVE  MostNeed(E, o, p, r)
             = Saturated(OwnNeed(o)[r]
                 + SumOf(EdgeCosts(E, LiveFrom(E, Downstream(E, o, p), p), r)))
<1> DEFINE L == LiveFrom(E, Downstream(E, o, p), p)
           T == 1 .. Len(E)
           f == [i \in L |-> Cost(E, i, r)]
           g == EdgeCosts(E, L, r)
<1>1. L \in SUBSET T
  BY DEF LiveFrom
<1>2. f \in [L -> Nat] /\ g \in [T -> Nat]
  BY <1>1, CostType DEF EdgeCosts
<1>3. (\A i \in L : g[i] = f[i]) /\ \A i \in T \ L : g[i] = 0
  BY <1>1 DEF EdgeCosts
<1>4. MostNeed(E, o, p, r) = Saturated(OwnNeed(o)[r] + SumOf(f))
  BY DEF MostNeed
<1> HIDE DEF f, g, L, T
<1>5. PartOf(L, f, T, g)
  BY <1>1, <1>2, <1>3 DEF PartOf
<1>6. SumOf(f) = SumOf(g)
  BY <1>5, SumOfPart, Zenon
<1> QED
  BY <1>4, <1>6 DEF g, L

(* A live edge from downstream leads to each of them. *)
Reached(E, o, p, M) ==
    \A c \in M : \E i \in LiveFrom(E, Downstream(E, o, p), p) : E[i].child = c

LEMMA LeastNeedIs ==
    ASSUME NEW E \in Seq(Edge), NEW o \in OpIds, NEW p, NEW r \in ResourceIds,
           Reached(E, o, p, Downstream(E, o, p) \ {o})
    PROVE  LeastNeed(E, o, p, r)
             = Saturated(OwnNeed(o)[r]
                 + SumOf(OpCosts(E, o, p, Downstream(E, o, p) \ {o}, r)))
<1> DEFINE D == Downstream(E, o, p)
           M == D \ {o}
           f == [c \in M |-> Lightest(E, D, c, p, r)]
           g == OpCosts(E, o, p, M, r)
<1>1. M \in SUBSET OpIds
  BY DownstreamIs
<1>2. \A c \in M : Lightest(E, D, c, p, r) \in Nat
  BY LightestIs DEF Reached
<1>3. f \in [M -> Nat] /\ g \in [OpIds -> Nat]
  BY <1>2 DEF OpCosts
<1>4. (\A c \in M : g[c] = f[c]) /\ \A c \in OpIds \ M : g[c] = 0
  BY <1>1 DEF OpCosts
<1>5. LeastNeed(E, o, p, r) = Saturated(OwnNeed(o)[r] + SumOf(f))
  BY DEF LeastNeed
<1> HIDE DEF f, g, M, D
<1>6. PartOf(M, f, OpIds, g)
  BY <1>1, <1>3, <1>4 DEF PartOf
<1>7. SumOf(f) = SumOf(g)
  BY <1>6, SumOfPart, Zenon
<1> QED
  BY <1>5, <1>7 DEF g, M, D

LEMMA CountedNeed ==
    ASSUME NEW E, NEW w, NEW V, Graph(E, w, V), Traced(E, w, V), Charged(E, w, V),
           w.stack = <<>>, w.cur = NoOp, NEW r \in ResourceIds
    PROVE  /\ w.need[r] =< MostNeed(E, w.goal, w.press, r)
           /\ MostNeed(E, w.goal, w.press, r) \in Nat
           /\ NoLongPath(E, w.goal, w.press) =>
                 /\ LeastNeed(E, w.goal, w.press, r) =< w.need[r]
                 /\ LeastNeed(E, w.goal, w.press, r) \in Nat
<1> DEFINE o == w.goal
           p == w.press
           D == Downstream(E, o, p)
           L == LiveFrom(E, D, p)
           own == OwnNeed(o)[r]
<1>1. /\ Met(w, V) = V /\ Looked(E, w, V) = LiveFrom(E, V, p)
      /\ NoLongPath(E, o, p) => V = D
  BY CascadeEnds
<1>2. /\ E \in Seq(Edge) /\ V \in SUBSET OpIds /\ o \in OpIds /\ own \in Nat
      /\ w.need[r] \in Nat
  BY OwnNeedType, SizesAssumption DEF Graph, Walk, U16
<1>3. /\ w.need[r] =< Saturated(own + SumOf(EdgeCosts(E, Looked(E, w, V), r)))
      /\ Saturated(own + SumOf(OpCosts(E, o, p, Met(w, V) \ {o}, r)))
            =< w.need[r]
  BY DEF Charged
<1>4. /\ w.need[r] =< MostNeed(E, o, p, r)
      /\ MostNeed(E, o, p, r) \in Nat
  <2> DEFINE g == EdgeCosts(E, L, r)
             a == SumOf(EdgeCosts(E, Looked(E, w, V), r))
             b == SumOf(g)
  <2>1. L \in SUBSET (1 .. Len(E)) /\ Looked(E, w, V) \in SUBSET (1 .. Len(E))
    BY DEF LiveFrom, Looked
  <2>2. Looked(E, w, V) \subseteq L
    BY <1>1 DEF Traced, LiveFrom
  <2>3. a \in Nat /\ b \in Nat /\ a =< b
    BY <1>2, <2>1, <2>2, EdgeSum
  <2>4. MostNeed(E, o, p, r) = Saturated(own + SumOf(g))
    BY <1>2, MostNeedIs
  <2> HIDE DEF a, b, own, g
  <2>6. own + a \in Nat /\ own + b \in Nat /\ own + a =< own + b
    BY <1>2, <2>3
  <2>7. /\ Saturated(own + a) =< Saturated(own + b)
        /\ Saturated(own + a) \in Nat /\ Saturated(own + b) \in Nat
    BY <2>6, SaturatedSum
  <2>8. w.need[r] =< Saturated(own + a) /\ MostNeed(E, o, p, r) = Saturated(own + b)
    BY <1>3, <2>4 DEF a, b
  <2> QED
    BY <1>2, <2>7, <2>8
<1>5. ASSUME NoLongPath(E, o, p)
      PROVE  /\ LeastNeed(E, o, p, r) =< w.need[r]
             /\ LeastNeed(E, o, p, r) \in Nat
  <2> DEFINE M == D \ {o}
             g == OpCosts(E, o, p, M, r)
  <2>1. M \in SUBSET OpIds /\ Met(w, V) \ {o} = M
    BY <1>1, <1>2, <1>5
  <2>2. \A c \in M : \E i \in L : E[i].child = c
    BY <2>1 DEF Traced
  <2>4. LeastNeed(E, o, p, r) = Saturated(own + SumOf(g))
    <3>1. Reached(E, o, p, D \ {o})
      BY <2>2 DEF Reached
    <3> QED
      BY <1>2, <3>1, LeastNeedIs
  <2>5. SumOf(g) \in Nat
    BY <1>2, <2>1, <2>2, OpSum
  <2>7. Saturated(own + SumOf(g)) =< w.need[r]
    BY <1>3, <2>1
  <2> HIDE DEF g, own
  <2>8. Saturated(own + SumOf(g)) \in Nat
    <3>1. own + SumOf(g) \in Nat /\ U16_MAX \in Nat
      BY <1>2, <2>5, SizesAssumption
    <3> QED
      BY <3>1 DEF Saturated
  <2> QED
    BY <2>4, <2>7, <2>8
<1> QED
  BY <1>4, <1>5

-----------------------------------------------------------------------------
(* The cascades of the contexts.                                           *)

(* A cascade that has the bitmap for itself; once it is done no operation  *)
(* waits or is expanded.                                                   *)
Counts(E, w, V) ==
    w.at \in {"cascade", "decide"} /\ w.exact =>
       /\ Traced(E, w, V) /\ Charged(E, w, V)
       /\ w.at = "decide" => w.stack = <<>> /\ w.cur = NoOp

CountInv == \A t \in Contexts : Counts(edges, walk[t], visited)

WalkInv == GraphInv /\ CountInv

(* A context takes a step of its walk: another that is exact is idle.      *)
LEMMA CountStepped ==
    ASSUME WalkInv, NEW t \in Contexts, walk[t].at # "idle",
           \A u \in Contexts \ {t} : walk'[u] = walk[u],
           Counts(edges', walk'[t], visited')
    PROVE  CountInv'
<1>1. ASSUME NEW u \in Contexts, u # t
      PROVE  Counts(edges', walk'[u], visited')
  <2>1. walk[u].at # "idle" => ~walk[u].exact
    BY <1>1 DEF WalkInv, GraphInv, ExactInv
  <2> QED
    BY <1>1, <2>1 DEF Counts
<1> QED
  BY <1>1 DEF CountInv

(* A context starts a walk or changes a weight: the walks it disturbs are  *)
(* no longer exact.                                                        *)
LEMMA CountStarted ==
    ASSUME TypeInv, NEW t \in Contexts,
           \A u \in Contexts \ {t} : walk'[u] = Disturbed(t, u),
           Counts(edges', walk'[t], visited')
    PROVE  CountInv'
<1>1. ASSUME NEW u \in Contexts, u # t
      PROVE  Counts(edges', walk'[u], visited')
  <2>1. ~(walk'[u].at # "idle" /\ walk'[u].exact)
    BY <1>1, DisturbedOK DEF TypeInv
  <2> QED
    BY <2>1 DEF Counts
<1> QED
  BY <1>1 DEF CountInv

LEMMA CountConfigured ==
    ASSUME WalkInv, NEW t \in Contexts, NEW p \in OpIds, NEW c \in OpIds,
           NEW w \in Weights, UpdateEdge(t, p, c, w) \/ AppendEdge(t, p, c, w)
    PROVE  CountInv'
<1>1. TypeInv
  BY DEF WalkInv, GraphInv
<1>2. CASE UpdateEdge(t, p, c, w)
  <2>1. walk[t].at = "idle" /\ \A u \in Contexts : walk'[u] = Disturbed(t, u)
    BY <1>2 DEF UpdateEdge
  <2>2. walk'[t] = walk[t]
    BY <2>1 DEF Disturbed
  <2> QED
    BY <1>1, <2>1, <2>2, CountStarted DEF Counts
<1>3. CASE AppendEdge(t, p, c, w)
  <2> DEFINE x == [Idle EXCEPT !.at = "search", !.goal = p,
                               !.stack = <<[op |-> c, depth |-> 0]>>]
             a == Alone(t)
  <2>1. StartWalk(t, x)
    BY <1>3 DEF AppendEdge
  <2>2. (\A u \in Contexts \ {t} : walk'[u] = Disturbed(t, u))
        /\ walk'[t] = NewSearch(p, c, a)
    BY <2>1 DEF StartWalk, NewSearch
  <2>3. a \in BOOLEAN
    BY DEF Alone
  <2> HIDE DEF a
  <2>4. NewSearch(p, c, a).at = "search"
    BY <2>3, SearchOK
  <2>5. walk'[t].at = "search"
    BY <2>2, <2>4
  <2> QED
    BY <1>1, <2>2, <2>5, CountStarted DEF Counts
<1> QED
  BY <1>2, <1>3

LEMMA NewCascadeIs ==
    ASSUME NEW o \in OpIds, NEW press \in Pressures, NEW a \in BOOLEAN,
           NEW y, y = NewCascade(o, press, a)
    PROVE  /\ y \in Walk /\ y.at = "cascade" /\ y.goal = o /\ y.press = press
           /\ y.stack = <<[op |-> o, depth |-> 0]>> /\ y.cur = NoOp
           /\ y.need = OwnNeed(o)
<1> DEFINE s == <<[op |-> o, depth |-> 0]>>
           n == OwnNeed(o)
<1>1. y \in Walk /\ y.at = "cascade"
  BY CascadeOK DEF WalkOK
<1>2. Idle \in Walk /\ Idle.cur = NoOp
  BY IdleOK DEF WalkOK, Idle
<1>3. y = [[Idle EXCEPT !.at = "cascade", !.goal = o, !.press = press,
                        !.need = n, !.stack = s] EXCEPT !.exact = a]
  BY DEF NewCascade
<1> HIDE DEF s, n
<1>4. y.goal = o /\ y.press = press /\ y.stack = s /\ y.need = n /\ y.cur = NoOp
  BY <1>2, <1>3 DEF Walk
<1> QED
  BY <1>1, <1>4 DEF s, n

LEMMA StartCascadeCounts ==
    ASSUME WalkInv, NEW t \in Contexts, NEW o \in OpIds,
           NEW press \in Pressures, StartCascade(t, o, press)
    PROVE  CountInv'
<1> DEFINE x == [Idle EXCEPT !.at = "cascade", !.goal = o,
                             !.press = press, !.need = OwnNeed(o),
                             !.stack = <<[op |-> o, depth |-> 0]>>]
           a == Alone(t)
<1>1. TypeInv
  BY DEF WalkInv, GraphInv
<1>2. StartWalk(t, x) /\ edges' = edges
  BY DEF StartCascade
<1>3. /\ \A u \in Contexts \ {t} : walk'[u] = Disturbed(t, u)
      /\ walk'[t] = NewCascade(o, press, a) /\ visited' = {}
  BY <1>2 DEF StartWalk, NewCascade
<1>4. a \in BOOLEAN
  BY DEF Alone
<1> HIDE DEF a
<1>5. PICK y : y = walk'[t]
  OBVIOUS
<1>6. /\ y \in Walk /\ y.at = "cascade" /\ y.goal = o
      /\ y.stack = <<[op |-> y.goal, depth |-> 0]>> /\ y.cur = NoOp
      /\ y.need = OwnNeed(y.goal)
  <2>1. y = NewCascade(o, press, a)
    BY <1>3, <1>5
  <2>2. /\ y \in Walk /\ y.at = "cascade" /\ y.goal = o
        /\ y.stack = <<[op |-> o, depth |-> 0]>> /\ y.cur = NoOp
        /\ y.need = OwnNeed(o)
    BY <1>4, <2>1, NewCascadeIs
  <2> QED
    BY <2>2
<1>7. Graph(edges, y, {})
  BY <1>1, <1>6 DEF Graph, TypeInv
<1>8. Traced(edges, y, {}) /\ Charged(edges, y, {})
  BY <1>6, <1>7, CascadeStarts
<1>9. Counts(edges', walk'[t], visited')
  BY <1>2, <1>3, <1>5, <1>6, <1>8 DEF Counts
<1> QED
  BY <1>1, <1>3, <1>9, CountStarted

LEMMA PopCounts ==
    ASSUME WalkInv, NEW t \in Contexts, Pop(t)
    PROVE  CountInv'
<1>1. TypeInv /\ TypeInv'
  BY PopTypes DEF WalkInv, GraphInv
<1>2. PICK top \in Place, s \in Seq(Place), skip \in BOOLEAN :
         Popped(t, top, s, skip)
  BY <1>1, PopIs
<1> DEFINE w == walk[t]
           U == visited \cup {top.op}
<1>3. w \in Walk /\ visited' = U /\ edges' = edges /\ Walking(t)
  BY <1>1, <1>2 DEF TypeInv, Popped
<1>4. PICK x : x = walk'[t]
  OBVIOUS
<1>5. x = [w EXCEPT !.stack = s, !.cur = IF skip THEN NoOp ELSE top.op,
                    !.depth = IF skip THEN 0 ELSE top.depth, !.ei = 0]
  BY <1>1, <1>2, <1>4 DEF Popped, TypeInv
<1>6. /\ x.stack = s /\ x.cur = IF skip THEN NoOp ELSE top.op
      /\ x.depth = IF skip THEN 0 ELSE top.depth
      /\ x.ei = 0 /\ x.need = w.need /\ x.goal = w.goal /\ x.press = w.press
      /\ x.at = w.at /\ x.exact = w.exact
  BY <1>3, <1>5 DEF Walk
<1>7. \A u \in Contexts \ {t} : walk'[u] = walk[u]
  BY <1>1, <1>2 DEF Popped, TypeInv
<1>8. ASSUME w.at = "cascade", w.exact
      PROVE  Traced(edges, x, U) /\ Charged(edges, x, U)
  <2>1. Traced(edges, w, visited) /\ Charged(edges, w, visited)
    BY <1>8 DEF WalkInv, CountInv, Counts
  <2>2. Graph(edges, w, visited) /\ Graph(edges, x, U)
    BY <1>1, <1>3, <1>4 DEF Graph, TypeInv, Walk
  <2>3. \A i \in 1 .. Len(edges) : edges[i].parent = w.cur => i =< w.ei
    BY <1>1, <1>2, NoneMissed DEF Popped
  <2>4. PopsTo(w, visited, x, top, s, skip)
    BY <1>2, <1>6, <1>8 DEF Popped, PopsTo
  <2> HIDE DEF w
  <2> QED
    BY <2>1, <2>2, <2>3, <2>4, CascadePops
<1>9. Counts(edges', walk'[t], visited')
  BY <1>3, <1>4, <1>6, <1>8 DEF Counts, Walking
<1>10. w.at # "idle"
  BY <1>3 DEF Walking
<1> QED
  BY <1>7, <1>9, <1>10, CountStepped

LEMMA SearchCounts ==
    ASSUME WalkInv, NEW t \in Contexts,
           SearchEdge(t) \/ SearchDone(t) \/ Decide(t)
    PROVE  CountInv'
<1>1. TypeInv
  BY DEF WalkInv, GraphInv
<1>2. CASE SearchEdge(t)
  <2>1. PICK i \in NextEdges(t) :
          walk' = [walk EXCEPT ![t] = Idle]
          \/ walk' = [walk EXCEPT ![t] = [walk[t] EXCEPT !.ei = i]]
          \/ walk' = [walk EXCEPT ![t] = Pushed(walk[t], edges[i], i)]
    BY <1>2 DEF SearchEdge
  <2>2. walk[t].at = "search" /\ walk[t] \in Walk
    BY <1>1, <1>2 DEF SearchEdge, TypeInv
  <2>3. Pushed(walk[t], edges[i], i).at = "search"
    BY <2>2 DEF Pushed, Walk
  <2>4. walk'[t].at \in {"search", "idle"}
        /\ \A u \in Contexts \ {t} : walk'[u] = walk[u]
    BY <1>1, <2>1, <2>2, <2>3, IdleOK DEF TypeInv, Walk
  <2> QED
    BY <2>2, <2>4, CountStepped DEF Counts
<1>3. CASE SearchDone(t) \/ Decide(t)
  <2>1. walk' = [walk EXCEPT ![t] = Idle] /\ walk[t].at # "idle"
    BY <1>3 DEF SearchDone, Decide
  <2>2. walk'[t].at = "idle" /\ \A u \in Contexts \ {t} : walk'[u] = walk[u]
    BY <1>1, <2>1, IdleOK DEF TypeInv
  <2> QED
    BY <2>1, <2>2, CountStepped DEF Counts
<1> QED
  BY <1>2, <1>3

LEMMA CascadeDoneCounts ==
    ASSUME WalkInv, NEW t \in Contexts, CascadeDone(t)
    PROVE  CountInv'
<1> DEFINE w == walk[t]
<1>1. TypeInv /\ TypeInv'
  BY DoneTypes DEF WalkInv, GraphInv
<1>2. /\ w \in Walk /\ w.at = "cascade" /\ w.stack = <<>> /\ NextEdges(t) = {}
      /\ edges' = edges /\ visited' = visited
  BY <1>1 DEF CascadeDone, Exhausted, TypeInv
<1>3. PICK x : x = walk'[t]
  OBVIOUS
<1>4. /\ x.at = "decide" /\ x.stack = <<>> /\ x.cur = NoOp
      /\ x.need = w.need /\ x.goal = w.goal /\ x.press = w.press
      /\ x.exact = w.exact
  BY <1>1, <1>2, <1>3 DEF CascadeDone, TypeInv, Walk
<1>5. \A u \in Contexts \ {t} : walk'[u] = walk[u]
  BY <1>1 DEF CascadeDone, TypeInv
<1>6. ASSUME w.exact
      PROVE  Traced(edges, x, visited) /\ Charged(edges, x, visited)
  <2>1. Traced(edges, w, visited) /\ Charged(edges, w, visited)
    BY <1>2, <1>6 DEF WalkInv, CountInv, Counts
  <2>2. Graph(edges, w, visited) /\ Graph(edges, x, visited)
    BY <1>1, <1>2, <1>3 DEF Graph, TypeInv, Walk
  <2>3. Met(x, visited) = Met(w, visited)
    BY <1>2, <1>4 DEF Met
  <2>4. \A i \in 1 .. Len(edges) : edges[i].parent = w.cur => i =< w.ei
    BY <1>1, <1>2, NoneMissed
  <2>5. \A i \in 1 .. Len(edges) : edges[i].parent # NoOp
    <3>1. \A i \in 1 .. Len(edges) : edges[i] \in Edge
      BY <2>2 DEF Graph
    <3> QED
      BY <3>1, ConstantTypes DEF Edge
  <2>6. Looked(edges, x, visited) = Looked(edges, w, visited)
    BY <1>4, <2>4, <2>5 DEF Looked, LiveFrom
  <2>7. Charged(edges, x, visited)
    BY <1>4, <2>1, <2>2, <2>3, <2>6, ChargedKept
  <2>8. Traced(edges, x, visited)
    BY <1>2, <1>4, <2>1, <2>3, <2>6 DEF Traced
  <2> QED
    BY <2>7, <2>8
<1>7. Counts(edges', walk'[t], visited')
  BY <1>2, <1>3, <1>4, <1>6 DEF Counts
<1> QED
  BY <1>2, <1>5, <1>7, CountStepped

LEMMA CascadeEdgeCounts ==
    ASSUME WalkInv, NEW t \in Contexts, CascadeEdge(t)
    PROVE  CountInv'
<1> DEFINE w == walk[t]
<1>1. /\ TypeInv /\ TypeInv' /\ edges' = edges /\ visited' = visited
      /\ \A u \in Contexts \ {t} : walk'[u] = walk[u]
  BY CascadeEdgeTypes DEF WalkInv, GraphInv
<1>2. PICK i \in NextEdges(t) :
        walk' = [walk EXCEPT ![t] =
                   IF edges[i].child \notin visited /\ Live(edges[i], w.press)
                   THEN Pushed([w EXCEPT !.need = WithChild(@, edges[i])],
                               edges[i], i)
                   ELSE [w EXCEPT !.ei = i]]
  BY DEF CascadeEdge
<1>3. /\ i \in 1 .. Len(edges) /\ edges[i].parent = w.cur /\ w.ei < i
      /\ w.cur # NoOp /\ edges[i] \in Edge
      /\ \A k \in w.ei + 1 .. i - 1 : edges[k].parent # w.cur
  BY <1>1, NextEdgesAre
<1>4. w \in Walk /\ w.at = "cascade" /\ walk[t].at # "idle"
  BY <1>1 DEF CascadeEdge, TypeInv
<1>5. PICK x : x = walk'[t]
  OBVIOUS
<1>6. x = IF edges[i].child \notin visited /\ Live(edges[i], w.press)
          THEN Pushed([w EXCEPT !.need = WithChild(@, edges[i])], edges[i], i)
          ELSE [w EXCEPT !.ei = i]
  BY <1>1, <1>2, <1>5 DEF TypeInv
<1>7. Graph(edges, w, visited) /\ Graph(edges, x, visited)
  BY <1>1, <1>4, <1>5 DEF Graph, TypeInv, Walk
<1>8. CASE ~(edges[i].child \notin visited /\ Live(edges[i], w.press))
  <2>1. /\ x.stack = w.stack /\ x.cur = w.cur /\ x.depth = w.depth /\ x.ei = i
        /\ x.need = w.need /\ x.goal = w.goal /\ x.press = w.press
        /\ x.at = "cascade" /\ x.exact = w.exact
    BY <1>4, <1>6, <1>8 DEF Walk
  <2>2. ASSUME w.exact
        PROVE  Traced(edges, x, visited) /\ Charged(edges, x, visited)
    <3>1. Traced(edges, w, visited) /\ Charged(edges, w, visited)
      BY <1>4, <2>2 DEF WalkInv, CountInv, Counts
    <3> HIDE DEF w
    <3> QED
      BY <1>3, <1>7, <1>8, <2>1, <3>1, CascadePasses
  <2>3. Counts(edges', walk'[t], visited')
    BY <1>1, <1>5, <2>1, <2>2 DEF Counts
  <2> QED
    BY <1>1, <1>4, <2>3, CountStepped
<1>9. CASE edges[i].child \notin visited /\ Live(edges[i], w.press)
  <2> DEFINE n == WithChild(w.need, edges[i])
             room == Len(w.stack) < StackSize
             a == [op |-> edges[i].child, depth |-> w.depth + 1]
             s == IF room THEN Append(w.stack, a) ELSE w.stack
             e == w.exact /\ room
  <2>1. x = [[w EXCEPT !.need = n] EXCEPT !.ei = i, !.stack = s, !.exact = e]
    BY <1>4, <1>6, <1>9 DEF Pushed, Walk
  <2>2. w.stack \in Seq(Place) /\ w.depth \in Nat
    BY <1>4, ConstantTypes DEF Walk
  <2>3. room => /\ Len(s) = Len(w.stack) + 1 /\ s[Len(w.stack) + 1] = a
                /\ \A j \in 1 .. Len(w.stack) : s[j] = w.stack[j]
    <3> HIDE DEF a, w
    <3>1. Append(w.stack, a)[Len(w.stack) + 1] = a
          /\ Len(Append(w.stack, a)) = Len(w.stack) + 1
          /\ \A j \in 1 .. Len(w.stack) : Append(w.stack, a)[j] = w.stack[j]
      BY <2>2
    <3> QED
      BY <3>1
  <2> HIDE DEF n, s, e
  <2>4. /\ x.stack = s /\ x.cur = w.cur /\ x.depth = w.depth /\ x.ei = i
        /\ x.need = n /\ x.goal = w.goal /\ x.press = w.press
        /\ x.at = "cascade" /\ x.exact = e
    BY <1>4, <2>1 DEF Walk
  <2>5. ASSUME x.exact
        PROVE  Traced(edges, x, visited) /\ Charged(edges, x, visited)
    <3>1. w.exact /\ room
      BY <2>4, <2>5 DEF e
    <3>2. Traced(edges, w, visited) /\ Charged(edges, w, visited)
      BY <1>4, <3>1 DEF WalkInv, CountInv, Counts
    <3>3. PushesTo(edges, w, i, x, s)
      BY <2>3, <2>4, <3>1 DEF PushesTo, n
    <3> HIDE DEF w, a, room
    <3> QED
      BY <1>3, <1>7, <1>9, <3>2, <3>3, CascadePushes
  <2>6. Counts(edges', walk'[t], visited')
    BY <1>1, <1>5, <2>4, <2>5 DEF Counts
  <2> QED
    BY <1>1, <1>4, <2>6, CountStepped
<1> QED
  BY <1>8, <1>9

LEMMA CountInit == Init => WalkInv
<1> SUFFICES ASSUME Init
             PROVE  WalkInv
  OBVIOUS
<1>1. GraphInv
  BY GraphInit
<1>2. \A t \in Contexts : walk[t].at = "idle"
  BY IdleOK DEF Init
<1> QED
  BY <1>1, <1>2 DEF WalkInv, CountInv, Counts

LEMMA CountNext == WalkInv /\ [Next]_vars => WalkInv'
<1> SUFFICES ASSUME WalkInv, [Next]_vars
             PROVE  CountInv'
  BY GraphNext DEF WalkInv
<1>1. CASE Reinit
  BY <1>1 DEF Reinit, CountInv, Counts
<1>2. ASSUME NEW c \in TriggerCalls,
             \/ UpdateEdge(Configurator, c[1], c[2], c[3])
             \/ AppendEdge(Configurator, c[1], c[2], c[3])
      PROVE  CountInv'
  BY <1>2, Calls, ConstantTypes, CountConfigured
<1>3. ASSUME NEW t \in Contexts, NEW c \in CheckCalls[t],
             StartCascade(t, c[1], c[2])
      PROVE  CountInv'
  BY <1>3, Calls, StartCascadeCounts
<1>4. ASSUME NEW t \in Contexts, Step(t)
      PROVE  CountInv'
  <2>1. CASE Pop(t)
    BY <2>1, PopCounts
  <2>2. CASE CascadeEdge(t)
    BY <2>2, CascadeEdgeCounts
  <2>3. CASE CascadeDone(t)
    BY <2>3, CascadeDoneCounts
  <2>4. CASE SearchEdge(t) \/ SearchDone(t) \/ Decide(t)
    BY <2>4, SearchCounts
  <2> QED
    BY <1>4, <2>1, <2>2, <2>3, <2>4 DEF Step
<1>5. CASE UNCHANGED vars
  BY <1>5 DEF vars, WalkInv, CountInv
<1> QED
  BY <1>1, <1>2, <1>3, <1>4, <1>5 DEF Next

(* When a context that had the bitmap for itself decides. *)
LEMMA DecideBounds ==
    ASSUME WalkInv, NEW t \in Contexts, walk[t].at = "decide", walk[t].exact,
           NEW r \in ResourceIds
    PROVE  LET o == walk[t].goal
               p == walk[t].press
           IN  /\ walk[t].need[r] \in Nat
               /\ walk[t].need[r] =< MostNeed(edges, o, p, r)
               /\ MostNeed(edges, o, p, r) \in Nat
               /\ NoLongPath(edges, o, p) =>
                     /\ LeastNeed(edges, o, p, r) =< walk[t].need[r]
                     /\ LeastNeed(edges, o, p, r) \in Nat
<1> DEFINE w == walk[t]
<1>1. Graph(edges, w, visited)
  BY DEF WalkInv, GraphInv, TypeInv, Graph, Walk
<1>2. /\ Traced(edges, w, visited) /\ Charged(edges, w, visited)
      /\ w.stack = <<>> /\ w.cur = NoOp
  BY DEF WalkInv, CountInv, Counts
<1>3. w.need[r] \in Nat
  BY <1>1, SizesAssumption DEF Graph, Walk, U16
<1> HIDE DEF w
<1>4. /\ w.need[r] =< MostNeed(edges, w.goal, w.press, r)
      /\ MostNeed(edges, w.goal, w.press, r) \in Nat
      /\ NoLongPath(edges, w.goal, w.press) =>
            /\ LeastNeed(edges, w.goal, w.press, r) =< w.need[r]
            /\ LeastNeed(edges, w.goal, w.press, r) \in Nat
  BY <1>1, <1>2, CountedNeed
<1> QED
  BY <1>3, <1>4 DEF w

LEMMA AvailableType ==
    ASSUME NEW x \in Resource
    PROVE  AvailableOf(x) \in Nat
<1>1. x.limit \in Nat /\ x.used \in Nat /\ x.reserved \in Nat
  BY SizesAssumption DEF Resource, U16
<1> QED
  BY <1>1 DEF AvailableOf, Available

LEMMA VerdictBounds ==
    ASSUME WalkInv, NEW t \in Contexts, walk[t].at = "decide", walk[t].exact,
           CascadeFailures(walk[t].need) # {}
    PROVE  LET d == CascadeVerdict(walk[t].need, walk[t].press)
           IN  /\ ~Allowed(d.action)
               /\ MostNeed(edges, walk[t].goal, walk[t].press, d.denied_resource)
                     > d.available
<1> DEFINE n == walk[t].need
           F == CascadeFailures(n)
           r == Min(F)
           x == ResourceTable[r]
           d == CascadeVerdict(n, walk[t].press)
           most == MostNeed(edges, walk[t].goal, walk[t].press, r)
<1>1. F \in SUBSET ResourceIds /\ F \in SUBSET Nat
  BY DEF CascadeFailures, ResourceIds
<1>2. r \in F /\ r \in ResourceIds
  <2> HIDE DEF F
  <2> QED
    BY <1>1, MinIn DEF F
<1>3. /\ n[r] # 0 /\ x.cfg
      /\ IF x.kind = "STATE" THEN x.limit = 0 ELSE AvailableOf(x) < n[r]
  <2> HIDE DEF r
  <2> QED
    BY <1>2 DEF CascadeFailures
<1>4. n[r] \in Nat /\ n[r] =< most /\ most \in Nat
  BY <1>2, DecideBounds
<1>5. AvailableOf(x) \in Nat
  BY <1>2, AvailableType, CausalityAssumption
<1>6. /\ d.denied_resource = r
      /\ d.available = IF x.kind = "STATE" THEN 0 ELSE AvailableOf(x)
      /\ d.action \in {"WAIT", "REJECT"}
  BY DEF CascadeVerdict, NeedDenied
<1>7. ~Allowed(d.action)
  BY <1>6 DEF Allowed
<1> HIDE DEF d, r, n, x, most
<1>8. most > d.available
  BY <1>3, <1>4, <1>5, <1>6
<1> QED
  BY <1>6, <1>7, <1>8 DEF d, n, most

(* The cascade stage of loxbudget_check and its explicit stack: however    *)
(* deep and shared the graph, a check that had the bitmap for itself has   *)
(* charged every operation downstream, if no live path is longer than the  *)
(* depth limit, and no edge twice, at any size of the tables.              *)
THEOREM CascadeStaysCounted == Spec => []CascadeCounted
<1>1. WalkInv => CascadeCounted
  BY DecideBounds DEF CascadeCounted
<1> QED
  BY <1>1, CountInit, CountNext, PTL DEF Spec

(* The verdict of that stage: what it lets through fits with everything    *)
(* the operation may trigger, and what it refuses would not fit if every   *)
(* edge downstream were followed.                                          *)
THEOREM CascadeStaysDecided == Spec => []CascadeDecides
<1>1. ASSUME WalkInv
      PROVE  CascadeDecides
  <2> SUFFICES ASSUME NEW t \in Contexts, walk[t].at = "decide", walk[t].exact,
                      CascadeFailures(walk[t].need) = {},
                      NoLongPath(edges, walk[t].goal, walk[t].press),
                      NEW r \in ResourceIds,
                      ResourceTable[r].cfg, ResourceTable[r].kind # "STATE"
               PROVE  LeastNeed(edges, walk[t].goal, walk[t].press, r)
                        =< AvailableOf(ResourceTable[r])
    BY <1>1, VerdictBounds DEF CascadeDecides
  <2> DEFINE n == walk[t].need[r]
             least == LeastNeed(edges, walk[t].goal, walk[t].press, r)
             avail == AvailableOf(ResourceTable[r])
  <2>1. n \in Nat /\ least =< n /\ least \in Nat
    BY <1>1, DecideBounds
  <2>2. avail \in Nat
    BY AvailableType, CausalityAssumption
  <2>3. n = 0 \/ ~(avail < n)
    BY DEF CascadeFailures
  <2> HIDE DEF n, least, avail
  <2>4. least =< avail
    BY <2>1, <2>2, <2>3
  <2> QED
    BY <2>4 DEF least, avail
<1>2. Spec => []WalkInv
  BY CountInit, CountNext, PTL DEF Spec
<1> QED
  BY <1>1, <1>2, PTL

=============================================================================
