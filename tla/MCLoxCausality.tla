---------------------------- MODULE MCLoxCausality ----------------------------
(* Small instances of LoxCausality for TLC. *)
EXTENDS LoxCausality, TLC

CONSTANTS main, isr

(* Another operation holds one unit of resource 0. *)
Res(kind, limit, held) ==
    [cfg |-> TRUE, kind |-> kind, limit |-> limit, used |-> 0,
     reserved |-> held, high_watermark |-> held]
MCResourceTable  == (0 :> Res("REUSABLE", 5, 1)) @@ (1 :> Res("STATE", 1, 0))
MCNeedLists      == [o \in OpIds |-> [i \in NeedIndex |->
                       [resource |-> i - 1, amount |-> IF i = 1 THEN o + 1 ELSE 1]]]

MCTriggerCalls == {<<0, 1, ALWAYS>>, <<1, 2, ALWAYS>>, <<2, 3, MAYBE>>,
                   <<0, 2, RARE>>, <<0, 2, NEVER>>, <<2, 0, ALWAYS>>,
                   <<3, 1, ALWAYS>>}
MCCheckCalls   == (main :> {<<0, CRITICAL>>}) @@ (isr :> {<<0, NORMAL>>})

(* Thirteen edges, offered in this order; each is registered or left out. *)
BootTable == <<<<0, 1>>, <<0, 2>>, <<0, 3>>, <<0, 4>>, <<4, 1>>, <<4, 2>>,
               <<4, 3>>, <<3, 1>>, <<3, 2>>, <<2, 1>>, <<2, 5>>, <<5, 6>>,
               <<6, 0>>>>
BootCalls == {<<BootTable[i][1], BootTable[i][2], ALWAYS>> : i \in 1 .. 13}
NoChecks  == [t \in Contexts |-> {}]
Position(p, c) == CHOOSE i \in 1 .. 13 : BootTable[i] = <<p, c>>

InBootOrder ==
    \A i, j \in 1 .. Len(edges) :
       i < j => Position(edges[i].parent, edges[i].child)
                < Position(edges[j].parent, edges[j].child)

BootSpec == Init /\ [][Next /\ InBootOrder']_vars

=============================================================================
