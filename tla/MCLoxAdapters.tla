---------------------------- MODULE MCLoxAdapters ----------------------------
(* A small instance of LoxAdapters for TLC. *)
EXTENDS LoxAdapters

A(a, b, s, m) == [adapter |-> a, budget |-> b, sink |-> s, min |-> m]

MCAttachCalls == {A("loxguard", "b1", "g1", 0), A("loxguard", "b2", "g2", 0),
                  A("microbus", "b1", "bus", 0), A("microlog", "b1", "log", 1),
                  A("nvlog", "b2", "nv", 3)}

H(b, e, c, s) == [budget |-> b, elevated |-> e, critical |-> c, survival |-> s]

MCHealthCalls == {H("b1", 40, 60, 80), H("b1", 20, 60, 90)}

(* The decision hooks and the pressure share nothing but live: no action   *)
(* of one half reads or writes the other, and each property is about one   *)
(* of them.  Following one half while the other rests reaches every state  *)
(* either property can tell apart.                                         *)
HooksRest    == \A a \in Adapters : ctx[a] = NoAttach
PressureRest == /\ health = Unhealthy
                /\ \A b \in Budgets : source[b] = "init" /\ told[b] = NORMAL

OneHalf == HooksRest \/ PressureRest

=============================================================================
