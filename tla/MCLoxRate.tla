------------------------------ MODULE MCLoxRate ------------------------------
(* A small instance of LoxRate for TLC. *)
EXTENDS LoxRate, TLC

N(r, a) == [resource |-> r, amount |-> a]

MCDuration      == (1 :> 2) @@ (2 :> 3)
MCNeedList      == ("log" :> <<N(0, 2)>>) @@ ("flash" :> <<N(1, 1), N(0, 1)>>)
                   @@ ("dump" :> <<N(0, 1)>>)
(* The second limit does not fit a bucket: 3 * Q loses its upper half.     *)
MCRateCalls     == {<<0, 1, 1>>, <<0, 2, 3>>}
MCLifetimeCalls == {<<1, 1>>}

=============================================================================
