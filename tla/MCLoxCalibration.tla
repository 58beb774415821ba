--------------------------- MODULE MCLoxCalibration ---------------------------
(* A small instance of LoxCalibration for TLC. *)
EXTENDS LoxCalibration

(* RAM from nothing to the largest value, durations that fit 16 bits and   *)
(* one that does not.                                                      *)
MCSamples == {[ram |-> 0, dur |-> 1], [ram |-> 1, dur |-> 0],
              [ram |-> 5, dur |-> 9], [ram |-> 15, dur |-> 16]}

=============================================================================
