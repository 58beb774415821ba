---------------------------- MODULE LoxCalibration ----------------------------
(***************************************************************************)
(* Self-calibration, src/loxbudget_calibration.c: a session per operation  *)
(* collects samples of RAM and duration, keeps percentiles with the        *)
(* integer P-square estimator, and suggests limits.                        *)
(*                                                                         *)
(* The arithmetic keeps its widths.  Q is one unit of the fixed point      *)
(* (2^16), U16_MAX + 1 the values of a uint16_t; a uint32_t has            *)
(* (U16_MAX + 1) * Q of them.  The marker positions live in an int32_t in  *)
(* fixed point, which overflows at PosMax (2^15); the overflow is          *)
(* undefined and taken to wrap.  Markers are numbered from 1.              *)
(***************************************************************************)
EXTENDS Integers, Sequences, FiniteSetsExt

CONSTANTS
    U16_MAX, Q, PosMax,
    P50, P95, P99,       \* 0x8000, 0xF333 and 0xFD70 in units of 1/Q
    BaselineAt,          \* 500, the sample at which ram_max is remembered
    RamMargin,           \* 32
    TimeMargin,          \* 500
    MaxSamples,          \* bound: samples of one session, as long as an
                         \* int32_t counts them and int64_t holds the
                         \* products with a height
    Ops,                 \* the registered operations
    Targets,             \* arguments of calibrate_begin
    Samples              \* loxbudget_sample_t: ram_used and duration_us

U16     == 0 .. U16_MAX
U32_MOD == (U16_MAX + 1) * Q
U32     == 0 .. U32_MOD - 1

ASSUME CalibrationAssumption ==
    /\ U16_MAX \in Nat \ {0} /\ Q \in Nat \ {0, 1} /\ PosMax \in Nat \ {0}
    /\ {P50, P95, P99} \subseteq 1 .. Q - 1
    /\ BaselineAt \in Nat \ {0}
    /\ MaxSamples \in 1 .. U32_MOD \div 2 - 1
    /\ {RamMargin, TimeMargin} \subseteq Nat
    /\ Targets \subseteq U32
    /\ Samples \subseteq [ram : U16, dur : U32]

VARIABLES
    slot,    \* lb__calib_state_t of each operation
    low      \* history: the smallest RAM sample of the session

vars == <<slot, low>>

-----------------------------------------------------------------------------
(* Integer types. *)

(* Division of C: towards zero. *)
Quotient(a, b) ==
    LET m == (IF a < 0 THEN -a ELSE a) \div (IF b < 0 THEN -b ELSE b)
    IN  IF (a < 0) = (b < 0) THEN m ELSE -m

(* The positions as int32_t. *)
Position(v) == ((v + PosMax * Q) % (2 * PosMax * Q)) - PosMax * Q

(* Mutant: the product is kept in a wider type. *)
BugShifted(x) == x * Q

(* x << 16 in uint32_t loses the upper half of x. *)
Shifted(x) == (x * Q) % U32_MOD

-----------------------------------------------------------------------------
(* The P-square estimator, lb__p2_estimator_t: its buffer of the first     *)
(* samples, then five markers with a position n, a desired position np and *)
(* a height q.                                                             *)

Estimator == [buf : Seq(U32), n : Seq(Int), np : Seq(Int), q : Seq(U32)]

Fresh == [buf |-> <<>>, n |-> <<>>, np |-> <<>>, q |-> <<>>]
Ready(e) == e.n # <<>>

(* SWAP of lb__sort5_u32_: a function of the five values.                  *)
Swap(i, j) ==
    [s \in [1 .. 5 -> Nat] |->
       IF s[i] > s[j] THEN [s EXCEPT ![i] = s[j], ![j] = s[i]] ELSE s]

(* Mutant: the network without its last comparison. *)
BugSort5(s) ==
    Swap(2, 4)[Swap(1, 3)[Swap(1, 4)[Swap(2, 5)[
        Swap(3, 4)[Swap(3, 5)[Swap(4, 5)[Swap(1, 2)[s]]]]]]]]

(* lb__sort5_u32_: the sorting network, its first comparison innermost. *)
Sort5(s) ==
    Swap(2, 3)[Swap(2, 4)[Swap(1, 3)[Swap(1, 4)[Swap(2, 5)[
        Swap(3, 4)[Swap(3, 5)[Swap(4, 5)[Swap(1, 2)[s]]]]]]]]]

(* lb__p2_init_: the increments of the desired positions. *)
Increment(p) == <<0, p \div 2, p, (Q + p) \div 2, Q>>

(* lb__p2_seed5_. *)
Seeded(buf, p) ==
    LET s == Sort5(buf)
        d == <<Q, Q + 2 * p, Q + 4 * p, 3 * Q + 2 * p, 5 * Q>>
    IN  [buf |-> <<>>,
         n   |-> <<1, 2, 3, 4, 5>>,
         np  |-> [i \in 1 .. 5 |-> Position(d[i])],
         q   |-> [i \in 1 .. 5 |-> Shifted(s[i])]]

(* lb__p2_parabolic_ and lb__p2_linear_: the new height of marker i moved  *)
(* by d.                                                                   *)
Parabolic(e, i, d) ==
    LET up   == Quotient((e.n[i] - e.n[i - 1] + d) * (e.q[i + 1] - e.q[i]),
                         e.n[i + 1] - e.n[i])
        down == Quotient((e.n[i + 1] - e.n[i] - d) * (e.q[i] - e.q[i - 1]),
                         e.n[i] - e.n[i - 1])
    IN  (e.q[i] + Quotient(d * (up + down), e.n[i + 1] - e.n[i - 1])) % U32_MOD

Linear(e, i, d) ==
    (e.q[i] + Quotient(d * (e.q[i + d] - e.q[i]), e.n[i + d] - e.n[i]))
       % U32_MOD

(* Whether marker i moves: it is a whole position away from where it       *)
(* should be and its neighbour leaves room.                                *)
Move(e, i) ==
    LET delta == Position(e.np[i] - Position(e.n[i] * Q))
    IN  CASE delta >= Q /\ e.n[i + 1] - e.n[i] > 1   -> 1
          [] delta =< -Q /\ e.n[i] - e.n[i - 1] > 1  -> -1
          [] OTHER                                   -> 0

(* The height of marker i after it moved by d. *)
Height(e, i, d) ==
    LET h == Parabolic(e, i, d)
    IN  IF e.q[i - 1] < h /\ h < e.q[i + 1] THEN h ELSE Linear(e, i, d)

Adjusted(i) ==
    [e \in Estimator |->
       LET d == Move(e, i)
       IN  IF d = 0 THEN e
           ELSE [e EXCEPT !.n[i] = @ + d, !.q[i] = Height(e, i, d)]]

(* Mutant: a new maximum is put past the last cell. *)
BugCell(q, x) ==
    CASE x < q[1]  -> 1
      [] ~(x < q[1]) /\ x >= q[5] -> 5
      [] OTHER -> LET C == {i \in 1 .. 4 : q[i] =< x /\ x < q[i + 1]}
                  IN  IF C = {} THEN 1 ELSE Min(C)

(* The cell of a sample, and the extreme markers it moves. *)
Cell(q, x) ==
    CASE x < q[1]  -> 1
      [] ~(x < q[1]) /\ x >= q[5] -> 4
      [] OTHER -> LET C == {i \in 1 .. 4 : q[i] =< x /\ x < q[i + 1]}
                  IN  IF C = {} THEN 1 ELSE Min(C)

Extended(q, x) ==
    IF x < q[1] THEN [q EXCEPT ![1] = x]
    ELSE IF x >= q[5] THEN [q EXCEPT ![5] = x] ELSE q

(* The markers when a sample was counted: those above its cell move up.    *)
Counted(e, p, x) ==
    LET k == Cell(e.q, Shifted(x))
    IN  [e EXCEPT !.q  = Extended(@, Shifted(x)),
                  !.n  = [i \in 1 .. 5 |-> IF i > k THEN @[i] + 1 ELSE @[i]],
                  !.np = [i \in 1 .. 5 |-> Position(@[i] + Increment(p)[i])]]

(* lb__p2_add_sample_. *)
Added(e, p, x) ==
    IF Ready(e) THEN Adjusted(4)[Adjusted(3)[Adjusted(2)[Counted(e, p, x)]]]
    ELSE IF Len(e.buf) = 4 THEN Seeded(Append(e.buf, x), p)
    ELSE [e EXCEPT !.buf = Append(@, x)]

(* lb__p2_get_q_q16_: the middle marker, and before there are markers the  *)
(* middle of the buffered samples padded with zeros.                       *)
Estimate(e) ==
    IF Ready(e) THEN e.q[3]
    ELSE IF e.buf = <<>> THEN 0
    ELSE LET s == [i \in 1 .. 5 |-> IF i =< Len(e.buf) THEN e.buf[i] ELSE 0]
         IN  Shifted(Sort5(s)[Len(e.buf) \div 2 + 1])

-----------------------------------------------------------------------------
(* Sessions. *)

NoSession == [active |-> FALSE, target |-> 0, samples |-> 0,
              ram_p50 |-> Fresh, ram_p95 |-> Fresh, ram_p99 |-> Fresh,
              dur_p95 |-> Fresh, dur_p99 |-> Fresh, ram_max |-> 0,
              baseline |-> 0, outliers |-> 0, dur_max |-> 0]

(* sample > p99 * 1.5, or after the baseline sample > ram_max_at_500 * 1.2 *)
Outlier(s, ram) ==
    LET p == Estimate(s.ram_p99)
    IN  \/ ram * Q > p + p \div 2
        \/ /\ s.samples > BaselineAt
           /\ s.baseline # 0
           /\ ram > (s.baseline * 12) \div 10

Maximum(a, b) == IF b > a THEN b ELSE a

(* The session after a sample was counted and every estimator fed. *)
WithSample(s, x) ==
    LET c == [s EXCEPT !.samples = @ + 1,
                       !.ram_max = Maximum(@, x.ram),
                       !.dur_max = Maximum(@, x.dur),
                       !.baseline = IF s.samples + 1 = BaselineAt
                                    THEN Maximum(s.ram_max, x.ram) ELSE @,
                       !.ram_p50 = Added(@, P50, x.ram),
                       !.ram_p95 = Added(@, P95, x.ram),
                       !.ram_p99 = Added(@, P99, x.ram),
                       !.dur_p95 = Added(@, P95, x.dur),
                       !.dur_p99 = Added(@, P99, x.dur)]
    IN  [c EXCEPT !.outliers = IF Outlier(c, x.ram)
                               THEN (@ + 1) % (U16_MAX + 1) ELSE @]

(* Mutant: the observed maximum is forgotten. *)
BugSuggested(s) ==
    [ram |-> (Estimate(s.ram_p99) \div Q + RamMargin) % (U16_MAX + 1),
     dur |-> (Estimate(s.dur_p99) \div Q + TimeMargin) % U32_MOD]

(* lb__calib_compute_suggested_: the larger of p99 plus a margin and the   *)
(* maximum plus a share of it, each in the width of its type.              *)
Suggested(s) ==
    [ram |-> Maximum((Estimate(s.ram_p99) \div Q + RamMargin) % (U16_MAX + 1),
                     ((s.ram_max * 105) \div 100) % (U16_MAX + 1)),
     dur |-> Maximum((Estimate(s.dur_p99) \div Q + TimeMargin) % U32_MOD,
                     ((s.dur_max * 110) % U32_MOD) \div 100)]

-----------------------------------------------------------------------------

Init ==
    /\ slot = [o \in Ops |-> NoSession]
    /\ low = [o \in Ops |-> U16_MAX]

(* loxbudget_init clears the slots. *)
Reinit ==
    /\ slot' = [o \in Ops |-> NoSession]
    /\ low' = [o \in Ops |-> U16_MAX]

(* loxbudget_calibrate_begin; a session under way is not interrupted. *)
CalibrateBegin(o, target) ==
    /\ target # 0
    /\ ~slot[o].active
    /\ slot' = [slot EXCEPT ![o] = [NoSession EXCEPT !.active = TRUE,
                                                     !.target = target]]
    /\ low' = [low EXCEPT ![o] = U16_MAX]

(* loxbudget_calibrate_sample. *)
CalibrateSample(o, x) ==
    /\ slot[o].active
    /\ slot[o].samples < MaxSamples
    /\ slot' = [slot EXCEPT ![o] = WithSample(@, x)]
    /\ low' = [low EXCEPT ![o] = IF x.ram < @ THEN x.ram ELSE @]

(* loxbudget_calibrate_end hands out the suggestion; what was collected    *)
(* stays for the export until the next session.                            *)
CalibrateEnd(o) ==
    /\ slot[o].active
    /\ slot' = [slot EXCEPT ![o].active = FALSE]
    /\ UNCHANGED low

Next ==
    \/ Reinit
    \/ \E o \in Ops : \/ \E t \in Targets : CalibrateBegin(o, t)
                      \/ \E x \in Samples : CalibrateSample(o, x)
                      \/ CalibrateEnd(o)

Spec == Init /\ [][Next]_vars

-----------------------------------------------------------------------------
(* Properties. *)

RamEstimators(s) == {s.ram_p50, s.ram_p95, s.ram_p99}
DurEstimators(s) == {s.dur_p95, s.dur_p99}
Increasing(s)    == \A i \in 1 .. Len(s) - 1 : s[i] < s[i + 1]
Ordered(s)       == \A i \in 1 .. Len(s) - 1 : s[i] =< s[i + 1]

(* Every field keeps its C type. *)
TypeOK ==
    \A o \in Ops :
       LET s == slot[o]
       IN  /\ s.active \in BOOLEAN
           /\ {s.target, s.samples, s.dur_max} \subseteq U32
           /\ {s.ram_max, s.baseline, s.outliers, low[o]} \subseteq U16
           /\ \A e \in RamEstimators(s) \cup DurEstimators(s) :
                /\ Ready(e) => /\ e.q \in [1 .. 5 -> U32]
                               /\ e.np \in [1 .. 5 -> Int]
                /\ Len(e.buf) =< 4

(* The markers of every estimator stay at distinct positions between the   *)
(* first and the last sample, so that neither formula divides by zero,     *)
(* also when the desired positions have overflowed and when durations lost *)
(* their upper half.                                                       *)
PositionsDistinct ==
    \A o \in Ops : \A e \in RamEstimators(slot[o]) \cup DurEstimators(slot[o]) :
       Ready(e) => /\ Increasing(e.n)
                   /\ e.n[1] = 1
                   /\ e.n[5] = slot[o].samples

(* The heights stay in order and span exactly what was observed: a RAM     *)
(* percentile is never outside the samples it was computed from.  Duration *)
(* markers keep their order as long as durations fit 16 bits.              *)
HeightsOrdered ==
    \A o \in Ops :
       LET s == slot[o]
       IN  /\ \A e \in RamEstimators(s) : Ready(e) =>
                 /\ Ordered(e.q)
                 /\ e.q[1] = low[o] * Q /\ e.q[5] = s.ram_max * Q
           /\ s.dur_max =< U16_MAX => \A e \in DurEstimators(s) :
                 Ready(e) => Ordered(e.q) /\ e.q[5] = s.dur_max * Q

(* A suggested limit admits everything that was observed, as long as the   *)
(* maximum with its share fits the type it is computed in.                 *)
SuggestionAdmitsObserved ==
    \A o \in Ops :
       LET s == slot[o]
       IN  /\ (s.ram_max * 105) \div 100 =< U16_MAX =>
                 Suggested(s).ram >= s.ram_max
           /\ s.dur_max * 110 < U32_MOD => Suggested(s).dur >= s.dur_max

=============================================================================
