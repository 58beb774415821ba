------------------------- MODULE LoxCalibrationProofs -------------------------
(***************************************************************************)
(* Theorems about self-calibration, for every width of the types, every    *)
(* fixed point, number of samples and arguments.                           *)
(***************************************************************************)
EXTENDS LoxCalibration, SequenceTheorems, TLAPS

-----------------------------------------------------------------------------
(* Numbers. *)

LEMMA Widths ==
    /\ U16_MAX \in Nat \ {0} /\ Q \in Nat \ {0, 1} /\ PosMax \in Nat \ {0}
    /\ U32_MOD \in Nat \ {0} /\ U32_MOD > U16_MAX
    /\ U32 = 0 .. U32_MOD - 1
    /\ \A x \in U16 : x \in Nat /\ x * Q \in Nat /\ x * Q < U32_MOD
<1>1. U16_MAX \in Nat \ {0} /\ Q \in Nat \ {0, 1} /\ PosMax \in Nat \ {0}
  BY CalibrationAssumption
<1>2. \A a, b \in Nat : a * b \in Nat
  OBVIOUS
<1>3. (U16_MAX + 1) * Q = U16_MAX * Q + Q /\ U16_MAX * Q \in Nat
  BY <1>1, <1>2
<1>4. U16_MAX * Q >= U16_MAX
  <2>1. U16_MAX * Q = U16_MAX + U16_MAX * (Q - 1)
    BY <1>1
  <2>2. U16_MAX * (Q - 1) \in Nat
    BY <1>1, <1>2
  <2> QED
    BY <1>1, <2>1, <2>2
<1>5. U32_MOD \in Nat \ {0} /\ U32_MOD > U16_MAX
  BY <1>1, <1>3, <1>4 DEF U32_MOD
<1>6. ASSUME NEW x \in U16
      PROVE  x \in Nat /\ x * Q \in Nat /\ x * Q < U32_MOD
  <2>1. x \in Nat /\ U16_MAX - x \in Nat
    BY <1>1, <1>6 DEF U16
  <2>2. U16_MAX * Q = x * Q + (U16_MAX - x) * Q
    BY <1>1, <2>1
  <2>3. (U16_MAX - x) * Q \in Nat /\ x * Q \in Nat
    BY <1>1, <1>2, <2>1
  <2> QED
    BY <1>1, <1>3, <2>1, <2>2, <2>3 DEF U32_MOD
<1> QED
  BY <1>1, <1>5, <1>6 DEF U32

(* Scaling by Q keeps the order. *)
LEMMA ScaleOrder ==
    ASSUME NEW a \in Nat, NEW b \in Nat
    PROVE  a * Q =< b * Q <=> a =< b
<1>1. Q \in Nat \ {0}
  BY Widths
<1>2. \A x, y \in Nat : x * y \in Nat
  OBVIOUS
<1>3. CASE a =< b
  <2>1. b - a \in Nat /\ b * Q = a * Q + (b - a) * Q
    BY <1>1, <1>3
  <2>2. (b - a) * Q \in Nat /\ a * Q \in Nat /\ b * Q \in Nat
    BY <1>1, <1>2, <2>1
  <2> QED
    BY <1>3, <2>1, <2>2
<1>4. CASE b < a
  <2>1. a - b - 1 \in Nat /\ a * Q = b * Q + Q + (a - b - 1) * Q
    BY <1>1, <1>4
  <2>2. (a - b - 1) * Q \in Nat /\ a * Q \in Nat /\ b * Q \in Nat
    BY <1>1, <1>2, <2>1
  <2> QED
    BY <1>1, <1>4, <2>1, <2>2
<1> QED
  BY <1>3, <1>4

(* A remainder has the width of its type. *)
LEMMA Remainder ==
    ASSUME NEW x \in Int
    PROVE  /\ x % U32_MOD \in U32
           /\ x % (U16_MAX + 1) \in U16
           /\ 0 =< x /\ x < U32_MOD => x % U32_MOD = x
           /\ 0 =< x /\ x =< U16_MAX => x % (U16_MAX + 1) = x
<1>1. U32_MOD \in Nat \ {0} /\ U16_MAX \in Nat /\ U32 = 0 .. U32_MOD - 1
  BY Widths
<1>2. ASSUME NEW m \in Nat \ {0}
      PROVE  x % m \in 0 .. m - 1 /\ (0 =< x /\ x < m => x % m = x)
  BY <1>2
<1>3. x % U32_MOD \in 0 .. U32_MOD - 1 /\ (0 =< x /\ x < U32_MOD => x % U32_MOD = x)
  BY <1>1, <1>2
<1>4. U16_MAX + 1 \in Nat \ {0}
  BY <1>1
<1>5. x % (U16_MAX + 1) \in 0 .. U16_MAX
      /\ (0 =< x /\ x =< U16_MAX => x % (U16_MAX + 1) = x)
  BY <1>1, <1>2, <1>4
<1> QED
  BY <1>1, <1>3, <1>5 DEF U16

(* The division of C, for divisors other than zero; of a number that is    *)
(* not negative it gives no more than that number.                         *)
LEMMA QuotientType ==
    ASSUME NEW a \in Int, NEW b \in Int \ {0}
    PROVE  /\ Quotient(a, b) \in Int
           /\ a >= 0 /\ b > 0 => Quotient(a, b) \in 0 .. a
           /\ a >= 0 /\ b < 0 => -Quotient(a, b) \in 0 .. a
<1> DEFINE x == IF a < 0 THEN -a ELSE a
           y == IF b < 0 THEN -b ELSE b
           m == x \div y
<1>1. x \in Nat /\ y \in Nat \ {0}
  OBVIOUS
<1>2. ASSUME NEW u \in Nat, NEW v \in Nat \ {0}
      PROVE  u \div v \in Nat /\ u \div v =< u
  BY <1>2
<1>3. m \in Nat /\ m =< x
  BY <1>1, <1>2
<1>4. Quotient(a, b) = IF (a < 0) = (b < 0) THEN m ELSE -m
  BY DEF Quotient
<1> HIDE DEF m
<1>5. a >= 0 => x = a
  OBVIOUS
<1> HIDE DEF x
<1>6. Quotient(a, b) \in Int
  BY <1>3, <1>4
<1>7. ASSUME a >= 0, b > 0
      PROVE  Quotient(a, b) \in 0 .. a
  BY <1>3, <1>4, <1>5, <1>7
<1>8. ASSUME a >= 0, b < 0
      PROVE  -Quotient(a, b) \in 0 .. a
  BY <1>3, <1>4, <1>5, <1>8
<1> QED
  BY <1>6, <1>7, <1>8

LEMMA PositionType ==
    ASSUME NEW v \in Int
    PROVE  Position(v) \in Int
<1>1. PosMax * Q \in Nat \ {0} /\ 2 * PosMax * Q \in Nat \ {0}
  <2>1. \A a, b \in Nat \ {0} : a * b \in Nat \ {0}
    OBVIOUS
  <2>2. 2 * PosMax \in Nat \ {0}
    BY Widths
  <2> QED
    BY <2>1, <2>2, Widths
<1> DEFINE h == PosMax * Q
           w == 2 * PosMax * Q
<1> HIDE DEF h, w
<1>2. h \in Nat /\ w \in Nat \ {0}
  BY <1>1 DEF h, w
<1>3. ((v + h) % w) - h \in Int
  BY <1>2
<1> QED
  BY <1>3 DEF Position, h, w

LEMMA ShiftedType ==
    ASSUME NEW x \in Nat
    PROVE  Shifted(x) \in U32 /\ (x \in U16 => Shifted(x) = x * Q)
<1>1. x * Q \in Nat
  <2>1. \A a, b \in Nat : a * b \in Nat
    OBVIOUS
  <2> QED
    BY <2>1, Widths
<1> DEFINE k == x * Q
<1>2. x \in U16 => k < U32_MOD
  BY Widths
<1> HIDE DEF k
<1>3. k \in Nat
  BY <1>1 DEF k
<1>4. k % U32_MOD \in U32 /\ (k < U32_MOD => k % U32_MOD = k)
  BY <1>3, Remainder
<1> QED
  BY <1>2, <1>4 DEF Shifted, k

-----------------------------------------------------------------------------
(* The sorting network. *)

Five(S) == [1 .. 5 -> S]

Values(s) == {s[k] : k \in 1 .. 5}

(* One comparison orders two places and leaves the others alone. *)
LEMMA SwapIs ==
    ASSUME NEW s \in Five(Nat), NEW i \in 1 .. 5, NEW j \in 1 .. 5, i # j
    PROVE  /\ Swap(i, j)[s] \in Five(Nat)
           /\ \A k \in (1 .. 5) \ {i, j} : Swap(i, j)[s][k] = s[k]
           /\ IF s[i] > s[j]
              THEN Swap(i, j)[s][i] = s[j] /\ Swap(i, j)[s][j] = s[i]
              ELSE Swap(i, j)[s][i] = s[i] /\ Swap(i, j)[s][j] = s[j]
           /\ Values(Swap(i, j)[s]) = Values(s)
<1>1. CASE s[i] > s[j]
  <2> DEFINE t == [s EXCEPT ![i] = s[j], ![j] = s[i]]
  <2>1. Swap(i, j)[s] = t
    BY <1>1, Zenon DEF Swap, Five
  <2>2. /\ t \in Five(Nat) /\ t[i] = s[j] /\ t[j] = s[i]
        /\ \A k \in (1 .. 5) \ {i, j} : t[k] = s[k]
    BY DEF Five
  <2> HIDE DEF t
  <2>3. \A k \in 1 .. 5 : \E l \in 1 .. 5 : t[k] = s[l]
    BY <2>2
  <2>4. \A k \in 1 .. 5 : \E l \in 1 .. 5 : s[k] = t[l]
    BY <2>2
  <2>5. Values(t) = Values(s)
    BY <2>3, <2>4 DEF Values
  <2> QED
    BY <1>1, <2>1, <2>2, <2>5
<1>2. CASE ~(s[i] > s[j])
  <2>1. Swap(i, j)[s] = s
    BY <1>2, Zenon DEF Swap, Five
  <2> QED
    BY <1>2, <2>1
<1> QED
  BY <1>1, <1>2

LEMMA Sorted ==
    ASSUME NEW s \in Five(Nat)
    PROVE  /\ Sort5(s) \in Five(Nat)
           /\ \A i \in 1 .. 4 : Sort5(s)[i] =< Sort5(s)[i + 1]
           /\ \A i \in 1 .. 5 : Sort5(s)[1] =< s[i] /\ s[i] =< Sort5(s)[5]
           /\ \E i \in 1 .. 5 : Sort5(s)[1] = s[i]
           /\ \E i \in 1 .. 5 : Sort5(s)[5] = s[i]
<1> DEFINE a == Swap(1, 2)[s]
           b == Swap(4, 5)[a]
           c == Swap(3, 5)[b]
           d == Swap(3, 4)[c]
           e == Swap(2, 5)[d]
           f == Swap(1, 4)[e]
           g == Swap(1, 3)[f]
           h == Swap(2, 4)[g]
           r == Swap(2, 3)[h]
<1>1. r = Sort5(s)
  BY DEF Sort5
<1> HIDE DEF r
<1>2. /\ a \in Five(Nat) /\ a[3] = s[3] /\ a[4] = s[4] /\ a[5] = s[5]
      /\ IF s[1] > s[2] THEN a[1] = s[2] /\ a[2] = s[1]
                        ELSE a[1] = s[1] /\ a[2] = s[2]
  BY SwapIs
<1> HIDE DEF a
<1>3. /\ b \in Five(Nat) /\ b[1] = a[1] /\ b[2] = a[2] /\ b[3] = a[3]
      /\ IF a[4] > a[5] THEN b[4] = a[5] /\ b[5] = a[4]
                        ELSE b[4] = a[4] /\ b[5] = a[5]
  BY <1>2, SwapIs
<1> HIDE DEF b
<1>4. /\ c \in Five(Nat) /\ c[1] = b[1] /\ c[2] = b[2] /\ c[4] = b[4]
      /\ IF b[3] > b[5] THEN c[3] = b[5] /\ c[5] = b[3]
                        ELSE c[3] = b[3] /\ c[5] = b[5]
  BY <1>3, SwapIs
<1> HIDE DEF c
<1>5. /\ d \in Five(Nat) /\ d[1] = c[1] /\ d[2] = c[2] /\ d[5] = c[5]
      /\ IF c[3] > c[4] THEN d[3] = c[4] /\ d[4] = c[3]
                        ELSE d[3] = c[3] /\ d[4] = c[4]
  BY <1>4, SwapIs
<1> HIDE DEF d
<1>6. /\ e \in Five(Nat) /\ e[1] = d[1] /\ e[3] = d[3] /\ e[4] = d[4]
      /\ IF d[2] > d[5] THEN e[2] = d[5] /\ e[5] = d[2]
                        ELSE e[2] = d[2] /\ e[5] = d[5]
  BY <1>5, SwapIs
<1> HIDE DEF e
<1>7. /\ f \in Five(Nat) /\ f[2] = e[2] /\ f[3] = e[3] /\ f[5] = e[5]
      /\ IF e[1] > e[4] THEN f[1] = e[4] /\ f[4] = e[1]
                        ELSE f[1] = e[1] /\ f[4] = e[4]
  BY <1>6, SwapIs
<1> HIDE DEF f
<1>8. /\ g \in Five(Nat) /\ g[2] = f[2] /\ g[4] = f[4] /\ g[5] = f[5]
      /\ IF f[1] > f[3] THEN g[1] = f[3] /\ g[3] = f[1]
                        ELSE g[1] = f[1] /\ g[3] = f[3]
  BY <1>7, SwapIs
<1> HIDE DEF g
<1>9. /\ h \in Five(Nat) /\ h[1] = g[1] /\ h[3] = g[3] /\ h[5] = g[5]
      /\ IF g[2] > g[4] THEN h[2] = g[4] /\ h[4] = g[2]
                        ELSE h[2] = g[2] /\ h[4] = g[4]
  BY <1>8, SwapIs
<1> HIDE DEF h
<1>10. /\ r \in Five(Nat) /\ r[1] = h[1] /\ r[4] = h[4] /\ r[5] = h[5]
       /\ IF h[2] > h[3] THEN r[2] = h[3] /\ r[3] = h[2]
                         ELSE r[2] = h[2] /\ r[3] = h[3]
  BY <1>9, SwapIs DEF r
<1>11. \A i \in 1 .. 5 : s[i] \in Nat /\ a[i] \in Nat /\ b[i] \in Nat
          /\ c[i] \in Nat /\ d[i] \in Nat /\ e[i] \in Nat /\ f[i] \in Nat
          /\ g[i] \in Nat /\ h[i] \in Nat /\ r[i] \in Nat
  BY <1>2, <1>3, <1>4, <1>5, <1>6, <1>7, <1>8, <1>9, <1>10 DEF Five
<1>12. a[1] =< a[2] /\ d[3] =< d[4] /\ d[4] =< d[5]
  BY <1>2, <1>3, <1>4, <1>5, <1>11
<1>13. e[2] =< e[5] /\ e[1] =< e[5] /\ e[3] =< e[4] /\ e[4] =< e[5]
  BY <1>3, <1>4, <1>5, <1>6, <1>11, <1>12
<1>14. /\ g[1] =< g[2] /\ g[1] =< g[3] /\ g[1] =< g[4] /\ g[3] =< g[4]
       /\ g[2] =< g[5] /\ g[4] =< g[5] /\ g[3] =< g[5]
  BY <1>3, <1>4, <1>5, <1>6, <1>7, <1>8, <1>11, <1>12, <1>13
<1>15. r[1] =< r[2] /\ r[2] =< r[3] /\ r[3] =< r[4] /\ r[4] =< r[5]
  BY <1>9, <1>10, <1>11, <1>14
<1>16. Values(r) = Values(s)
  <2>1. Values(a) = Values(s)
    BY SwapIs DEF a
  <2>2. Values(b) = Values(a)
    BY <1>2, SwapIs DEF b
  <2>3. Values(c) = Values(b)
    BY <1>3, SwapIs DEF c
  <2>4. Values(d) = Values(c)
    BY <1>4, SwapIs DEF d
  <2>5. Values(e) = Values(d)
    BY <1>5, SwapIs DEF e
  <2>6. Values(f) = Values(e)
    BY <1>6, SwapIs DEF f
  <2>7. Values(g) = Values(f)
    BY <1>7, SwapIs DEF g
  <2>8. Values(h) = Values(g)
    BY <1>8, SwapIs DEF h
  <2>9. Values(r) = Values(h)
    BY <1>9, SwapIs DEF r
  <2> QED
    BY <2>1, <2>2, <2>3, <2>4, <2>5, <2>6, <2>7, <2>8, <2>9
<1>17. \A i \in 1 .. 4 : r[i] =< r[i + 1]
  BY <1>15
<1>18. \A k \in 1 .. 5 : r[1] =< r[k] /\ r[k] =< r[5]
  BY <1>11, <1>15
<1>19. \A i \in 1 .. 5 : r[1] =< s[i] /\ s[i] =< r[5]
  <2> SUFFICES ASSUME NEW i \in 1 .. 5
               PROVE  r[1] =< s[i] /\ s[i] =< r[5]
    OBVIOUS
  <2>1. PICK k \in 1 .. 5 : s[i] = r[k]
    BY <1>16 DEF Values
  <2> QED
    BY <1>18, <2>1
<1>20. (\E i \in 1 .. 5 : r[1] = s[i]) /\ (\E i \in 1 .. 5 : r[5] = s[i])
  <2>1. r[1] \in Values(r) /\ r[5] \in Values(r)
    BY DEF Values
  <2> QED
    BY <1>16, <2>1 DEF Values
<1> QED
  BY <1>1, <1>10, <1>17, <1>19, <1>20

-----------------------------------------------------------------------------
(* Estimators: filling the buffer, or with five markers of which the first *)
(* is at 1, the last at the number of samples, and no two at one place.    *)

Filling(e, m) ==
    /\ e \in Estimator /\ e.n = <<>> /\ e.np = <<>> /\ e.q = <<>>
    /\ Len(e.buf) = m /\ m =< 4

Markers(e) ==
    /\ e \in Estimator /\ e.buf = <<>>
    /\ e.n \in Five(Int) /\ e.np \in Five(Int) /\ e.q \in Five(U32)

Apart(e) == \A i \in 1 .. 4 : e.n[i] < e.n[i + 1]

Placed(e, m) == Markers(e) /\ Apart(e) /\ e.n[1] = 1 /\ e.n[5] = m

EstInv(e, m) == Filling(e, m) \/ Placed(e, m)

LEMMA FiveIsSeq ==
    ASSUME NEW S, NEW s \in Five(S)
    PROVE  s \in Seq(S) /\ Len(s) = 5 /\ s # <<>>
<1>1. s \in Seq(S)
  <2>1. 5 \in Nat /\ s \in [1 .. 5 -> S]
    BY DEF Five
  <2> QED
    BY <2>1, SeqDef, Zenon
<1>2. Len(s) \in Nat /\ DOMAIN s = 1 .. Len(s)
  BY <1>1, LenProperties
<1>3. DOMAIN s = 1 .. 5
  BY DEF Five
<1>4. Len(s) = 5
  <2> DEFINE n == Len(s)
  <2>1. n \in Nat /\ 1 .. n = 1 .. 5
    BY <1>2, <1>3
  <2> HIDE DEF n
  <2>2. 5 \in 1 .. n /\ (1 =< n => n \in 1 .. 5)
    BY <2>1
  <2>3. n = 5
    BY <2>1, <2>2
  <2> QED
    BY <2>3 DEF n
<1>5. s # <<>>
  <2>1. Len(<<>>) = 0
    OBVIOUS
  <2> QED
    BY <2>1, <1>4
<1> QED
  BY <1>1, <1>4, <1>5

LEMMA FiveExcept ==
    ASSUME NEW S, NEW f \in Five(S), NEW i \in 1 .. 5, NEW v \in S
    PROVE  /\ [f EXCEPT ![i] = v] \in Five(S)
           /\ \A j \in 1 .. 5 : [f EXCEPT ![i] = v][j] = IF j = i THEN v ELSE f[j]
  BY DEF Five

LEMMA PlacedOrder ==
    ASSUME NEW e, Markers(e), Apart(e)
    PROVE  /\ e.n[1] < e.n[2] /\ e.n[2] < e.n[3] /\ e.n[3] < e.n[4]
           /\ e.n[4] < e.n[5]
           /\ \A i \in 1 .. 5 : /\ e.n[i] \in Int /\ e.np[i] \in Int
                                /\ e.q[i] \in U32 /\ e.q[i] \in Nat
<1>1. \A x \in U32 : x \in Nat
  BY Widths
<1>2. \A i \in 1 .. 5 : e.n[i] \in Int /\ e.np[i] \in Int /\ e.q[i] \in U32
  BY DEF Markers, Five
<1>3. \A i \in 1 .. 4 : e.n[i] < e.n[i + 1]
  BY DEF Apart
<1>4. /\ e.n[1] < e.n[2] /\ e.n[2] < e.n[3] /\ e.n[3] < e.n[4]
      /\ e.n[4] < e.n[5]
  BY <1>3
<1> QED
  BY <1>1, <1>2, <1>4

LEMMA MoveRoom ==
    ASSUME NEW e, Markers(e), Apart(e), NEW i \in 2 .. 4
    PROVE  /\ Move(e, i) \in {-1, 0, 1}
           /\ Move(e, i) = 1 => e.n[i + 1] - e.n[i] > 1
           /\ Move(e, i) = -1 => e.n[i] - e.n[i - 1] > 1
<1> DEFINE delta == Position(e.np[i] - Position(e.n[i] * Q))
<1>1. Move(e, i) = CASE delta >= Q /\ e.n[i + 1] - e.n[i] > 1   -> 1
                     [] delta =< -Q /\ e.n[i] - e.n[i - 1] > 1  -> -1
                     [] OTHER                                   -> 0
  BY DEF Move
<1> HIDE DEF delta
<1>2. CASE delta >= Q /\ e.n[i + 1] - e.n[i] > 1
  <2>1. delta >= Q /\ ~(delta =< -Q)
    <3>1. Q \in Nat \ {0}
      BY Widths
    <3>2. delta \in Int
      <4>1. e.np[i] \in Int /\ e.n[i] \in Int
        BY PlacedOrder
      <4>2. e.n[i] * Q \in Int
        BY <4>1, <3>1
      <4>3. Position(e.n[i] * Q) \in Int
        BY <4>2, PositionType
      <4> QED
        BY <4>1, <4>3, PositionType DEF delta
    <3> QED
      BY <1>2, <3>1, <3>2
  <2>2. Move(e, i) = 1
    BY <1>1, <1>2, <2>1
  <2> QED
    BY <1>2, <2>2
<1>3. CASE ~(delta >= Q /\ e.n[i + 1] - e.n[i] > 1)
           /\ delta =< -Q /\ e.n[i] - e.n[i - 1] > 1
  <2>1. Move(e, i) = -1
    BY <1>1, <1>3
  <2> QED
    BY <1>3, <2>1
<1>4. CASE ~(delta >= Q /\ e.n[i + 1] - e.n[i] > 1)
           /\ ~(delta =< -Q /\ e.n[i] - e.n[i - 1] > 1)
  BY <1>1, <1>4
<1> QED
  BY <1>2, <1>3, <1>4

(* The new height of a marker fits its type, and stays between its         *)
(* neighbours when it was between them: the parabola is used only strictly *)
(* between them, and the line never passes the neighbour it aims at.       *)
LEMMA HeightBetween ==
    ASSUME NEW e, Markers(e), Apart(e), NEW i \in 2 .. 4, NEW d \in {-1, 1}
    PROVE  /\ Height(e, i, d) \in U32
           /\ e.q[i - 1] =< e.q[i] /\ e.q[i] =< e.q[i + 1] =>
                /\ e.q[i - 1] =< Height(e, i, d)
                /\ Height(e, i, d) =< e.q[i + 1]
<1> DEFINE a == e.n[i - 1]  b == e.n[i]  c == e.n[i + 1]
           x == e.q[i - 1]  y == e.q[i]  z == e.q[i + 1]
<1>1. /\ a \in Int /\ b \in Int /\ c \in Int /\ a < b /\ b < c
      /\ x \in U32 /\ y \in U32 /\ z \in U32
      /\ x \in Nat /\ y \in Nat /\ z \in Nat
  BY PlacedOrder
<1>2. Parabolic(e, i, d) \in U32
  <2> DEFINE up   == Quotient((b - a + d) * (z - y), c - b)
             down == Quotient((c - b - d) * (y - x), b - a)
             all  == Quotient(d * (up + down), c - a)
  <2>1. Parabolic(e, i, d) = (y + all) % U32_MOD
    BY DEF Parabolic
  <2>m. \A u, v \in Int : u * v \in Int
    OBVIOUS
  <2> HIDE DEF a, b, c, x, y, z
  <2>2. (b - a + d) * (z - y) \in Int /\ c - b \in Int \ {0}
        /\ (c - b - d) * (y - x) \in Int /\ b - a \in Int \ {0}
        /\ c - a \in Int \ {0} /\ d \in Int
    BY <1>1, <2>m
  <2>3. up \in Int /\ down \in Int
    BY <2>2, QuotientType
  <2> HIDE DEF up, down
  <2>4. d * (up + down) \in Int
    BY <2>2, <2>3, <2>m
  <2>5. all \in Int
    BY <2>2, <2>4, QuotientType
  <2> HIDE DEF all
  <2>6. y + all \in Int
    BY <1>1, <2>5
  <2> QED
    BY <2>1, <2>6, Remainder
<1>3. CASE d = 1
  <2> DEFINE k == Quotient(1 * (z - y), c - b)
  <2>1. Linear(e, i, 1) = (y + k) % U32_MOD
    BY DEF Linear
  <2> HIDE DEF a, b, c, x, y, z
  <2>2. 1 * (z - y) = z - y /\ z - y \in Int /\ c - b \in Int \ {0}
        /\ c - b > 0
    BY <1>1
  <2>3. k \in Int /\ (z - y >= 0 => k \in 0 .. z - y)
    BY <2>2, QuotientType
  <2> HIDE DEF k
  <2>4. y + k \in Int /\ (y =< z => y =< y + k /\ y + k =< z)
    BY <1>1, <2>3
  <2>5. Linear(e, i, 1) \in U32
    BY <2>1, <2>4, Remainder
  <2>6. z < U32_MOD /\ U32_MOD \in Nat
    BY <1>1, Widths
  <2>7. y =< z => (y + k) % U32_MOD = y + k
    BY <1>1, <2>4, <2>6, Remainder
  <2>8. y =< z => y =< Linear(e, i, 1) /\ Linear(e, i, 1) =< z
    BY <2>1, <2>4, <2>7
  <2>9. Height(e, i, 1) = IF x < Parabolic(e, i, 1) /\ Parabolic(e, i, 1) < z
                          THEN Parabolic(e, i, 1) ELSE Linear(e, i, 1)
    BY DEF Height, x, z
  <2> DEFINE u == Parabolic(e, i, 1)  v == Linear(e, i, 1)
             w == Height(e, i, 1)
  <2> HIDE DEF u, v, w
  <2>10. u \in Nat /\ v \in Nat /\ u \in U32 /\ v \in U32
    BY <1>2, <1>3, <2>5, Widths DEF u, v
  <2>11. w = IF x < u /\ u < z THEN u ELSE v
    BY <2>9 DEF u, v, w
  <2>12. /\ w \in U32 /\ (x =< y /\ y =< z => x =< w /\ w =< z)
    <3>1. y =< z => y =< v /\ v =< z
      BY <2>8 DEF v
    <3> QED
      BY <1>1, <2>10, <2>11, <3>1
  <2> QED
    BY <1>3, <2>12 DEF w, x, y, z
<1>4. CASE d = -1
  <2> DEFINE k == Quotient((-1) * (x - y), a - b)
  <2>1. Linear(e, i, -1) = (y + k) % U32_MOD
    <3>1. i + (-1) = i - 1
      OBVIOUS
    <3> QED
      BY <3>1 DEF Linear
  <2> HIDE DEF a, b, c, x, y, z
  <2>2. (-1) * (x - y) = y - x /\ y - x \in Int /\ a - b \in Int \ {0}
        /\ a - b < 0
    BY <1>1
  <2>3. k \in Int /\ (y - x >= 0 => -k \in 0 .. y - x)
    BY <2>2, QuotientType
  <2> HIDE DEF k
  <2>4. y + k \in Int /\ (x =< y => x =< y + k /\ y + k =< y)
    BY <1>1, <2>3
  <2>5. Linear(e, i, -1) \in U32
    BY <2>1, <2>4, Remainder
  <2>6. y < U32_MOD /\ U32_MOD \in Nat
    BY <1>1, Widths
  <2>7. x =< y => (y + k) % U32_MOD = y + k
    BY <1>1, <2>4, <2>6, Remainder
  <2>8. x =< y => x =< Linear(e, i, -1) /\ Linear(e, i, -1) =< y
    BY <2>1, <2>4, <2>7
  <2>9. Height(e, i, -1) = IF x < Parabolic(e, i, -1) /\ Parabolic(e, i, -1) < z
                           THEN Parabolic(e, i, -1) ELSE Linear(e, i, -1)
    BY DEF Height, x, z
  <2> DEFINE u == Parabolic(e, i, -1)  v == Linear(e, i, -1)
             w == Height(e, i, -1)
  <2> HIDE DEF u, v, w
  <2>10. u \in Nat /\ v \in Nat /\ u \in U32 /\ v \in U32
    BY <1>2, <1>4, <2>5, Widths DEF u, v
  <2>11. w = IF x < u /\ u < z THEN u ELSE v
    BY <2>9 DEF u, v, w
  <2>12. /\ w \in U32 /\ (x =< y /\ y =< z => x =< w /\ w =< z)
    <3>1. x =< y => x =< v /\ v =< y
      BY <2>8 DEF v
    <3> QED
      BY <1>1, <2>10, <2>11, <3>1
  <2> QED
    BY <1>4, <2>12 DEF w, x, y, z
<1> QED
  BY <1>3, <1>4

Level(e) == \A i \in 1 .. 4 : e.q[i] =< e.q[i + 1]

(* One adjustment keeps the markers apart and in place, the outer markers  *)
(* as they are, and the heights in order.                                  *)
LEMMA AdjustedKeeps ==
    ASSUME NEW e, NEW m \in Nat, Placed(e, m), NEW i \in 2 .. 4
    PROVE  LET r == Adjusted(i)[e]
           IN  /\ Placed(r, m) /\ r.q[1] = e.q[1] /\ r.q[5] = e.q[5]
               /\ Level(e) => Level(r)
<1> DEFINE r == Adjusted(i)[e]
           d == Move(e, i)
           h == Height(e, i, d)
<1> SUFFICES /\ Placed(r, m) /\ r.q[1] = e.q[1] /\ r.q[5] = e.q[5]
             /\ Level(e) => Level(r)
  BY Zenon
<1>1. e \in Estimator /\ Markers(e) /\ Apart(e)
  BY DEF Placed, Markers
<1>2. r = IF d = 0 THEN e
          ELSE [e EXCEPT !.n[i] = @ + d, !.q[i] = h]
  BY <1>1, Zenon DEF Adjusted
<1>3. d \in {-1, 0, 1} /\ (d = 1 => e.n[i + 1] - e.n[i] > 1)
      /\ (d = -1 => e.n[i] - e.n[i - 1] > 1)
  BY <1>1, MoveRoom
<1>4. CASE d = 0
  BY <1>2, <1>4
<1>5. CASE d # 0
  <2>1. h \in U32 /\ (e.q[i - 1] =< e.q[i] /\ e.q[i] =< e.q[i + 1]
                        => e.q[i - 1] =< h /\ h =< e.q[i + 1])
    BY <1>1, <1>3, <1>5, HeightBetween
  <2> HIDE DEF h, d
  <2>2. /\ r = [e EXCEPT !.n[i] = @ + d, !.q[i] = h]
    BY <1>2, <1>5
  <2> HIDE DEF r
  <2>3. /\ e.n \in Five(Int) /\ e.np \in Five(Int) /\ e.q \in Five(U32)
        /\ e.buf = <<>>
    BY <1>1 DEF Markers
  <2>4. /\ r.n = [e.n EXCEPT ![i] = e.n[i] + d] /\ r.q = [e.q EXCEPT ![i] = h]
        /\ r.np = e.np /\ r.buf = <<>>
        /\ r = [buf |-> r.buf, n |-> r.n, np |-> r.np, q |-> r.q]
    BY <1>1, <2>2, <2>3 DEF Estimator
  <2>5. \A j \in 1 .. 5 : e.n[j] \in Int /\ e.q[j] \in Nat
    BY <1>1, PlacedOrder
  <2>6. /\ r.n \in Five(Int) /\ r.q \in Five(U32)
        /\ r.n[i] = e.n[i] + d /\ r.q[i] = h
        /\ \A j \in (1 .. 5) \ {i} : r.n[j] = e.n[j] /\ r.q[j] = e.q[j]
    <3>1. i \in 1 .. 5 /\ e.n[i] + d \in Int
      BY <1>3, <2>5
    <3>a. e.n \in Five(Int) /\ e.q \in Five(U32) /\ h \in U32
      BY <2>1, <2>3
    <3>b. /\ r.n = [e.n EXCEPT ![i] = e.n[i] + d]
          /\ r.q = [e.q EXCEPT ![i] = h]
      BY <2>4
    <3>2. /\ r.n \in Five(Int)
          /\ \A j \in 1 .. 5 : r.n[j] = IF j = i THEN e.n[i] + d ELSE e.n[j]
      BY ONLY <3>a, <3>b, <3>1, FiveExcept
    <3>3. /\ r.q \in Five(U32)
          /\ \A j \in 1 .. 5 : r.q[j] = IF j = i THEN h ELSE e.q[j]
      BY ONLY <3>a, <3>b, <3>1, FiveExcept
    <3>4. r.n[i] = e.n[i] + d /\ r.q[i] = h
      BY ONLY <3>1, <3>2, <3>3
    <3>5. ASSUME NEW j \in (1 .. 5) \ {i}
          PROVE  r.n[j] = e.n[j] /\ r.q[j] = e.q[j]
      <4>1. j \in 1 .. 5 /\ j # i
        OBVIOUS
      <4>2. r.n[j] = e.n[j]
        BY ONLY <3>2, <4>1
      <4>3. r.q[j] = e.q[j]
        BY ONLY <3>3, <4>1
      <4> QED
        BY ONLY <4>2, <4>3
    <3> QED
      BY ONLY <3>2, <3>3, <3>4, <3>5, Zenon
  <2>7. Markers(r)
    <3>1. /\ r.n \in Seq(Int) /\ r.np \in Seq(Int) /\ r.q \in Seq(U32)
          /\ r.buf \in Seq(U32)
      <4>1. r.n \in Five(Int) /\ r.np \in Five(Int) /\ r.q \in Five(U32)
        BY <2>3, <2>4, <2>6
      <4>2. r.n \in Seq(Int) /\ r.np \in Seq(Int) /\ r.q \in Seq(U32)
        BY ONLY <4>1, FiveIsSeq
      <4> QED
        BY <2>4, <4>2
    <3> QED
      BY <2>3, <2>4, <2>6, <3>1 DEF Markers, Estimator
  <2>8. Apart(r)
    <3>1. \A j \in 1 .. 4 : e.n[j] < e.n[j + 1]
      BY <1>1 DEF Apart
    <3> QED
      BY <1>3, <2>5, <2>6, <3>1 DEF Apart
  <2>9. ASSUME Level(e)
        PROVE  Level(r)
    <3>1. \A j \in 1 .. 4 : e.q[j] =< e.q[j + 1]
      BY <2>9 DEF Level
    <3>2. e.q[i - 1] =< e.q[i] /\ e.q[i] =< e.q[i + 1]
      BY <3>1
    <3>3. e.q[i - 1] =< h /\ h =< e.q[i + 1]
      BY <2>1, <3>2
    <3> QED
      BY <2>5, <2>6, <3>1, <3>3 DEF Level
  <2> QED
    BY <2>6, <2>7, <2>8, <2>9 DEF Placed
<1> QED
  BY <1>4, <1>5

LEMMA CellRange ==
    ASSUME NEW q, NEW x
    PROVE  Cell(q, x) \in 1 .. 4
<1> DEFINE C == {i \in 1 .. 4 : q[i] =< x /\ x < q[i + 1]}
<1>1. ASSUME C # {}
      PROVE  Min(C) \in 1 .. 4
  <2>1. \E i \in C : \A j \in C : i =< j
    <3>1. CASE 1 \in C
      BY <3>1
    <3>2. CASE 1 \notin C /\ 2 \in C
      BY <3>2
    <3>3. CASE 1 \notin C /\ 2 \notin C /\ 3 \in C
      BY <3>3
    <3>4. CASE 1 \notin C /\ 2 \notin C /\ 3 \notin C
      BY <1>1, <3>4
    <3> QED
      BY <3>1, <3>2, <3>3, <3>4
  <2>2. C \subseteq 1 .. 4
    OBVIOUS
  <2> HIDE DEF C
  <2>3. Min(C) \in C
    BY <2>1 DEF Min
  <2> QED
    BY <2>2, <2>3
<1>2. Cell(q, x) = CASE x < q[1]  -> 1
                     [] ~(x < q[1]) /\ x >= q[5] -> 4
                     [] OTHER -> IF C = {} THEN 1 ELSE Min(C)
  BY DEF Cell
<1> HIDE DEF C
<1>3. CASE x < q[1]
  BY <1>2, <1>3
<1>4. CASE ~(x < q[1]) /\ x >= q[5]
  BY <1>2, <1>4
<1>5. CASE ~(x < q[1]) /\ ~(x >= q[5])
  <2>1. Cell(q, x) = IF C = {} THEN 1 ELSE Min(C)
    BY <1>2, <1>5
  <2> QED
    BY <1>1, <2>1
<1> QED
  BY <1>3, <1>4, <1>5

(* The outer heights follow the sample, and stay around the others. *)
LEMMA ExtendedIs ==
    ASSUME NEW q \in Five(U32), NEW x \in U32
    PROVE  LET r == Extended(q, x)
           IN  /\ r \in Five(U32)
               /\ (\A i \in 1 .. 4 : q[i] =< q[i + 1]) =>
                    /\ \A i \in 1 .. 4 : r[i] =< r[i + 1]
                    /\ r[1] = IF x < q[1] THEN x ELSE q[1]
                    /\ r[5] = IF x > q[5] THEN x ELSE q[5]
<1> DEFINE r == Extended(q, x)
<1>1. x \in Nat /\ \A i \in 1 .. 5 : q[i] \in Nat
  BY Widths DEF Five
<1>2. CASE x < q[1]
  <2>1. r = [q EXCEPT ![1] = x]
    BY <1>2 DEF Extended
  <2>2. /\ r \in Five(U32)
        /\ \A j \in 1 .. 5 : r[j] = IF j = 1 THEN x ELSE q[j]
    <3>1. 1 \in 1 .. 5
      OBVIOUS
    <3>2. /\ [q EXCEPT ![1] = x] \in Five(U32)
          /\ \A j \in 1 .. 5 :
               [q EXCEPT ![1] = x][j] = IF j = 1 THEN x ELSE q[j]
      BY DEF Five
    <3> QED
      BY <2>1, <3>2, Zenon
  <2> HIDE DEF r
  <2>3. ASSUME \A i \in 1 .. 4 : q[i] =< q[i + 1]
        PROVE  q[1] =< q[2] /\ q[2] =< q[3] /\ q[3] =< q[4] /\ q[4] =< q[5]
    BY <2>3
  <2>4. ASSUME \A i \in 1 .. 4 : q[i] =< q[i + 1]
        PROVE  /\ \A i \in 1 .. 4 : r[i] =< r[i + 1]
               /\ r[1] = IF x < q[1] THEN x ELSE q[1]
               /\ r[5] = IF x > q[5] THEN x ELSE q[5]
    BY <1>1, <1>2, <2>2, <2>3, <2>4
  <2> QED
    BY <2>2, <2>4 DEF r
<1>3. CASE ~(x < q[1]) /\ x >= q[5]
  <2>1. r = [q EXCEPT ![5] = x]
    BY <1>3 DEF Extended
  <2>2. /\ r \in Five(U32)
        /\ \A j \in 1 .. 5 : r[j] = IF j = 5 THEN x ELSE q[j]
    <3>1. 5 \in 1 .. 5
      OBVIOUS
    <3>2. /\ [q EXCEPT ![5] = x] \in Five(U32)
          /\ \A j \in 1 .. 5 :
               [q EXCEPT ![5] = x][j] = IF j = 5 THEN x ELSE q[j]
      BY DEF Five
    <3> QED
      BY <2>1, <3>2, Zenon
  <2> HIDE DEF r
  <2>3. ASSUME \A i \in 1 .. 4 : q[i] =< q[i + 1]
        PROVE  q[1] =< q[2] /\ q[2] =< q[3] /\ q[3] =< q[4] /\ q[4] =< q[5]
    BY <2>3
  <2>4. ASSUME \A i \in 1 .. 4 : q[i] =< q[i + 1]
        PROVE  /\ \A i \in 1 .. 4 : r[i] =< r[i + 1]
               /\ r[1] = IF x < q[1] THEN x ELSE q[1]
               /\ r[5] = IF x > q[5] THEN x ELSE q[5]
    BY <1>1, <1>3, <2>2, <2>3, <2>4
  <2> QED
    BY <2>2, <2>4 DEF r
<1>4. CASE ~(x < q[1]) /\ ~(x >= q[5])
  <2>1. r = q
    BY <1>4 DEF Extended
  <2> QED
    BY <1>1, <1>4, <2>1
<1> QED
  BY <1>2, <1>3, <1>4

(* A sample moves the markers above its cell, the last always and the      *)
(* first never.                                                            *)
LEMMA CountedKeeps ==
    ASSUME NEW e, NEW m \in Nat, Placed(e, m), NEW p \in 1 .. Q - 1,
           NEW x \in U32
    PROVE  LET r == Counted(e, p, x)
           IN  Placed(r, m + 1) /\ r.q = Extended(e.q, Shifted(x))
<1> DEFINE r == Counted(e, p, x)
           k == Cell(e.q, Shifted(x))
           nn == [i \in 1 .. 5 |-> IF i > k THEN e.n[i] + 1 ELSE e.n[i]]
           np == [i \in 1 .. 5 |-> Position(e.np[i] + Increment(p)[i])]
           qq == Extended(e.q, Shifted(x))
<1> SUFFICES Placed(r, m + 1) /\ r.q = qq
  BY Zenon
<1>1. e \in Estimator /\ Markers(e) /\ Apart(e)
  BY DEF Placed, Markers
<1>2. r = [e EXCEPT !.q = qq, !.n = nn, !.np = np]
  BY DEF Counted
<1>3. qq \in Five(U32)
  <2>1. Shifted(x) \in U32
    BY ShiftedType, Widths
  <2> QED
    BY <1>1, <2>1, ExtendedIs DEF Markers
<1>4. k \in 1 .. 4
  BY CellRange
<1>5. \A j \in 1 .. 5 : e.n[j] \in Int /\ e.np[j] \in Int
  BY <1>1, PlacedOrder
<1>6. np \in Five(Int)
  <2>1. Q \in Nat /\ p \in Nat
    BY Widths
  <2>2. \A j \in 1 .. 5 : Increment(p)[j] \in Int
    BY <2>1 DEF Increment
  <2>3. \A j \in 1 .. 5 : e.np[j] + Increment(p)[j] \in Int
    BY <1>5, <2>2
  <2>4. \A j \in 1 .. 5 : Position(e.np[j] + Increment(p)[j]) \in Int
    BY <2>3, PositionType
  <2> QED
    BY <2>4 DEF Five
<1> HIDE DEF k, np, qq
<1>7. nn \in Five(Int)
      /\ \A j \in 1 .. 5 : nn[j] = IF j > k THEN e.n[j] + 1 ELSE e.n[j]
  BY <1>4, <1>5 DEF Five
<1> HIDE DEF nn, r
<1>8. /\ r.n = nn /\ r.np = np /\ r.q = qq /\ r.buf = <<>>
      /\ r = [buf |-> r.buf, n |-> r.n, np |-> r.np, q |-> r.q]
  BY <1>1, <1>2 DEF Estimator, Markers
<1>9. Markers(r)
  <2>1. /\ r.n \in Seq(Int) /\ r.np \in Seq(Int) /\ r.q \in Seq(U32)
        /\ r.buf \in Seq(U32)
    BY <1>3, <1>6, <1>7, <1>8, FiveIsSeq
  <2> QED
    BY <1>3, <1>6, <1>7, <1>8, <2>1 DEF Markers, Estimator
<1>10. Apart(r)
  <2>1. \A j \in 1 .. 4 : e.n[j] < e.n[j + 1]
    BY <1>1 DEF Apart
  <2>2. ASSUME NEW j \in 1 .. 4
        PROVE  nn[j] < nn[j + 1]
    <3>1. /\ nn[j] = IF j > k THEN e.n[j] + 1 ELSE e.n[j]
          /\ nn[j + 1] = IF j + 1 > k THEN e.n[j + 1] + 1 ELSE e.n[j + 1]
      BY <1>7
    <3>2. e.n[j] < e.n[j + 1] /\ e.n[j] \in Int /\ e.n[j + 1] \in Int
      BY <1>5, <2>1
    <3> QED
      BY <1>4, <3>1, <3>2
  <2> QED
    BY <1>8, <2>2 DEF Apart
<1>11. r.n[1] = 1 /\ r.n[5] = m + 1
  <2>1. e.n[1] = 1 /\ e.n[5] = m
    BY DEF Placed
  <2>2. nn[1] = e.n[1] /\ nn[5] = e.n[5] + 1
    BY <1>4, <1>7
  <2> QED
    BY <1>8, <2>1, <2>2
<1> QED
  BY <1>8, <1>9, <1>10, <1>11 DEF Placed

(* The heights span what was observed: the buffer holds the smallest and   *)
(* the largest sample, or the markers are in order between them.           *)
Spans(e, lo, hi) ==
    /\ lo \in U16 /\ hi \in U16
    /\ IF Ready(e)
       THEN Level(e) /\ e.q[1] = lo * Q /\ e.q[5] = hi * Q
       ELSE /\ \A k \in 1 .. Len(e.buf) : lo =< e.buf[k] /\ e.buf[k] =< hi
            /\ IF Len(e.buf) = 0 THEN lo = U16_MAX /\ hi = 0
               ELSE /\ \E k \in 1 .. Len(e.buf) : e.buf[k] = lo
                    /\ \E k \in 1 .. Len(e.buf) : e.buf[k] = hi

Lower(a, b) == IF b < a THEN b ELSE a

LEMMA Appended ==
    ASSUME NEW e, NEW m \in Nat, Filling(e, m), NEW x \in U32
    PROVE  LET b == Append(e.buf, x)
           IN  /\ b \in Seq(U32) /\ Len(b) = m + 1 /\ b[m + 1] = x
               /\ \A k \in 1 .. m : b[k] = e.buf[k] /\ e.buf[k] \in U32
<1>1. e.buf \in Seq(U32) /\ Len(e.buf) = m
  BY DEF Filling, Estimator
<1> QED
  BY <1>1

(* What appending does to the values between the smallest and the largest. *)
LEMMA AppendSpans ==
    ASSUME NEW e, NEW m \in Nat, Filling(e, m), NEW x \in U16,
           NEW lo, NEW hi, Spans(e, lo, hi)
    PROVE  LET b == Append(e.buf, x)
           IN  /\ Lower(lo, x) \in U16 /\ Maximum(hi, x) \in U16
               /\ \A k \in 1 .. m + 1 : /\ b[k] \in U16
                                        /\ Lower(lo, x) =< b[k]
                                        /\ b[k] =< Maximum(hi, x)
               /\ \E k \in 1 .. m + 1 : b[k] = Lower(lo, x)
               /\ \E k \in 1 .. m + 1 : b[k] = Maximum(hi, x)
<1> DEFINE b == Append(e.buf, x)
<1>1. /\ x \in Nat /\ x \in U32 /\ x =< U16_MAX /\ U16_MAX \in Nat
      /\ \A u \in U32 : u \in Nat
  <2>1. x \in 0 .. U16_MAX /\ U16_MAX \in Nat /\ U32_MOD \in Nat
        /\ U32 = 0 .. U32_MOD - 1 /\ U32_MOD > U16_MAX
    BY Widths DEF U16
  <2> QED
    BY <2>1
<1>2. /\ Len(b) = m + 1 /\ b[m + 1] = x
      /\ \A k \in 1 .. m : b[k] = e.buf[k] /\ e.buf[k] \in Nat
  BY <1>1, Appended
<1>3. ~Ready(e) /\ Len(e.buf) = m
  BY DEF Filling, Ready
<1>4. /\ lo \in Nat /\ hi \in Nat /\ lo =< U16_MAX /\ hi =< U16_MAX
      /\ \A k \in 1 .. m : lo =< e.buf[k] /\ e.buf[k] =< hi
      /\ IF m = 0 THEN lo = U16_MAX /\ hi = 0
         ELSE /\ \E k \in 1 .. m : e.buf[k] = lo
              /\ \E k \in 1 .. m : e.buf[k] = hi
  BY <1>1, <1>3 DEF Spans, U16
<1> HIDE DEF b
<1>5. /\ Lower(lo, x) \in U16 /\ Maximum(hi, x) \in U16
      /\ Lower(lo, x) =< lo /\ Lower(lo, x) =< x
      /\ hi =< Maximum(hi, x) /\ x =< Maximum(hi, x)
      /\ Lower(lo, x) \in {lo, x} /\ Maximum(hi, x) \in {hi, x}
      /\ (m = 0 => Lower(lo, x) = x /\ Maximum(hi, x) = x)
  BY <1>1, <1>4 DEF Lower, Maximum, U16
<1>6. ASSUME NEW k \in 1 .. m + 1
      PROVE  b[k] \in U16 /\ Lower(lo, x) =< b[k] /\ b[k] =< Maximum(hi, x)
  <2>0. Lower(lo, x) \in Nat /\ Maximum(hi, x) \in Nat
    BY <1>5, <1>1 DEF U16
  <2>1. CASE k = m + 1
    BY <1>1, <1>2, <1>5, <2>1
  <2>2. CASE k \in 1 .. m
    <3>1. b[k] \in Nat /\ lo =< b[k] /\ b[k] =< hi
      BY <1>2, <1>4, <2>2
    <3> QED
      BY <1>1, <1>4, <1>5, <2>0, <3>1 DEF U16
  <2> QED
    BY <2>1, <2>2
<1>7. \E k \in 1 .. m + 1 : b[k] = Lower(lo, x)
  <2>1. CASE Lower(lo, x) = x
    BY <1>2, <2>1
  <2>2. CASE Lower(lo, x) # x
    <3>1. PICK k \in 1 .. m : e.buf[k] = lo
      BY <1>4, <1>5, <2>2
    <3> QED
      BY <1>2, <1>5, <2>2, <3>1
  <2> QED
    BY <2>1, <2>2
<1>8. \E k \in 1 .. m + 1 : b[k] = Maximum(hi, x)
  <2>1. CASE Maximum(hi, x) = x
    BY <1>2, <2>1
  <2>2. CASE Maximum(hi, x) # x
    <3>1. PICK k \in 1 .. m : e.buf[k] = hi
      BY <1>4, <1>5, <2>2
    <3> QED
      BY <1>2, <1>5, <2>2, <3>1
  <2> QED
    BY <2>1, <2>2
<1> QED
  BY <1>5, <1>6, <1>7, <1>8 DEF b

(* The fifth sample sets the markers. *)
LEMMA SeededKeeps ==
    ASSUME NEW s \in Five(U32), NEW p \in 1 .. Q - 1
    PROVE  /\ Placed(Seeded(s, p), 5)
           /\ Seeded(s, p).q = [i \in 1 .. 5 |-> Shifted(Sort5(s)[i])]
<1> DEFINE z == Sort5(s)
           d == <<Q, Q + 2 * p, Q + 4 * p, 3 * Q + 2 * p, 5 * Q>>
           np == [i \in 1 .. 5 |-> Position(d[i])]
           qq == [i \in 1 .. 5 |-> Shifted(z[i])]
           nn == <<1, 2, 3, 4, 5>>
           r == Seeded(s, p)
<1>1. r = [buf |-> <<>>, n |-> nn, np |-> np, q |-> qq]
  BY DEF Seeded
<1>2. s \in Five(Nat)
  BY Widths DEF Five
<1>3. z \in Five(Nat)
  BY <1>2, Sorted
<1> HIDE DEF z
<1>4. qq \in Five(U32)
  <2>1. \A i \in 1 .. 5 : Shifted(z[i]) \in U32
    BY <1>3, ShiftedType DEF Five
  <2> QED
    BY <2>1 DEF Five
<1>5. np \in Five(Int)
  <2>1. Q \in Nat /\ p \in Nat
    BY Widths
  <2>2. \A i \in 1 .. 5 : d[i] \in Int
    BY <2>1
  <2> HIDE DEF d
  <2>3. \A i \in 1 .. 5 : Position(d[i]) \in Int
    BY <2>2, PositionType
  <2> QED
    BY <2>3 DEF Five
<1>6. nn \in Five(Int) /\ \A i \in 1 .. 5 : nn[i] = i
  BY DEF Five
<1> HIDE DEF nn, np, qq, r
<1>7. r.n = nn /\ r.np = np /\ r.q = qq /\ r.buf = <<>>
      /\ r = [buf |-> r.buf, n |-> r.n, np |-> r.np, q |-> r.q]
  BY <1>1
<1>8. Markers(r)
  <2>1. /\ r.n \in Seq(Int) /\ r.np \in Seq(Int) /\ r.q \in Seq(U32)
        /\ r.buf \in Seq(U32)
    BY <1>4, <1>5, <1>6, <1>7, FiveIsSeq
  <2> QED
    BY <1>4, <1>5, <1>6, <1>7, <2>1 DEF Markers, Estimator
<1>9. Apart(r) /\ r.n[1] = 1 /\ r.n[5] = 5
  BY <1>6, <1>7 DEF Apart
<1> QED
  BY <1>7, <1>8, <1>9 DEF Placed, r, qq, z

(* lb__p2_add_sample_ on an estimator whose markers are set. *)
LEMMA AddedMarkers ==
    ASSUME NEW e, NEW m \in Nat, Placed(e, m), NEW p \in 1 .. Q - 1,
           NEW x \in U32
    PROVE  LET r == Added(e, p, x)
               c == Extended(e.q, Shifted(x))
           IN  /\ Placed(r, m + 1)
               /\ Level(e) => Level(r) /\ r.q[1] = c[1] /\ r.q[5] = c[5]
<1> DEFINE r == Added(e, p, x)
           c == Extended(e.q, Shifted(x))
           g == Counted(e, p, x)
           a == Adjusted(2)[g]
           b == Adjusted(3)[a]
<1> SUFFICES /\ Placed(r, m + 1)
             /\ Level(e) => Level(r) /\ r.q[1] = c[1] /\ r.q[5] = c[5]
  BY Zenon
<1>1. e.q \in Five(U32) /\ e.n # <<>>
  <2>1. e.n \in Five(Int) /\ e.q \in Five(U32)
    BY DEF Placed, Markers
  <2> QED
    BY <2>1, FiveIsSeq
<1>2. r = Adjusted(4)[b]
  BY <1>1, Zenon DEF Added, Ready
<1>3. Placed(g, m + 1) /\ g.q = c
  BY CountedKeeps
<1>4. Level(e) => Level(g)
  <2>1. Shifted(x) \in U32
    BY ShiftedType, Widths
  <2>2. (\A i \in 1 .. 4 : e.q[i] =< e.q[i + 1])
          => \A i \in 1 .. 4 : c[i] =< c[i + 1]
    BY <1>1, <2>1, ExtendedIs
  <2> QED
    BY <1>3, <2>2, Zenon DEF Level
<1> HIDE DEF g, c, r
<1>5. m + 1 \in Nat
  OBVIOUS
<1>6. /\ Placed(a, m + 1) /\ a.q[1] = g.q[1] /\ a.q[5] = g.q[5]
      /\ Level(g) => Level(a)
  <2>1. 2 \in 2 .. 4
    OBVIOUS
  <2> QED
    BY <1>3, <1>5, <2>1, AdjustedKeeps, Zenon
<1> HIDE DEF a
<1>7. /\ Placed(b, m + 1) /\ b.q[1] = a.q[1] /\ b.q[5] = a.q[5]
      /\ Level(a) => Level(b)
  <2>1. 3 \in 2 .. 4
    OBVIOUS
  <2> QED
    BY <1>5, <1>6, <2>1, AdjustedKeeps, Zenon
<1> HIDE DEF b
<1>8. /\ Placed(r, m + 1) /\ r.q[1] = b.q[1] /\ r.q[5] = b.q[5]
      /\ Level(b) => Level(r)
  <2>1. 4 \in 2 .. 4
    OBVIOUS
  <2> QED
    BY <1>2, <1>5, <1>7, <2>1, AdjustedKeeps, Zenon
<1> QED
  BY <1>3, <1>4, <1>6, <1>7, <1>8

(* lb__p2_add_sample_ while the buffer fills, and when it is full. *)
LEMMA AddedFilling ==
    ASSUME NEW e, NEW m \in Nat, Filling(e, m), NEW p \in 1 .. Q - 1,
           NEW x \in U32
    PROVE  /\ m # 4 => /\ Filling(Added(e, p, x), m + 1)
                       /\ Added(e, p, x).buf = Append(e.buf, x)
           /\ m = 4 => /\ Append(e.buf, x) \in Five(U32)
                       /\ Added(e, p, x) = Seeded(Append(e.buf, x), p)
                       /\ Placed(Added(e, p, x), m + 1)
<1> DEFINE b == Append(e.buf, x)
           r == Added(e, p, x)
<1>1. /\ b \in Seq(U32) /\ Len(b) = m + 1 /\ b[m + 1] = x
      /\ \A k \in 1 .. m : b[k] = e.buf[k] /\ e.buf[k] \in U32
  BY Appended
<1>2. ~Ready(e) /\ Len(e.buf) = m /\ m =< 4 /\ e \in Estimator
      /\ e.n = <<>> /\ e.np = <<>> /\ e.q = <<>>
  BY DEF Filling, Ready
<1>3. CASE m # 4
  <2>1. r = [e EXCEPT !.buf = b]
    BY <1>2, <1>3 DEF Added
  <2> HIDE DEF b, r
  <2>2. r.buf = b /\ r.n = e.n /\ r.np = e.np /\ r.q = e.q /\ r \in Estimator
    BY <1>1, <1>2, <2>1 DEF Estimator
  <2> QED
    BY <1>1, <1>2, <1>3, <2>2 DEF Filling, b, r
<1>4. CASE m = 4
  <2>1. r = Seeded(b, p)
    BY <1>2, <1>4 DEF Added
  <2>2. b \in Five(U32)
    <3> HIDE DEF b
    <3>1. b \in [1 .. Len(b) -> U32]
      BY <1>1, LenProperties
    <3> QED
      BY <1>1, <1>4, <3>1 DEF Five
  <2> HIDE DEF b, r
  <2>3. Placed(r, m + 1)
    <3>1. Placed(r, 5)
      BY <2>1, <2>2, SeededKeeps, Zenon
    <3>2. m + 1 = 5
      BY <1>4
    <3> QED
      BY <3>1, <3>2, Zenon
  <2> QED
    BY <1>4, <2>1, <2>2, <2>3 DEF b, r
<1> QED
  BY <1>3, <1>4

LEMMA AddedKeeps ==
    ASSUME NEW e, NEW m \in Nat, EstInv(e, m), NEW p \in 1 .. Q - 1,
           NEW x \in U32
    PROVE  EstInv(Added(e, p, x), m + 1)
<1>1. CASE Filling(e, m)
  <2>1. CASE m = 4
    BY <1>1, <2>1, AddedFilling, Zenon DEF EstInv
  <2>2. CASE m # 4
    BY <1>1, <2>2, AddedFilling, Zenon DEF EstInv
  <2> QED
    BY <2>1, <2>2
<1>2. CASE Placed(e, m)
  BY <1>2, AddedMarkers, Zenon DEF EstInv
<1> QED
  BY <1>1, <1>2 DEF EstInv

(* What an estimator spans follows the samples it is given. *)
LEMMA AddedSpans ==
    ASSUME NEW e, NEW m \in Nat, EstInv(e, m), NEW p \in 1 .. Q - 1,
           NEW x \in U16, NEW lo, NEW hi, Spans(e, lo, hi)
    PROVE  Spans(Added(e, p, x), Lower(lo, x), Maximum(hi, x))
<1> DEFINE r == Added(e, p, x)
           l == Lower(lo, x)
           h == Maximum(hi, x)
           b == Append(e.buf, x)
<1>1. /\ x \in Nat /\ x \in U32 /\ x =< U16_MAX /\ U16_MAX \in Nat
      /\ \A u \in U32 : u \in Nat
  <2>1. x \in 0 .. U16_MAX /\ U16_MAX \in Nat /\ U32_MOD \in Nat
        /\ U32 = 0 .. U32_MOD - 1 /\ U32_MOD > U16_MAX
    BY Widths DEF U16
  <2> QED
    BY <2>1
<1>2. CASE Filling(e, m)
  <2>1. /\ l \in U16 /\ h \in U16
        /\ \A k \in 1 .. m + 1 : b[k] \in U16 /\ l =< b[k] /\ b[k] =< h
        /\ \E k \in 1 .. m + 1 : b[k] = l
        /\ \E k \in 1 .. m + 1 : b[k] = h
    <3>1. \A u, v : Spans(e, u, v) =>
            LET c == Append(e.buf, x)
            IN  /\ Lower(u, x) \in U16 /\ Maximum(v, x) \in U16
                /\ \A k \in 1 .. m + 1 : /\ c[k] \in U16
                                         /\ Lower(u, x) =< c[k]
                                         /\ c[k] =< Maximum(v, x)
                /\ \E k \in 1 .. m + 1 : c[k] = Lower(u, x)
                /\ \E k \in 1 .. m + 1 : c[k] = Maximum(v, x)
      BY <1>2, AppendSpans
    <3> QED
      BY <3>1
  <2> HIDE DEF l, h
  <2>2. CASE m # 4
    <3>1. Filling(r, m + 1) /\ r.buf = b
      BY <1>1, <1>2, <2>2, AddedFilling, Zenon
    <3>2. ~Ready(r) /\ Len(r.buf) = m + 1
      BY <3>1 DEF Filling, Ready
    <3>3. m + 1 # 0
      OBVIOUS
    <3> HIDE DEF r, b
    <3>4. Spans(r, l, h)
      BY <2>1, <3>1, <3>2, <3>3 DEF Spans
    <3> QED
      BY <3>4 DEF r, l, h
  <2>3. CASE m = 4
    <3>1. b \in Five(U32) /\ r = Seeded(b, p)
      BY <1>1, <1>2, <2>3, AddedFilling, Zenon
    <3> HIDE DEF b, r
    <3>2. /\ Placed(r, 5) /\ r.q = [i \in 1 .. 5 |-> Shifted(Sort5(b)[i])]
      BY <3>1, SeededKeeps, Zenon
    <3> DEFINE z == Sort5(b)
    <3>3. b \in Five(Nat)
      BY <1>1, <3>1 DEF Five
    <3>4. /\ z \in Five(Nat)
          /\ \A i \in 1 .. 4 : z[i] =< z[i + 1]
          /\ \A i \in 1 .. 5 : z[1] =< b[i] /\ b[i] =< z[5]
          /\ \E i \in 1 .. 5 : z[1] = b[i]
          /\ \E i \in 1 .. 5 : z[5] = b[i]
      BY <3>3, Sorted
    <3> HIDE DEF z
    <3>5. \A i \in 1 .. 5 : b[i] \in U16 /\ l =< b[i] /\ b[i] =< h /\ b[i] \in Nat
      BY <2>1, <2>3, <3>3 DEF Five
    <3>6. l \in Nat /\ h \in Nat /\ \A i \in 1 .. 5 : z[i] \in Nat
      BY <1>1, <2>1, <3>4 DEF U16, Five
    <3>7. z[1] = l /\ z[5] = h
      <4>1. PICK i \in 1 .. 5 : b[i] = l
        BY <2>1, <2>3
      <4>2. PICK j \in 1 .. 5 : b[j] = h
        BY <2>1, <2>3
      <4>3. z[1] =< l /\ h =< z[5]
        BY <3>4, <4>1, <4>2
      <4>4. PICK k \in 1 .. 5 : z[1] = b[k]
        BY <3>4
      <4>5. PICK n \in 1 .. 5 : z[5] = b[n]
        BY <3>4
      <4>6. l =< z[1] /\ z[5] =< h
        BY <3>5, <4>4, <4>5
      <4> QED
        BY <3>6, <4>3, <4>6
    <3>8. \A i \in 1 .. 5 : z[i] \in U16
      <4>1. /\ z[1] =< z[2] /\ z[2] =< z[3] /\ z[3] =< z[4] /\ z[4] =< z[5]
        BY <3>4
      <4>2. h =< U16_MAX
        BY <1>1, <2>1 DEF U16
      <4>3. \A i \in 1 .. 5 : z[i] =< U16_MAX
        BY <1>1, <3>6, <3>7, <4>1, <4>2
      <4> QED
        BY <1>1, <3>6, <4>3 DEF U16
    <3>9. \A i \in 1 .. 5 : r.q[i] = z[i] * Q
      <4>1. \A i \in 1 .. 5 : r.q[i] = Shifted(z[i])
        BY <3>2 DEF z
      <4> QED
        BY <3>6, <3>8, <4>1, ShiftedType
    <3>10. Level(r)
      BY <3>4, <3>6, <3>9, ScaleOrder DEF Level
    <3>11. Ready(r)
      <4>1. r.n \in Five(Int)
        BY <3>2 DEF Placed, Markers
      <4> QED
        BY <4>1, FiveIsSeq DEF Ready
    <3>12. Spans(r, l, h)
      <4>1. r.q[1] = l * Q /\ r.q[5] = h * Q
        BY <3>7, <3>9
      <4> QED
        BY <2>1, <3>10, <3>11, <4>1 DEF Spans
    <3> QED
      BY <3>12 DEF r, l, h
  <2> QED
    BY <2>2, <2>3
<1>3. CASE Placed(e, m)
  <2> DEFINE c == Extended(e.q, Shifted(x))
             y == Shifted(x)
  <2>1. e.n \in Five(Int) /\ e.q \in Five(U32) /\ Ready(e)
    <3>1. e.n \in Five(Int) /\ e.q \in Five(U32)
      BY <1>3 DEF Placed, Markers
    <3> QED
      BY <3>1, FiveIsSeq DEF Ready
  <2>2. Level(e) /\ e.q[1] = lo * Q /\ e.q[5] = hi * Q
        /\ lo \in U16 /\ hi \in U16
    BY <2>1 DEF Spans
  <2>3. /\ Placed(r, m + 1) /\ Level(r) /\ r.q[1] = c[1] /\ r.q[5] = c[5]
    BY <1>1, <1>3, <2>2, AddedMarkers, Zenon
  <2>4. y \in U32 /\ y = x * Q
    BY <1>1, ShiftedType
  <2>5. /\ c[1] = IF y < e.q[1] THEN y ELSE e.q[1]
        /\ c[5] = IF y > e.q[5] THEN y ELSE e.q[5]
    BY <2>1, <2>2, <2>4, ExtendedIs DEF Level
  <2> HIDE DEF c, y, r
  <2>6. lo \in Nat /\ hi \in Nat
    BY <1>1, <2>2 DEF U16
  <2>7. /\ x * Q < lo * Q <=> x < lo
        /\ hi * Q < x * Q <=> hi < x
    <3>1. \A u \in Nat : u * Q \in Nat
      <4>1. \A u, v \in Nat : u * v \in Nat
        OBVIOUS
      <4> QED
        BY <4>1, Widths
    <3> DEFINE X == x * Q  A == lo * Q  B == hi * Q
    <3>2. (A =< X <=> lo =< x) /\ (X =< B <=> x =< hi)
      BY <1>1, <2>6, ScaleOrder
    <3>3. X \in Nat /\ A \in Nat /\ B \in Nat
      BY <1>1, <2>6, <3>1
    <3> HIDE DEF X, A, B
    <3>4. (X < A <=> x < lo) /\ (B < X <=> hi < x)
      BY <1>1, <2>6, <3>2, <3>3
    <3> QED
      BY <3>4 DEF X, A, B
  <2>8. c[1] = l * Q
    <3>1. y < e.q[1] <=> x < lo
      BY <2>2, <2>4, <2>7, Zenon
    <3> QED
      BY <2>2, <2>4, <2>5, <3>1, Zenon DEF Lower
  <2>9. c[5] = h * Q
    <3>1. y > e.q[5] <=> hi < x
      <4>1. y > e.q[5] <=> e.q[5] < y
        BY <1>1, <2>1, <2>4 DEF Five
      <4> QED
        BY <2>2, <2>4, <2>7, <4>1, Zenon
    <3>2. x > hi <=> hi < x
      BY <1>1, <2>6
    <3>3. CASE hi < x
      BY <2>4, <2>5, <3>1, <3>2, <3>3, Zenon DEF Maximum
    <3>4. CASE ~(hi < x)
      BY <2>2, <2>5, <3>1, <3>2, <3>4, Zenon DEF Maximum
    <3> QED
      BY <3>3, <3>4
  <2>10. l \in U16 /\ h \in U16
    BY <1>1, <2>2, <2>6 DEF Lower, Maximum
  <2>11. Ready(r)
    <3>1. r.n \in Five(Int)
      BY <2>3 DEF Placed, Markers
    <3> QED
      BY <3>1, FiveIsSeq DEF Ready
  <2>12. Spans(r, l, h)
    BY <2>3, <2>8, <2>9, <2>10, <2>11, Zenon DEF Spans
  <2> QED
    BY <2>12 DEF r
<1> QED
  BY <1>2, <1>3 DEF EstInv

-----------------------------------------------------------------------------
(* Sessions. *)

Sessions ==
    [active : BOOLEAN, target : U32, samples : U32,
     ram_p50 : Estimator, ram_p95 : Estimator, ram_p99 : Estimator,
     dur_p95 : Estimator, dur_p99 : Estimator,
     ram_max : U16, baseline : U16, outliers : U16, dur_max : U32]

(* Every estimator saw every sample of the session.  Durations do not fit  *)
(* the fixed point, so what their estimators span is known only while they *)
(* fit 16 bits; the smallest of them is not kept anywhere.                 *)
SessionInv(s, l) ==
    /\ s \in Sessions /\ s.samples =< MaxSamples
    /\ \A e \in RamEstimators(s) \cup DurEstimators(s) : EstInv(e, s.samples)
    /\ \A e \in RamEstimators(s) : Spans(e, l, s.ram_max)
    /\ s.dur_max =< U16_MAX =>
         \A e \in DurEstimators(s) : \E d \in U16 : Spans(e, d, s.dur_max)

CalibrationInv ==
    /\ slot \in [Ops -> Sessions] /\ low \in [Ops -> U16]
    /\ \A o \in Ops : SessionInv(slot[o], low[o])

LEMMA FreshIs ==
    /\ Fresh \in Estimator /\ EstInv(Fresh, 0)
    /\ Spans(Fresh, U16_MAX, 0)
<1>1. Fresh \in Estimator /\ Fresh.n = <<>> /\ Fresh.np = <<>>
      /\ Fresh.q = <<>> /\ Len(Fresh.buf) = 0
  BY DEF Fresh, Estimator
<1>2. Filling(Fresh, 0)
  BY <1>1 DEF Filling
<1>3. U16_MAX \in U16 /\ 0 \in U16
  BY Widths DEF U16
<1> QED
  BY <1>1, <1>2, <1>3 DEF EstInv, Spans, Ready

(* A session without a sample. *)
LEMMA EmptySession ==
    ASSUME NEW s \in Sessions, s.samples = 0, s.ram_max = 0, s.dur_max = 0,
           s.ram_p50 = Fresh, s.ram_p95 = Fresh, s.ram_p99 = Fresh,
           s.dur_p95 = Fresh, s.dur_p99 = Fresh
    PROVE  SessionInv(s, U16_MAX)
<1>1. U16_MAX \in U16 /\ 0 =< MaxSamples
  <2>1. U32_MOD \in Nat \ {0} /\ U16_MAX \in Nat
    BY Widths
  <2>2. MaxSamples \in 1 .. U32_MOD \div 2 - 1
    BY CalibrationAssumption
  <2> QED
    BY <2>1, <2>2 DEF U16
<1>2. RamEstimators(s) = {Fresh} /\ DurEstimators(s) = {Fresh}
  BY DEF RamEstimators, DurEstimators
<1> QED
  BY <1>1, <1>2, FreshIs DEF SessionInv

LEMMA NoSessionInv ==
    /\ SessionInv(NoSession, U16_MAX) /\ NoSession \in Sessions
    /\ U16_MAX \in U16
    /\ \A g \in U32 :
         LET s == [NoSession EXCEPT !.active = TRUE, !.target = g]
         IN  SessionInv(s, U16_MAX) /\ s \in Sessions
<1>1. 0 \in U32 /\ 0 \in U16 /\ U16_MAX \in U16
  <2>1. U32_MOD \in Nat \ {0} /\ U16_MAX \in Nat
    BY Widths
  <2> QED
    BY <2>1 DEF U16, U32
<1>2. NoSession \in Sessions
  BY <1>1, FreshIs DEF NoSession, Sessions
<1>3. SessionInv(NoSession, U16_MAX)
  BY <1>2, EmptySession DEF NoSession
<1>4. ASSUME NEW g \in U32
      PROVE  LET s == [NoSession EXCEPT !.active = TRUE, !.target = g]
             IN  SessionInv(s, U16_MAX) /\ s \in Sessions
  <2> DEFINE s == [NoSession EXCEPT !.active = TRUE, !.target = g]
  <2>1. /\ s \in Sessions /\ s.samples = 0 /\ s.ram_max = 0 /\ s.dur_max = 0
        /\ s.ram_p50 = Fresh /\ s.ram_p95 = Fresh /\ s.ram_p99 = Fresh
        /\ s.dur_p95 = Fresh /\ s.dur_p99 = Fresh
    BY <1>1, FreshIs DEF NoSession, Sessions
  <2> HIDE DEF s
  <2>2. SessionInv(s, U16_MAX)
    BY <2>1, EmptySession
  <2> QED
    BY <2>1, <2>2 DEF s
<1> QED
  BY <1>1, <1>2, <1>3, <1>4

(* The estimators keep their type. *)
LEMMA EstimatorType ==
    ASSUME NEW e, NEW m \in Nat, EstInv(e, m)
    PROVE  e \in Estimator
  BY DEF EstInv, Filling, Placed, Markers

LEMMA SampleKeeps ==
    ASSUME NEW s, NEW l, SessionInv(s, l), s.samples < MaxSamples,
           l \in U16, NEW x \in Samples
    PROVE  /\ SessionInv(WithSample(s, x), IF x.ram < l THEN x.ram ELSE l)
           /\ (IF x.ram < l THEN x.ram ELSE l) \in U16
<1> DEFINE r == WithSample(s, x)
           k == s.samples
           f50 == Added(s.ram_p50, P50, x.ram)
           f95 == Added(s.ram_p95, P95, x.ram)
           f99 == Added(s.ram_p99, P99, x.ram)
           g95 == Added(s.dur_p95, P95, x.dur)
           g99 == Added(s.dur_p99, P99, x.dur)
           base == IF s.samples + 1 = BaselineAt
                   THEN Maximum(s.ram_max, x.ram) ELSE s.baseline
           ll == IF x.ram < l THEN x.ram ELSE l
<1>1. /\ s \in Sessions /\ k \in Nat /\ k + 1 \in U32 /\ k + 1 =< MaxSamples
      /\ x.ram \in U16 /\ x.dur \in U32 /\ x.ram \in U32
      /\ U16_MAX \in Nat /\ (\A u \in U32 : u \in Nat) /\ (\A u \in U16 : u \in U32)
      /\ P50 \in 1 .. Q - 1 /\ P95 \in 1 .. Q - 1 /\ P99 \in 1 .. Q - 1
  <2>1. U32_MOD \in Nat \ {0} /\ U16_MAX \in Nat /\ U32 = 0 .. U32_MOD - 1
        /\ U32_MOD > U16_MAX
    BY Widths
  <2>2. MaxSamples \in 1 .. U32_MOD \div 2 - 1 /\ x \in [ram : U16, dur : U32]
        /\ P50 \in 1 .. Q - 1 /\ P95 \in 1 .. Q - 1 /\ P99 \in 1 .. Q - 1
    BY CalibrationAssumption
  <2>3. s \in Sessions /\ k \in U32
    BY DEF SessionInv, Sessions
  <2>4. MaxSamples \in Nat /\ MaxSamples < U32_MOD
    BY <2>1, <2>2
  <2>5. x.ram \in U16 /\ x.dur \in U32
    BY <2>2
  <2>6. k \in Nat /\ k + 1 \in U32 /\ k + 1 =< MaxSamples
    BY <2>1, <2>3, <2>4
  <2>7. (\A u \in U32 : u \in Nat) /\ (\A u \in U16 : u \in U32)
    BY <2>1 DEF U16
  <2> QED
    BY <2>1, <2>2, <2>3, <2>5, <2>6, <2>7
<1>2. /\ EstInv(s.ram_p50, k) /\ EstInv(s.ram_p95, k) /\ EstInv(s.ram_p99, k)
      /\ EstInv(s.dur_p95, k) /\ EstInv(s.dur_p99, k)
      /\ Spans(s.ram_p50, l, s.ram_max) /\ Spans(s.ram_p95, l, s.ram_max)
      /\ Spans(s.ram_p99, l, s.ram_max)
      /\ s.dur_max =< U16_MAX =>
           /\ \E d \in U16 : Spans(s.dur_p95, d, s.dur_max)
           /\ \E d \in U16 : Spans(s.dur_p99, d, s.dur_max)
  BY DEF SessionInv, RamEstimators, DurEstimators
<1>3. /\ s.ram_max \in U16 /\ s.dur_max \in U32 /\ s.baseline \in U16
      /\ s.outliers \in U16 /\ s.active \in BOOLEAN /\ s.target \in U32
  BY <1>1 DEF Sessions
<1>4. /\ EstInv(f50, k + 1) /\ EstInv(f95, k + 1) /\ EstInv(f99, k + 1)
      /\ EstInv(g95, k + 1) /\ EstInv(g99, k + 1)
  BY <1>1, <1>2, AddedKeeps, Zenon
<1>5. ll = Lower(l, x.ram) /\ ll \in U16
  BY <1>1 DEF Lower
<1>6. /\ Spans(f50, ll, Maximum(s.ram_max, x.ram))
      /\ Spans(f95, ll, Maximum(s.ram_max, x.ram))
      /\ Spans(f99, ll, Maximum(s.ram_max, x.ram))
  BY <1>1, <1>2, <1>5, AddedSpans, Zenon
<1>7. ASSUME Maximum(s.dur_max, x.dur) =< U16_MAX
      PROVE  /\ \E d \in U16 : Spans(g95, d, Maximum(s.dur_max, x.dur))
             /\ \E d \in U16 : Spans(g99, d, Maximum(s.dur_max, x.dur))
  <2>1. x.dur \in U16 /\ s.dur_max =< U16_MAX
    BY <1>1, <1>3, <1>7 DEF Maximum, U16
  <2>2. \A d \in U16 : Lower(d, x.dur) \in U16
    BY <2>1 DEF Lower
  <2>3. PICK d \in U16 : Spans(s.dur_p95, d, s.dur_max)
    BY <1>2, <2>1
  <2>4. Spans(g95, Lower(d, x.dur), Maximum(s.dur_max, x.dur))
    BY <1>1, <1>2, <2>1, <2>3, AddedSpans, Zenon
  <2>5. PICK w \in U16 : Spans(s.dur_p99, w, s.dur_max)
    BY <1>2, <2>1
  <2>6. Spans(g99, Lower(w, x.dur), Maximum(s.dur_max, x.dur))
    BY <1>1, <1>2, <2>1, <2>5, AddedSpans, Zenon
  <2> QED
    BY <2>2, <2>4, <2>6
<1>8. /\ Maximum(s.ram_max, x.ram) \in U16
      /\ Maximum(s.dur_max, x.dur) \in U32 /\ base \in U16
  BY <1>1, <1>3 DEF Maximum
<1>9. f50 \in Estimator /\ f95 \in Estimator /\ f99 \in Estimator
      /\ g95 \in Estimator /\ g99 \in Estimator
  <2>1. k + 1 \in Nat
    BY <1>1
  <2> QED
    BY <1>4, <2>1, EstimatorType, Zenon
<1> DEFINE c == [s EXCEPT !.samples = @ + 1,
                          !.ram_max = Maximum(@, x.ram),
                          !.dur_max = Maximum(@, x.dur),
                          !.baseline = base,
                          !.ram_p50 = f50, !.ram_p95 = f95, !.ram_p99 = f99,
                          !.dur_p95 = g95, !.dur_p99 = g99]
           out == IF Outlier(c, x.ram)
                  THEN (s.outliers + 1) % (U16_MAX + 1) ELSE s.outliers
<1> HIDE DEF f50, f95, f99, g95, g99, base, ll
<1>10. c \in Sessions /\ c.outliers = s.outliers
       /\ c.samples = k + 1 /\ c.ram_max = Maximum(s.ram_max, x.ram)
       /\ c.dur_max = Maximum(s.dur_max, x.dur)
       /\ c.ram_p50 = f50 /\ c.ram_p95 = f95 /\ c.ram_p99 = f99
       /\ c.dur_p95 = g95 /\ c.dur_p99 = g99
  BY <1>1, <1>3, <1>8, <1>9 DEF Sessions
<1>11. r = [c EXCEPT !.outliers = out]
  BY <1>10 DEF WithSample, f50, f95, f99, g95, g99, base
<1>12. out \in U16
  <2>1. s.outliers + 1 \in Int
    BY <1>1, <1>3
  <2> QED
    BY <1>3, <2>1, Remainder
<1> HIDE DEF c, out, r, k
<1>13. r \in Sessions /\ r.samples = k + 1
       /\ r.ram_max = Maximum(s.ram_max, x.ram)
       /\ r.dur_max = Maximum(s.dur_max, x.dur)
       /\ r.ram_p50 = f50 /\ r.ram_p95 = f95 /\ r.ram_p99 = f99
       /\ r.dur_p95 = g95 /\ r.dur_p99 = g99
  BY <1>10, <1>11, <1>12 DEF Sessions
<1>14. RamEstimators(r) = {f50, f95, f99} /\ DurEstimators(r) = {g95, g99}
  BY <1>13 DEF RamEstimators, DurEstimators
<1>15. SessionInv(r, ll)
  BY <1>1, <1>4, <1>6, <1>7, <1>13, <1>14 DEF SessionInv
<1> QED
  BY <1>5, <1>15 DEF r, ll

-----------------------------------------------------------------------------
(* The invariant. *)

LEMMA CalibrationInit == Init => CalibrationInv
  BY NoSessionInv DEF Init, CalibrationInv

LEMMA CalibrationStep == CalibrationInv /\ [Next]_vars => CalibrationInv'
<1> SUFFICES ASSUME CalibrationInv, [Next]_vars
             PROVE  CalibrationInv'
  OBVIOUS
<1>1. ASSUME NEW o \in Ops, NEW s \in Sessions, NEW l \in U16,
             SessionInv(s, l),
             slot' = [slot EXCEPT ![o] = s], low' = [low EXCEPT ![o] = l]
      PROVE  CalibrationInv'
  BY <1>1 DEF CalibrationInv
<1>2. CASE Reinit
  BY <1>2, NoSessionInv DEF Reinit, CalibrationInv
<1>3. ASSUME NEW o \in Ops, NEW t \in Targets, CalibrateBegin(o, t)
      PROVE  CalibrationInv'
  <2>1. t \in U32
    BY CalibrationAssumption
  <2> DEFINE s == [NoSession EXCEPT !.active = TRUE, !.target = t]
  <2>2. SessionInv(s, U16_MAX) /\ s \in Sessions /\ U16_MAX \in U16
    BY <2>1, NoSessionInv
  <2>3. slot' = [slot EXCEPT ![o] = s] /\ low' = [low EXCEPT ![o] = U16_MAX]
    BY <1>3 DEF CalibrateBegin
  <2> HIDE DEF s
  <2> QED
    BY <1>1, <2>2, <2>3
<1>4. ASSUME NEW o \in Ops, NEW x \in Samples, CalibrateSample(o, x)
      PROVE  CalibrationInv'
  <2> DEFINE s == WithSample(slot[o], x)
             l == IF x.ram < low[o] THEN x.ram ELSE low[o]
  <2>1. /\ SessionInv(slot[o], low[o]) /\ low[o] \in U16
        /\ slot[o].samples < MaxSamples
    BY <1>4 DEF CalibrationInv, CalibrateSample
  <2>2. SessionInv(s, l) /\ l \in U16
    BY <2>1, SampleKeeps, Zenon
  <2>3. slot' = [slot EXCEPT ![o] = s] /\ low' = [low EXCEPT ![o] = l]
    BY <1>4, Zenon DEF CalibrateSample
  <2> HIDE DEF s, l
  <2>4. s \in Sessions
    BY <2>2 DEF SessionInv
  <2> QED
    BY <1>1, <2>2, <2>3, <2>4
<1>5. ASSUME NEW o \in Ops, CalibrateEnd(o)
      PROVE  CalibrationInv'
  <2> DEFINE s == [slot[o] EXCEPT !.active = FALSE]
  <2>1. /\ SessionInv(slot[o], low[o]) /\ low[o] \in U16 /\ slot[o] \in Sessions
    BY DEF CalibrationInv
  <2>2. /\ s \in Sessions /\ RamEstimators(s) = RamEstimators(slot[o])
        /\ DurEstimators(s) = DurEstimators(slot[o])
        /\ s.samples = slot[o].samples /\ s.ram_max = slot[o].ram_max
        /\ s.dur_max = slot[o].dur_max
    BY <2>1 DEF Sessions, RamEstimators, DurEstimators
  <2>3. slot' = [slot EXCEPT ![o] = s] /\ low' = low
    BY <1>5 DEF CalibrateEnd
  <2> HIDE DEF s
  <2>4. SessionInv(s, low[o])
    BY <2>1, <2>2 DEF SessionInv
  <2>5. low' = [low EXCEPT ![o] = low[o]]
    BY <2>3 DEF CalibrationInv
  <2> QED
    BY <1>1, <2>1, <2>2, <2>3, <2>4, <2>5
<1>6. CASE UNCHANGED vars
  BY <1>6 DEF vars, CalibrationInv
<1> QED
  BY <1>2, <1>3, <1>4, <1>5, <1>6 DEF Next

LEMMA CalibrationInvariant == Spec => []CalibrationInv
  BY CalibrationInit, CalibrationStep, PTL DEF Spec

-----------------------------------------------------------------------------
(* Theorems. *)

LEMMA TypeOf == CalibrationInv => TypeOK
<1> SUFFICES ASSUME CalibrationInv, NEW o \in Ops
             PROVE  LET s == slot[o]
                    IN  /\ s.active \in BOOLEAN
                        /\ {s.target, s.samples, s.dur_max} \subseteq U32
                        /\ {s.ram_max, s.baseline, s.outliers, low[o]} \subseteq U16
                        /\ \A e \in RamEstimators(s) \cup DurEstimators(s) :
                             /\ Ready(e) => /\ e.q \in [1 .. 5 -> U32]
                                            /\ e.np \in [1 .. 5 -> Int]
                             /\ Len(e.buf) =< 4
  BY DEF TypeOK
<1>1. slot[o] \in Sessions /\ low[o] \in U16 /\ SessionInv(slot[o], low[o])
  BY DEF CalibrationInv
<1>2. ASSUME NEW e, NEW m, EstInv(e, m)
      PROVE  /\ Ready(e) => e.q \in [1 .. 5 -> U32] /\ e.np \in [1 .. 5 -> Int]
             /\ Len(e.buf) =< 4
  <2>1. CASE Filling(e, m)
    BY <2>1 DEF Filling, Ready
  <2>2. CASE Placed(e, m)
    <3>1. e.q \in [1 .. 5 -> U32] /\ e.np \in [1 .. 5 -> Int] /\ e.buf = <<>>
      BY <2>2 DEF Placed, Markers, Five
    <3>2. Len(<<>>) =< 4
      OBVIOUS
    <3> QED
      BY <3>1, <3>2
  <2> QED
    BY <1>2, <2>1, <2>2 DEF EstInv
<1>3. \A e \in RamEstimators(slot[o]) \cup DurEstimators(slot[o]) :
         EstInv(e, slot[o].samples)
  BY <1>1 DEF SessionInv
<1> QED
  BY <1>1, <1>2, <1>3 DEF Sessions

(* Every field of a session keeps its C type, and the buffer of an         *)
(* estimator never holds more than four samples before it is sorted.       *)
THEOREM CalibrationTypeCorrect == Spec => []TypeOK
  BY CalibrationInvariant, TypeOf, PTL

LEMMA DistinctOf == CalibrationInv => PositionsDistinct
<1> SUFFICES ASSUME CalibrationInv, NEW o \in Ops,
                    NEW e \in RamEstimators(slot[o]) \cup DurEstimators(slot[o]),
                    Ready(e)
             PROVE  Increasing(e.n) /\ e.n[1] = 1 /\ e.n[5] = slot[o].samples
  BY DEF PositionsDistinct
<1>1. EstInv(e, slot[o].samples)
  BY DEF CalibrationInv, SessionInv
<1>2. Placed(e, slot[o].samples)
  BY <1>1 DEF EstInv, Filling, Ready
<1>3. Len(e.n) = 5 /\ Apart(e)
  BY <1>2, FiveIsSeq DEF Placed, Markers
<1>4. Increasing(e.n)
  BY <1>3 DEF Increasing, Apart
<1> QED
  BY <1>2, <1>4 DEF Placed

(* lb__p2_parabolic_ and lb__p2_linear_ never divide by zero: the markers  *)
(* of an estimator stay at distinct positions, from the first sample to    *)
(* the last, whatever the samples are and however the positions overflow.  *)
THEOREM MarkersStayDistinct == Spec => []PositionsDistinct
  BY CalibrationInvariant, DistinctOf, PTL

LEMMA HeightsOf == CalibrationInv => HeightsOrdered
<1> SUFFICES ASSUME CalibrationInv, NEW o \in Ops
             PROVE  LET s == slot[o]
                    IN  /\ \A e \in RamEstimators(s) : Ready(e) =>
                              /\ Ordered(e.q)
                              /\ e.q[1] = low[o] * Q /\ e.q[5] = s.ram_max * Q
                        /\ s.dur_max =< U16_MAX => \A e \in DurEstimators(s) :
                              Ready(e) => Ordered(e.q) /\ e.q[5] = s.dur_max * Q
  BY DEF HeightsOrdered
<1>1. SessionInv(slot[o], low[o])
  BY DEF CalibrationInv
<1>2. ASSUME NEW e, EstInv(e, slot[o].samples), Ready(e), NEW l, NEW h,
             Spans(e, l, h)
      PROVE  Ordered(e.q) /\ e.q[1] = l * Q /\ e.q[5] = h * Q
  <2>1. Placed(e, slot[o].samples)
    BY <1>2 DEF EstInv, Filling, Ready
  <2>2. Len(e.q) = 5
    BY <2>1, FiveIsSeq DEF Placed, Markers
  <2>3. Level(e) /\ e.q[1] = l * Q /\ e.q[5] = h * Q
    BY <1>2 DEF Spans
  <2> QED
    BY <2>2, <2>3 DEF Ordered, Level
<1>3. \A e \in RamEstimators(slot[o]) \cup DurEstimators(slot[o]) :
         EstInv(e, slot[o].samples)
  BY <1>1 DEF SessionInv
<1>4. \A e \in RamEstimators(slot[o]) : Spans(e, low[o], slot[o].ram_max)
  BY <1>1 DEF SessionInv
<1>5. slot[o].dur_max =< U16_MAX => \A e \in DurEstimators(slot[o]) :
         \E d \in U16 : Spans(e, d, slot[o].dur_max)
  BY <1>1 DEF SessionInv
<1> QED
  BY <1>2, <1>3, <1>4, <1>5

(* A percentile of RAM is never outside the samples it was computed from:  *)
(* the heights of its markers stay in order from the smallest sample to    *)
(* the largest, through the sorting network, the parabola, the line and    *)
(* the uint32_t arithmetic.  For durations while they fit the fixed point. *)
THEOREM HeightsStayOrdered == Spec => []HeightsOrdered
  BY CalibrationInvariant, HeightsOf, PTL

LEMMA EstimateType ==
    ASSUME NEW e, NEW m \in Nat, EstInv(e, m)
    PROVE  Estimate(e) \in Nat
<1>0. \A u \in U32 : u \in Nat
  BY Widths
<1>1. CASE Placed(e, m)
  <2>1. e.n # <<>> /\ e.q[3] \in U32
    BY <1>1, FiveIsSeq DEF Placed, Markers, Five
  <2> QED
    BY <1>0, <2>1 DEF Estimate, Ready
<1>2. CASE Filling(e, m)
  <2> DEFINE s == [i \in 1 .. 5 |-> IF i =< Len(e.buf) THEN e.buf[i] ELSE 0]
             j == Len(e.buf) \div 2 + 1
  <2>1. ~Ready(e) /\ e.buf \in Seq(U32) /\ Len(e.buf) = m /\ m =< 4
    BY <1>2 DEF Filling, Ready, Estimator
  <2>2. s \in Five(Nat)
    <3>1. \A i \in 1 .. 5 : i =< Len(e.buf) => e.buf[i] \in U32
      BY <2>1
    <3> QED
      BY <1>0, <3>1 DEF Five
  <2>3. j \in 1 .. 5
    BY <2>1
  <2> HIDE DEF s, j
  <2>4. Sort5(s) \in Five(Nat)
    BY <2>2, Sorted
  <2>5. Sort5(s)[j] \in Nat
    BY <2>3, <2>4 DEF Five
  <2>6. Shifted(Sort5(s)[j]) \in Nat
    BY <1>0, <2>5, ShiftedType
  <2>7. Estimate(e) = IF e.buf = <<>> THEN 0 ELSE Shifted(Sort5(s)[j])
    BY <2>1 DEF Estimate, s, j
  <2> QED
    BY <2>6, <2>7
<1> QED
  BY <1>1, <1>2 DEF EstInv

LEMMA AdmitsOf == CalibrationInv => SuggestionAdmitsObserved
<1> SUFFICES ASSUME CalibrationInv, NEW o \in Ops
             PROVE  LET s == slot[o]
                    IN  /\ (s.ram_max * 105) \div 100 =< U16_MAX =>
                              Suggested(s).ram >= s.ram_max
                        /\ s.dur_max * 110 < U32_MOD =>
                              Suggested(s).dur >= s.dur_max
  BY DEF SuggestionAdmitsObserved
<1> DEFINE s == slot[o]
           p == Estimate(s.ram_p99)
           q == Estimate(s.dur_p99)
<1>1. s \in Sessions /\ SessionInv(s, low[o])
  BY DEF CalibrationInv
<1>2. /\ s.ram_max \in Nat /\ s.dur_max \in Nat /\ s.samples \in Nat
      /\ U16_MAX \in Nat /\ U32_MOD \in Nat \ {0} /\ Q \in Nat \ {0}
      /\ RamMargin \in Nat /\ TimeMargin \in Nat
      /\ (\A u \in U32 : u \in Nat) /\ \A u \in U16 : u \in Nat
  <2>1. s.ram_max \in U16 /\ s.dur_max \in U32 /\ s.samples \in U32
    BY <1>1 DEF Sessions
  <2> QED
    BY <2>1, Widths, CalibrationAssumption
<1>3. p \in Nat /\ q \in Nat
  <2>1. EstInv(s.ram_p99, s.samples) /\ EstInv(s.dur_p99, s.samples)
    BY <1>1 DEF SessionInv, RamEstimators, DurEstimators
  <2> QED
    BY <1>2, <2>1, EstimateType
<1>4. ASSUME NEW a \in Int, NEW b \in Int
      PROVE  Maximum(a, b) >= b
  BY DEF Maximum
<1> DEFINE pr == (p \div Q + RamMargin) % (U16_MAX + 1)
           qr == (q \div Q + TimeMargin) % U32_MOD
           rm == s.ram_max
           dm == s.dur_max
<1>5. Suggested(s) =
        [ram |-> Maximum(pr, ((rm * 105) \div 100) % (U16_MAX + 1)),
         dur |-> Maximum(qr, ((dm * 110) % U32_MOD) \div 100)]
  BY DEF Suggested
<1>6. pr \in Int /\ qr \in Int
  <2> HIDE DEF p, q
  <2>1. p \div Q \in Nat /\ q \div Q \in Nat
    BY <1>2, <1>3
  <2>2. p \div Q + RamMargin \in Int /\ q \div Q + TimeMargin \in Int
    BY <1>2, <2>1
  <2>3. pr \in U16 /\ qr \in U32
    BY <2>2, Remainder
  <2> QED
    BY <1>2, <2>3
<1> HIDE DEF pr, qr
<1>7. ASSUME (rm * 105) \div 100 =< U16_MAX
      PROVE  Suggested(s).ram >= rm
  <2> DEFINE v == (rm * 105) \div 100
  <2>1. v \in Nat /\ v >= rm
    BY <1>2
  <2> HIDE DEF v
  <2>2. v % (U16_MAX + 1) = v
    BY <1>7, <2>1, Remainder DEF v
  <2>3. Suggested(s).ram = Maximum(pr, v % (U16_MAX + 1))
    BY <1>5 DEF v
  <2>4. Maximum(pr, v) >= v /\ Maximum(pr, v) \in Int
    BY <1>6, <2>1 DEF Maximum
  <2> QED
    BY <1>2, <2>1, <2>2, <2>3, <2>4
<1>8. ASSUME dm * 110 < U32_MOD
      PROVE  Suggested(s).dur >= dm
  <2> DEFINE v == dm * 110
  <2>1. v \in Nat /\ v \div 100 >= dm /\ v \div 100 \in Nat
    BY <1>2
  <2> HIDE DEF v
  <2>2. v % U32_MOD = v
    BY <1>8, <2>1, Remainder DEF v
  <2>3. Suggested(s).dur = Maximum(qr, (v % U32_MOD) \div 100)
    BY <1>5 DEF v
  <2>4. Maximum(qr, v \div 100) >= v \div 100 /\ Maximum(qr, v \div 100) \in Int
    BY <1>6, <2>1 DEF Maximum
  <2> QED
    BY <1>2, <2>1, <2>2, <2>3, <2>4
<1> QED
  BY <1>7, <1>8

(* The limits calibrate_end suggests admit everything the session saw,     *)
(* whatever the estimators say and whatever wraps in them, as long as the  *)
(* maximum with its share fits the type it is computed in.                 *)
THEOREM SuggestionsAdmit == Spec => []SuggestionAdmitsObserved
  BY CalibrationInvariant, AdmitsOf, PTL

=============================================================================
