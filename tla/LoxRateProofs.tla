---------------------------- MODULE LoxRateProofs ----------------------------
(***************************************************************************)
(* Theorems about rate windows and lifetime limits, for every clock and    *)
(* counter width, fixed-point scale, set of windows and need list, in both *)
(* builds.                                                                 *)
(***************************************************************************)
EXTENDS LoxRate, TLAPS

-----------------------------------------------------------------------------
(* Numbers. *)

(* A set with one element has it as its minimum. *)
LEMMA MinOfOne ==
    ASSUME NEW k \in Nat
    PROVE  Min({k}) = k
  BY DEF Min

(* Products and quotients of natural numbers. *)
LEMMA ProductNat ==
    ASSUME NEW a \in Nat, NEW b \in Nat
    PROVE  a * b \in Nat
  OBVIOUS

LEMMA QuotientNat ==
    ASSUME NEW a \in Nat, NEW b \in Nat \ {0}
    PROVE  a \div b \in Nat /\ b * (a \div b) =< a
  OBVIOUS

LEMMA RemainderNat ==
    ASSUME NEW a \in Nat, NEW m \in Nat \ {0}
    PROVE  a % m \in Nat /\ a % m =< a
  OBVIOUS

LEMMA ProductGrows ==
    ASSUME NEW a \in Nat, NEW b \in Nat, NEW k \in Nat, a =< b
    PROVE  k * a =< k * b
<1>1. PICK d \in Nat : b = a + d
  <2>1. b - a \in Nat /\ b = a + (b - a)
    OBVIOUS
  <2> QED
    BY <2>1
<1>2. k * b = k * a + k * d
  BY <1>1
<1>3. k * d \in Nat /\ k * a \in Nat
  BY ProductNat
<1> QED
  BY <1>2, <1>3

(* A remainder fits in the width and is no larger than the number. *)
LEMMA Truncated ==
    ASSUME NEW a \in Nat
    PROVE  a % Modulus \in U32 /\ a % Modulus =< a
<1>1. Modulus \in Nat /\ Modulus > 0 /\ Modulus = U32_MAX + 1 /\ U32_MAX \in Nat
  BY RateAssumption DEF Modulus
<1>2. a % Modulus \in 0 .. U32_MAX
  BY <1>1
<1>3. CASE a < Modulus
  <2>1. a % Modulus = a
    BY <1>1, <1>3
  <2> QED
    BY <1>2, <2>1 DEF U32
<1>4. CASE a >= Modulus
  BY <1>1, <1>2, <1>4 DEF U32
<1> QED
  BY <1>1, <1>3, <1>4

-----------------------------------------------------------------------------
(* Windows. *)

(* The age of a window is a number of the clock's width. *)
LEMMA ElapsedType ==
    ASSUME clock \in U32, NEW x \in Window
    PROVE  Elapsed(x) \in U32
  BY RateAssumption DEF Elapsed, Modulus, U32, Window

(* The size of a bucket and what it gains are natural numbers; it gains no *)
(* more than its size per duration.                                        *)
LEMMA RefillType ==
    ASSUME clock \in U32, NEW x \in Window, ~Unlimited(x)
    PROVE  /\ Cap(x) \in Nat /\ Refill(x) \in Nat
           /\ x.dur * Refill(x) =< Cap(x) * Elapsed(x)
<1>1. x.limit \in Nat /\ Q \in Nat /\ x.dur \in Nat \ {0}
  BY RateAssumption DEF Window, U32, Unlimited
<1>2. Elapsed(x) \in Nat
  BY ElapsedType, RateAssumption DEF U32
<1>3. Cap(x) \in Nat
  BY <1>1, ProductNat DEF Cap
<1>4. Cap(x) * Elapsed(x) \in Nat
  BY <1>2, <1>3, ProductNat
<1> DEFINE m == Modulus * Modulus
           a == Cap(x) * Elapsed(x)
<1>5. m \in Nat \ {0}
  <2>1. Modulus \in Nat \ {0}
    BY RateAssumption DEF Modulus
  <2> QED
    BY <2>1
<1>6. a % m \in Nat /\ a % m =< a
  BY <1>4, <1>5, RemainderNat
<1>7. Refill(x) = (a % m) \div x.dur
  BY DEF Refill
<1> HIDE DEF m, a
<1>8. Refill(x) \in Nat /\ x.dur * Refill(x) =< a % m
  BY <1>1, <1>6, <1>7, QuotientNat
<1>9. x.dur * Refill(x) \in Nat
  BY <1>1, <1>8, ProductNat
<1>10. x.dur * Refill(x) =< a
  BY <1>4, <1>6, <1>8, <1>9 DEF a
<1> QED
  BY <1>3, <1>8, <1>10 DEF a

(* What lb__rate_roll_and_check_ does to a window before it answers. *)
LEMMA RolledIs ==
    ASSUME clock \in U32, impl \in {"fixed", "bucket"}, NEW x \in Window
    PROVE  /\ Rolled(x) \in Window
           /\ Rolled(x).limit = x.limit /\ Rolled(x).dur = x.dur
           /\ Unlimited(x) => Rolled(x) = x
           /\ (~Unlimited(x) /\ impl = "fixed") =>
                IF Elapsed(x) < x.dur THEN Rolled(x) = x
                ELSE Rolled(x).start = clock /\ Rolled(x).consumed = 0
           /\ (~Unlimited(x) /\ impl = "bucket") =>
                /\ Rolled(x).start = clock
                /\ Rolled(x).consumed =< Cap(x)
                /\ Rolled(x).consumed =< x.consumed + Refill(x)
<1>1. CASE Unlimited(x)
  BY <1>1 DEF Rolled
<1>2. CASE ~Unlimited(x) /\ impl = "fixed"
  <2>1. Rolled(x) = IF Elapsed(x) < x.dur THEN x
                    ELSE [x EXCEPT !.start = clock, !.consumed = 0]
    BY <1>2 DEF Rolled
  <2>2. 0 \in U32
    BY RateAssumption DEF U32
  <2> QED
    BY <1>2, <2>1, <2>2 DEF Window
<1>3. CASE ~Unlimited(x) /\ impl = "bucket"
  <2> DEFINE t == x.consumed + Refill(x)
             v == IF t > Cap(x) THEN Cap(x) ELSE t
  <2>1. Cap(x) \in Nat /\ Refill(x) \in Nat /\ x.consumed \in Nat
    BY <1>3, RefillType, RateAssumption DEF Window, U32
  <2>2. v \in Nat /\ v =< Cap(x) /\ v =< t
    BY <2>1
  <2>3. Rolled(x) = [x EXCEPT !.start = clock, !.consumed = v % Modulus]
    BY <1>3 DEF Rolled
  <2> HIDE DEF v
  <2>4. v % Modulus \in U32 /\ v % Modulus =< v
    BY <2>2, Truncated
  <2>5. v % Modulus =< Cap(x) /\ v % Modulus =< t
    BY <2>1, <2>2, <2>4, RateAssumption DEF U32
  <2> QED
    BY <1>3, <2>3, <2>4, <2>5 DEF Window
<1> QED
  BY <1>1, <1>2, <1>3

(* A saturating sum stays in its width, and is the sum if that fits. *)
LEMMA SaturatingSum ==
    ASSUME NEW a \in U32, NEW b \in U32
    PROVE  /\ SaturatingAdd(a, b) \in U32
           /\ a =< SaturatingAdd(a, b)
           /\ SaturatingAdd(a, b) =< a + b
           /\ SaturatingAdd(a, b) = a => b = 0 \/ a = U32_MAX
           /\ \A l \in U32 : a + b =< l => SaturatingAdd(a, b) = a + b
  BY RateAssumption DEF SaturatingAdd, U32

(* What lb__rate_commit_ does to a window. *)
LEMMA ChargedIs ==
    ASSUME clock \in U32, impl \in {"fixed", "bucket"}, NEW x \in Window,
           NEW a \in U32
    PROVE  LET y == Charged(x, a)
           IN  /\ y \in Window
               /\ y.limit = x.limit /\ y.dur = x.dur
               /\ Unlimited(x) => y = x
               /\ ~Unlimited(x) => y.start = Rolled(x).start
               /\ (~Unlimited(x) /\ impl = "fixed") =>
                    y.consumed = SaturatingAdd(Rolled(x).consumed, a)
               /\ (~Unlimited(x) /\ impl = "bucket") =>
                    y.consumed = IF Rolled(x).consumed >= a * Q
                                 THEN Rolled(x).consumed - a * Q ELSE 0
<1> DEFINE z == Rolled(x)
<1>1. z \in Window /\ z.limit = x.limit /\ z.dur = x.dur
  BY RolledIs
<1> HIDE DEF z
<1>2. CASE Unlimited(x)
  BY <1>2 DEF Charged
<1>3. CASE ~Unlimited(x) /\ impl = "fixed"
  <2>1. Charged(x, a) =
          [z EXCEPT !.consumed = SaturatingAdd(z.consumed, a)]
    BY <1>1, <1>3 DEF Charged, z
  <2>2. SaturatingAdd(z.consumed, a) \in U32
    BY <1>1, SaturatingSum DEF Window
  <2> QED
    BY <1>1, <1>3, <2>1, <2>2 DEF Window, z
<1>4. CASE ~Unlimited(x) /\ impl = "bucket"
  <2> DEFINE p == a * Q
             v == IF z.consumed >= p THEN z.consumed - p ELSE 0
  <2>1. Charged(x, a) = [z EXCEPT !.consumed = v]
    BY <1>1, <1>4 DEF Charged, z
  <2>2. p \in Nat /\ z.consumed \in Nat /\ z.consumed =< U32_MAX
    BY <1>1, ProductNat, RateAssumption DEF Window, U32
  <2> HIDE DEF p
  <2>3. v \in U32
    BY <2>2, RateAssumption DEF U32
  <2> HIDE DEF v
  <2> QED
    BY <1>1, <1>4, <2>1, <2>3 DEF Window, z, v, p
<1> QED
  BY <1>2, <1>3, <1>4

-----------------------------------------------------------------------------
(* Types. *)

(* A window that was never set, and a lifetime, are well typed. *)
LEMMA NothingTyped == NoWindow \in Window /\ NoLife \in Lifetime
  BY RateAssumption DEF NoWindow, Window, NoLife, Lifetime, U32

(* What the rate stage leaves behind: some windows rolled. *)
LEMMA RolledTable ==
    ASSUME TypeOK, NEW o, NEW full, RollReached(o, full)
    PROVE  /\ win' \in [Resources -> [Windows -> Window]]
           /\ \A r \in Resources, w \in Windows :
                win'[r][w] = win[r][w] \/ win'[r][w] = Rolled(win[r][w])
<1>1. clock \in U32 /\ impl \in {"fixed", "bucket"}
  BY RateAssumption DEF TypeOK
<1>2. \A r \in Resources, w \in Windows :
        win[r][w] \in Window /\ Rolled(win[r][w]) \in Window
  BY <1>1, RolledIs DEF TypeOK
<1>3. \A r \in Resources, w \in Windows :
        win'[r][w] = IF Reached(o, full, r, w) THEN Rolled(win[r][w])
                                               ELSE win[r][w]
  BY DEF RollReached
<1>4. win' = [r \in Resources |-> [w \in Windows |-> win'[r][w]]]
  BY DEF RollReached
<1>5. \A r \in Resources, w \in Windows : win'[r][w] \in Window
  BY <1>2, <1>3
<1> QED
  BY <1>3, <1>4, <1>5

(* What is left to commit starts with a need. *)
LEMMA HeadOfTodo ==
    ASSUME TypeOK, todo # <<>>
    PROVE  /\ Head(todo) \in Need /\ Tail(todo) \in Seq(Need)
           /\ Len(todo) \in Nat \ {0} /\ Head(todo) = todo[1]
           /\ Len(Tail(todo)) = Len(todo) - 1
           /\ \A i \in 1 .. Len(Tail(todo)) : Tail(todo)[i] = todo[i + 1]
  BY DEF TypeOK

(* What the commit of an entry does to the tables. *)
LEMMA CommitIs ==
    ASSUME TypeOK, CommitEntry
    PROVE  LET n == Head(todo)
           IN  /\ n \in Need
               /\ \A w \in Windows :
                    win'[n.resource][w] = Charged(win[n.resource][w], n.amount)
               /\ \A r \in Resources \ {n.resource} :
                    win'[r] = win[r] /\ life'[r] = life[r]
               /\ life'[n.resource] =
                    [life[n.resource] EXCEPT
                       !.consumed = SaturatingAdd(@, n.amount)]
               /\ win' \in [Resources -> [Windows -> Window]]
               /\ life' \in [Resources -> Lifetime]
<1> DEFINE n == Head(todo)
<1>1. n \in Need
  BY HeadOfTodo DEF CommitEntry
<1>2. n.resource \in Resources /\ n.amount \in U32
  BY <1>1 DEF Need
<1>3. clock \in U32 /\ impl \in {"fixed", "bucket"}
  BY RateAssumption DEF TypeOK
<1>4. /\ win' = [win EXCEPT ![n.resource] =
                  [w \in Windows |-> Charged(win[n.resource][w], n.amount)]]
      /\ life' = [life EXCEPT ![n.resource] =
                  [life[n.resource] EXCEPT !.consumed =
                     SaturatingAdd(life[n.resource].consumed, n.amount)]]
  BY DEF CommitEntry
<1> HIDE DEF n
<1>5. \A w \in Windows : Charged(win[n.resource][w], n.amount) \in Window
  BY <1>2, <1>3, ChargedIs DEF TypeOK
<1>6. [life[n.resource] EXCEPT !.consumed =
         SaturatingAdd(life[n.resource].consumed, n.amount)] \in Lifetime
  <2>1. life[n.resource] \in Lifetime
    BY <1>2 DEF TypeOK
  <2>2. SaturatingAdd(life[n.resource].consumed, n.amount) \in U32
    BY <1>2, <2>1, SaturatingSum DEF Lifetime
  <2> QED
    BY <2>1, <2>2 DEF Lifetime
<1>7. /\ win' \in [Resources -> [Windows -> Window]]
      /\ life' \in [Resources -> Lifetime]
  BY <1>2, <1>4, <1>5, <1>6 DEF TypeOK
<1>8. /\ \A w \in Windows :
           win'[n.resource][w] = Charged(win[n.resource][w], n.amount)
      /\ \A r \in Resources \ {n.resource} :
           win'[r] = win[r] /\ life'[r] = life[r]
      /\ life'[n.resource] =
           [life[n.resource] EXCEPT !.consumed =
              SaturatingAdd(life[n.resource].consumed, n.amount)]
  BY <1>2, <1>4 DEF TypeOK
<1> QED
  BY <1>1, <1>7, <1>8 DEF n

(* The window set_rate_limit writes. *)
LEMMA FreshWindow ==
    ASSUME TypeOK, NEW r \in Resources, NEW w \in Windows, NEW limit \in U32
    PROVE  LET f == [start |-> clock, dur |-> Duration[w], limit |-> limit,
                     consumed |-> IF impl = "fixed" THEN 0
                                  ELSE (limit * Q) % Modulus]
           IN  f \in Window /\ f.consumed =< IF impl = "fixed" THEN limit
                                             ELSE limit * Q
<1>1. limit * Q \in Nat /\ limit \in Nat
  BY ProductNat, RateAssumption DEF U32
<1>2. (limit * Q) % Modulus \in U32 /\ (limit * Q) % Modulus =< limit * Q
  BY <1>1, Truncated
<1>3. clock \in U32 /\ Duration[w] \in U32 /\ 0 \in U32
  BY RateAssumption DEF TypeOK, U32
<1> QED
  BY <1>1, <1>2, <1>3 DEF Window

(* Every call and every millisecond keeps the types. *)
LEMMA RateTypeStep == TypeOK /\ [Next]_vars => TypeOK'
<1> SUFFICES ASSUME TypeOK, [Next]_vars PROVE TypeOK'
  OBVIOUS
<1>1. CASE Reinit
  BY <1>1, NothingTyped DEF Reinit, TypeOK
<1>2. ASSUME NEW c \in RateCalls, SetRateLimit(c[1], c[2], c[3]) PROVE TypeOK'
  <2> DEFINE f == [start |-> clock, dur |-> Duration[c[2]], limit |-> c[3],
                   consumed |-> IF impl = "fixed" THEN 0
                                ELSE (c[3] * Q) % Modulus]
  <2>1. c[1] \in Resources /\ c[2] \in Windows /\ c[3] \in U32
    BY RateAssumption
  <2>2. f \in Window
    BY <2>1, FreshWindow
  <2>3. win' = [win EXCEPT ![c[1]][c[2]] = f]
    BY <1>2 DEF SetRateLimit
  <2> HIDE DEF f
  <2>4. win' \in [Resources -> [Windows -> Window]]
    BY <2>1, <2>2, <2>3 DEF TypeOK
  <2> QED
    BY <1>2, <2>4 DEF SetRateLimit, TypeOK
<1>3. ASSUME NEW c \in LifetimeCalls, SetLifetimeLimit(c[1], c[2])
      PROVE  TypeOK'
  <2>1. c[1] \in Resources /\ c[2] \in U32
    BY RateAssumption
  <2> QED
    BY <1>3, <2>1 DEF SetLifetimeLimit, TypeOK, Lifetime
<1>4. ASSUME NEW o, NEW full, Check(o, full) PROVE TypeOK'
  BY <1>4, RolledTable DEF Check, TypeOK
<1>5. ASSUME NEW o \in Ops, EnterAdmitted(o) PROVE TypeOK'
  <2>1. Limited(o) \in Seq(Need)
    <3>1. NeedList[o] \in Seq(Need)
      BY RateAssumption, Zenon DEF Need
    <3> QED
      BY <3>1 DEF Limited
  <2>2. win' \in [Resources -> [Windows -> Window]]
    BY <1>5, RolledTable DEF EnterAdmitted
  <2> QED
    BY <1>5, <2>1, <2>2 DEF EnterAdmitted, TypeOK
<1>6. CASE CommitEntry
  <2>1. obs' \in Observer \cup {Nobody}
    <3>1. Head(todo) \in Need
      BY <1>6, CommitIs
    <3>2. Head(todo).amount \in Nat
      BY <3>1, RateAssumption DEF Need, U32
    <3>3. ASSUME obs # Nobody
          PROVE  [obs EXCEPT !.sum = @ + Head(todo).amount] \in Observer
      <4>1. obs \in Observer
        BY <3>3 DEF TypeOK
      <4> QED
        BY <3>2, <4>1 DEF Observer
    <3> QED
      BY <1>6, <3>3 DEF CommitEntry, TypeOK
  <2>2. Tail(todo) \in Seq(Need)
    BY <1>6, HeadOfTodo DEF CommitEntry
  <2> QED
    BY <1>6, <2>1, <2>2, CommitIs DEF CommitEntry, TypeOK
<1>7. CASE Tick
  <2>1. clock' \in U32
    <3>1. clock + 1 \in Nat
      BY RateAssumption DEF TypeOK, U32
    <3> QED
      BY <1>7, <3>1, Truncated DEF Tick
  <2>2. obs' \in Observer \cup {Nobody}
    <3>1. ASSUME obs # Nobody, obs.left # 1
          PROVE  [obs EXCEPT !.left = @ - 1] \in Observer
      <4>1. obs \in Observer
        BY <3>1 DEF TypeOK
      <4>2. obs.left - 1 \in U32 \ {0}
        BY <3>1, <4>1, RateAssumption DEF Observer, U32
      <4> QED
        BY <4>1, <4>2 DEF Observer
    <3> QED
      BY <1>7, <3>1 DEF Tick, TypeOK
  <2> QED
    BY <1>7, <2>1, <2>2 DEF Tick, TypeOK
<1>8. ASSUME NEW r \in Resources, NEW w \in Windows, Observe(r, w)
      PROVE  TypeOK'
  <2>1. win[r][w].dur \in U32 \ {0}
    BY <1>8 DEF Observe, TypeOK, Window, Unlimited
  <2> QED
    BY <1>8, <2>1 DEF Observe, TypeOK, Observer
<1>9. CASE UNCHANGED vars
  BY <1>9 DEF vars, TypeOK
<1> QED
  BY <1>1, <1>2, <1>3, <1>4, <1>5, <1>6, <1>7, <1>8, <1>9 DEF Next

(* Windows, lifetimes and what is left to commit keep their C types, for   *)
(* every width of the counters; only the observer counts without bound.    *)
THEOREM RateTypeCorrect == Spec => []TypeOK
<1>1. Init => TypeOK
  BY NothingTyped DEF Init, TypeOK
<1> QED
  BY <1>1, RateTypeStep, PTL DEF Spec

-----------------------------------------------------------------------------
(* Limits.  The commit does not ask again, so the limits rest on what is   *)
(* still to be committed having room without another roll of its windows:  *)
(* check has rolled them, and the entries name different resources.        *)

Within(x) == ~Unlimited(x) =>
                 x.consumed =< IF impl = "fixed" THEN x.limit ELSE Cap(x)

HasRoom(n) ==
    /\ LET l == life[n.resource]
       IN  l.limit # 0 => l.consumed + n.amount =< l.limit
    /\ \A w \in Windows :
         LET x == win[n.resource][w]
         IN  ~Unlimited(x) => IF impl = "fixed"
                              THEN x.consumed + n.amount =< x.limit
                              ELSE n.amount * Q =< x.consumed

TodoDistinct ==
    \A i, j \in 1 .. Len(todo) : todo[i].resource = todo[j].resource => i = j

RateInv ==
    /\ TypeOK
    /\ \A r \in Resources, w \in Windows : Within(win[r][w])
    /\ TodoDistinct
    /\ \A i \in 1 .. Len(todo) : HasRoom(todo[i])

(* Rolling a window keeps it within its limit. *)
LEMMA RolledWithin ==
    ASSUME TypeOK, NEW x \in Window, Within(x)
    PROVE  Within(Rolled(x))
<1>1. clock \in U32 /\ impl \in {"fixed", "bucket"}
  BY RateAssumption DEF TypeOK
<1>2. /\ Rolled(x).limit = x.limit /\ Rolled(x).dur = x.dur
      /\ Unlimited(x) => Rolled(x) = x
      /\ (~Unlimited(x) /\ impl = "fixed") =>
           Rolled(x) = x \/ Rolled(x).consumed = 0
      /\ (~Unlimited(x) /\ impl = "bucket") => Rolled(x).consumed =< Cap(x)
  BY <1>1, RolledIs
<1>3. Unlimited(Rolled(x)) <=> Unlimited(x)
  BY <1>2 DEF Unlimited
<1>4. Cap(Rolled(x)) = Cap(x)
  BY <1>2 DEF Cap
<1>5. 0 =< x.limit
  BY RateAssumption DEF Window, U32
<1> QED
  BY <1>1, <1>2, <1>3, <1>4, <1>5 DEF Within

(* So does charging an entry that has room. *)
LEMMA ChargedWithin ==
    ASSUME TypeOK, NEW n \in Need, HasRoom(n), NEW w \in Windows
    PROVE  Within(Charged(win[n.resource][w], n.amount))
<1> DEFINE x == win[n.resource][w]
           y == Charged(x, n.amount)
           z == Rolled(x)
<1>1. clock \in U32 /\ impl \in {"fixed", "bucket"}
  BY RateAssumption DEF TypeOK
<1>2. x \in Window /\ n.amount \in U32
  BY DEF TypeOK, Need
<1>3. ~Unlimited(x) => IF impl = "fixed" THEN x.consumed + n.amount =< x.limit
                                         ELSE n.amount * Q =< x.consumed
  BY DEF HasRoom
<1> HIDE DEF x
<1>4. /\ z \in Window
      /\ (~Unlimited(x) /\ impl = "fixed") => z = x \/ z.consumed = 0
      /\ (~Unlimited(x) /\ impl = "bucket") => z.consumed =< Cap(x)
  BY <1>1, <1>2, RolledIs
<1>5. /\ y.limit = x.limit /\ y.dur = x.dur
      /\ (~Unlimited(x) /\ impl = "fixed") =>
           y.consumed = SaturatingAdd(z.consumed, n.amount)
      /\ (~Unlimited(x) /\ impl = "bucket") =>
           y.consumed = IF z.consumed >= n.amount * Q
                        THEN z.consumed - n.amount * Q ELSE 0
  BY <1>1, <1>2, ChargedIs
<1> HIDE DEF y, z
<1>6. (Unlimited(y) <=> Unlimited(x)) /\ Cap(y) = Cap(x)
  BY <1>5 DEF Unlimited, Cap
<1>7. CASE Unlimited(x)
  BY <1>6, <1>7 DEF Within, x, y
<1>8. CASE ~Unlimited(x) /\ impl = "fixed"
  <2>1. x.consumed \in Nat /\ z.consumed \in U32 /\ n.amount \in Nat
        /\ x.limit \in Nat
    BY <1>2, <1>4, RateAssumption DEF Window, U32
  <2>2. y.consumed =< z.consumed + n.amount /\ y.consumed \in U32
    BY <1>2, <1>5, <1>8, <2>1, SaturatingSum
  <2>3. z.consumed + n.amount =< x.limit
    BY <1>3, <1>4, <1>8, <2>1, RateAssumption DEF U32
  <2>4. y.consumed =< y.limit
    BY <1>5, <2>1, <2>2, <2>3, RateAssumption DEF U32
  <2> QED
    BY <1>8, <2>4 DEF Within, x, y
<1>9. CASE ~Unlimited(x) /\ impl = "bucket"
  <2> DEFINE p == n.amount * Q
             k == Cap(x)
  <2>1. z.consumed \in Nat /\ p \in Nat /\ k \in Nat
    <3>1. z.consumed \in Nat
      BY <1>4, RateAssumption DEF Window, U32
    <3>2. n.amount \in Nat /\ Q \in Nat /\ x \in Window
      BY <1>1, <1>2, RateAssumption DEF U32
    <3>3. p \in Nat
      BY <3>2, ProductNat
    <3>4. k \in Nat
      BY <1>1, <1>9, <3>2, RefillType
    <3> QED
      BY <3>1, <3>3, <3>4
  <2>2. z.consumed =< k /\ y.consumed = IF z.consumed >= p
                                        THEN z.consumed - p ELSE 0
    BY <1>4, <1>5, <1>9
  <2> HIDE DEF p, k
  <2>3. y.consumed =< k
    BY <2>1, <2>2
  <2> QED
    BY <1>6, <1>9, <2>3 DEF Within, x, y, k
<1> QED
  BY <1>1, <1>7, <1>8, <1>9

(* Nobody refused: the rate stage has rolled every window of the list. *)
LEMMA AdmittedRolls ==
    ASSUME TypeOK, NEW o \in Ops, EnterAdmitted(o)
    PROVE  \A i \in 1 .. Len(Limited(o)), w \in Windows :
              LET r == Limited(o)[i].resource
              IN  r \in Resources => win'[r][w] = Rolled(win[r][w])
<1> DEFINE k == Len(Limited(o))
<1>1. NeedList[o] \in Seq(Need)
  BY RateAssumption, Zenon DEF Need
<1>2. k \in Nat
  BY <1>1 DEF Limited
<1>3. {i \in 1 .. k : i = 0 \/ Blocked(Limited(o)[i])} \cup {k + 1} = {k + 1}
  BY <1>2 DEF EnterAdmitted
<1>4. RefusingEntry(o, 0) = k + 1
  BY <1>2, <1>3, MinOfOne DEF RefusingEntry
<1>5. \A i \in 1 .. k, w \in Windows : Reached(o, 0, Limited(o)[i].resource, w)
  BY <1>2, <1>4 DEF Reached
<1> QED
  BY <1>5 DEF EnterAdmitted, RollReached

(* What an admitted enter will commit has room in the windows it left. *)
LEMMA AdmittedRoom ==
    ASSUME TypeOK, NEW o \in Ops, EnterAdmitted(o),
           NEW i \in 1 .. Len(Limited(o)), Limited(o) \in Seq(Need)
    PROVE  HasRoom(Limited(o)[i])'
<1> DEFINE n == Limited(o)[i]
           r == n.resource
<1>1. n \in Need
  OBVIOUS
<1>2. ~Blocked(n) /\ life' = life /\ impl' = impl
  BY DEF EnterAdmitted
<1>3. \A w \in Windows : r \in Resources => win'[r][w] = Rolled(win[r][w])
  BY AdmittedRolls
<1> HIDE DEF n
<1>4. r \in Resources /\ n.amount \in U32
  BY <1>1 DEF Need
<1>5. clock \in U32 /\ impl \in {"fixed", "bucket"}
  BY RateAssumption DEF TypeOK
<1>6. life[r] \in Lifetime
  BY <1>4 DEF TypeOK
<1>7. life[r].limit # 0 => life[r].consumed + n.amount =< life[r].limit
  BY <1>2, <1>4, <1>6, RateAssumption
     DEF Blocked, LifetimeBlocks, Lifetime, U32
<1>8. ASSUME NEW w \in Windows, ~Unlimited(win'[r][w])
      PROVE  IF impl = "fixed"
             THEN win'[r][w].consumed + n.amount =< win'[r][w].limit
             ELSE n.amount * Q =< win'[r][w].consumed
  <2> DEFINE x == win[r][w]
  <2>1. x \in Window
    BY <1>4 DEF TypeOK
  <2>2. win'[r][w] = Rolled(x)
    BY <1>3, <1>4
  <2>3. Admits(x, n.amount)
    BY <1>2 DEF Blocked, BlockingWindows
  <2> HIDE DEF x
  <2>4. Rolled(x).limit = x.limit /\ Rolled(x).dur = x.dur
    BY <1>5, <2>1, RolledIs
  <2>5. ~Unlimited(x)
    BY <1>8, <2>2, <2>4 DEF Unlimited
  <2>6. IF impl = "fixed" THEN Rolled(x).consumed + n.amount =< x.limit
                          ELSE Rolled(x).consumed >= n.amount * Q
    BY <2>3, <2>5 DEF Admits
  <2>7. Rolled(x).consumed \in Nat /\ n.amount * Q \in Nat
    <3>1. Rolled(x) \in Window
      BY <1>5, <2>1, RolledIs
    <3> QED
      BY <1>4, <3>1, ProductNat, RateAssumption DEF Window, U32
  <2> DEFINE p == n.amount * Q
  <2>8. p \in Nat /\ (impl = "fixed" \/ Rolled(x).consumed >= p)
    BY <2>6, <2>7
  <2> HIDE DEF p
  <2>9. impl = "fixed" \/ p =< Rolled(x).consumed
    BY <2>7, <2>8
  <2> QED
    BY <2>2, <2>4, <2>6, <2>9 DEF p
<1>9. HasRoom(n)'
  BY <1>2, <1>7, <1>8 DEF HasRoom
<1> QED
  BY <1>9 DEF n

(* Before loxbudget_init, and after it, no window is limited. *)
LEMMA UnsetWithin == Unlimited(NoWindow) /\ Within(NoWindow)
  BY DEF Unlimited, NoWindow, Within

(* The limits of the windows survive every step. *)
LEMMA WithinStep ==
    ASSUME RateInv, [Next]_vars, NEW r \in Resources, NEW w \in Windows
    PROVE  Within(win[r][w])'
<1>0. TypeOK /\ TypeOK'
  BY RateTypeStep DEF RateInv
<1>1. win[r][w] \in Window /\ Within(win[r][w])
  BY <1>0 DEF TypeOK, RateInv
<1>2. ASSUME UNCHANGED <<win, impl>> PROVE Within(win[r][w])'
  BY <1>1, <1>2 DEF Within
<1>3. CASE Reinit
  BY <1>3, UnsetWithin DEF Reinit, Within
<1>4. ASSUME NEW c \in RateCalls, SetRateLimit(c[1], c[2], c[3])
      PROVE  Within(win[r][w])'
  <2> DEFINE f == [start |-> clock, dur |-> Duration[c[2]], limit |-> c[3],
                   consumed |-> IF impl = "fixed" THEN 0
                                ELSE (c[3] * Q) % Modulus]
  <2>1. c[1] \in Resources /\ c[2] \in Windows /\ c[3] \in U32
    BY RateAssumption
  <2>2. /\ f.consumed =< IF impl = "fixed" THEN c[3] ELSE c[3] * Q
        /\ f.limit = c[3]
    BY <1>0, <2>1, FreshWindow
  <2>3. win' = [win EXCEPT ![c[1]][c[2]] = f] /\ impl' = impl
    BY <1>4 DEF SetRateLimit
  <2> HIDE DEF f
  <2>4. win'[r][w] = f \/ win'[r][w] = win[r][w]
    BY <1>0, <2>1, <2>3 DEF TypeOK
  <2>5. Within(f)
    BY <2>2 DEF Within, Cap
  <2> QED
    BY <1>1, <2>3, <2>4, <2>5 DEF Within
<1>5. ASSUME NEW o, NEW full, RollReached(o, full), impl' = impl
      PROVE  Within(win[r][w])'
  <2>1. win'[r][w] = win[r][w] \/ win'[r][w] = Rolled(win[r][w])
    BY <1>0, <1>5, RolledTable
  <2>2. Within(Rolled(win[r][w]))
    BY <1>0, <1>1, RolledWithin
  <2>3. Within(win'[r][w])
    BY <1>1, <2>1, <2>2
  <2> QED
    BY <1>5, <2>3 DEF Within
<1>6. CASE CommitEntry
  <2> DEFINE n == Head(todo)
  <2>1. n \in Need /\ n = todo[1] /\ 1 \in 1 .. Len(todo)
    BY <1>0, <1>6, HeadOfTodo DEF CommitEntry
  <2>2. HasRoom(n)
    BY <2>1 DEF RateInv
  <2>3. win'[r][w] = IF r = n.resource
                     THEN Charged(win[r][w], n.amount) ELSE win[r][w]
    BY <1>0, <1>6, CommitIs
  <2> HIDE DEF n
  <2>4. r = n.resource => Within(Charged(win[r][w], n.amount))
    BY <1>0, <2>1, <2>2, ChargedWithin
  <2>5. Within(win'[r][w])
    BY <1>1, <2>3, <2>4
  <2> QED
    BY <1>6, <2>5 DEF CommitEntry, Within
<1>7. CASE UNCHANGED vars
  BY <1>2, <1>7 DEF vars
<1> QED
  BY <1>2, <1>3, <1>4, <1>5, <1>6, <1>7 DEF Next, SetLifetimeLimit, Check,
     EnterAdmitted, Tick, Observe

(* What is left to commit keeps its room until its turn comes. *)
LEMMA PendingStep ==
    ASSUME RateInv, [Next]_vars
    PROVE  TodoDistinct' /\ \A i \in 1 .. Len(todo') : HasRoom(todo[i])'
<1>0. TypeOK /\ TypeOK' /\ TodoDistinct
      /\ \A i \in 1 .. Len(todo) : HasRoom(todo[i])
  BY RateTypeStep DEF RateInv
<1>1. ASSUME todo' = <<>>
      PROVE  TodoDistinct' /\ \A i \in 1 .. Len(todo') : HasRoom(todo[i])'
  BY <1>1 DEF TodoDistinct
<1>2. ASSUME UNCHANGED <<todo, win, life, impl>>
      PROVE  TodoDistinct' /\ \A i \in 1 .. Len(todo') : HasRoom(todo[i])'
  BY <1>0, <1>2 DEF TodoDistinct, HasRoom
<1>3. ASSUME NEW o \in Ops, EnterAdmitted(o)
      PROVE  TodoDistinct' /\ \A i \in 1 .. Len(todo') : HasRoom(todo[i])'
  <2>1. NeedList[o] \in Seq(Need)
    BY RateAssumption, Zenon DEF Need
  <2>2. Limited(o) \in Seq(Need) /\ todo' = Limited(o)
    BY <1>3, <2>1 DEF EnterAdmitted, Limited
  <2>3. \A i, j \in 1 .. Len(Limited(o)) :
          Limited(o)[i].resource = Limited(o)[j].resource => i = j
    BY RateAssumption DEF Limited
  <2>4. TodoDistinct'
    BY <2>2, <2>3 DEF TodoDistinct
  <2>5. \A i \in 1 .. Len(Limited(o)) : HasRoom(Limited(o)[i])'
    BY <1>0, <1>3, <2>2, AdmittedRoom
  <2> QED
    BY <2>2, <2>4, <2>5 DEF HasRoom
<1>4. CASE CommitEntry
  <2> DEFINE n == Head(todo)
  <2>1. /\ n = todo[1] /\ Len(todo) \in Nat \ {0}
        /\ todo' = Tail(todo) /\ Len(Tail(todo)) = Len(todo) - 1
        /\ \A i \in 1 .. Len(Tail(todo)) : Tail(todo)[i] = todo[i + 1]
        /\ todo \in Seq(Need)
    BY <1>0, <1>4, HeadOfTodo DEF CommitEntry, TypeOK
  <2>2. \A r \in Resources \ {n.resource} :
          win'[r] = win[r] /\ life'[r] = life[r]
    BY <1>0, <1>4, CommitIs
  <2>3. impl' = impl
    BY <1>4 DEF CommitEntry
  <2> HIDE DEF n
  <2>4. ASSUME NEW i \in 1 .. Len(todo')
        PROVE  /\ i + 1 \in 1 .. Len(todo) /\ todo'[i] = todo[i + 1]
               /\ todo'[i].resource \in Resources \ {n.resource}
    <3>1. i + 1 \in 1 .. Len(todo) /\ todo'[i] = todo[i + 1] /\ i + 1 # 1
          /\ 1 \in 1 .. Len(todo)
      BY <2>1
    <3>2. todo[i + 1] \in Need
      BY <2>1, <3>1
    <3>3. todo[i + 1].resource # n.resource
      BY <1>0, <2>1, <3>1 DEF TodoDistinct
    <3> QED
      BY <3>1, <3>2, <3>3 DEF Need
  <2>5. TodoDistinct'
    <3> SUFFICES ASSUME NEW i \in 1 .. Len(todo'), NEW j \in 1 .. Len(todo'),
                        todo'[i].resource = todo'[j].resource
                 PROVE  i = j
      BY DEF TodoDistinct
    <3>1. i + 1 = j + 1
      BY <1>0, <2>4 DEF TodoDistinct
    <3> QED
      BY <2>1, <3>1
  <2>6. ASSUME NEW i \in 1 .. Len(todo') PROVE HasRoom(todo[i])'
    <3> DEFINE q == todo'[i]
    <3>1. HasRoom(q) /\ q.resource \in Resources \ {n.resource}
      BY <1>0, <2>4, <2>6
    <3> HIDE DEF q
    <3>2. win'[q.resource] = win[q.resource] /\ life'[q.resource] = life[q.resource]
      BY <2>2, <3>1
    <3> QED
      BY <2>3, <3>1, <3>2 DEF HasRoom, q
  <2> QED
    BY <2>5, <2>6
<1>5. CASE UNCHANGED vars
  BY <1>2, <1>5 DEF vars
<1> QED
  BY <1>1, <1>2, <1>3, <1>4, <1>5 DEF Next, Reinit, SetRateLimit,
     SetLifetimeLimit, Check, Tick, Observe

(* The inductive invariant of the rate theorems. *)
LEMMA RateInvariant == Spec => []RateInv
<1>1. Init => RateInv
  <2> SUFFICES ASSUME Init PROVE RateInv
    OBVIOUS
  <2>1. TypeOK
    BY NothingTyped DEF Init, TypeOK
  <2>2. \A r \in Resources, w \in Windows : Within(win[r][w])
    BY UnsetWithin DEF Init
  <2> QED
    BY <2>1, <2>2 DEF Init, RateInv, TodoDistinct
<1>2. RateInv /\ [Next]_vars => RateInv'
  BY RateTypeStep, WithinStep, PendingStep DEF RateInv
<1> QED
  BY <1>1, <1>2, PTL DEF Spec

(* No window counts more than its limit and no bucket holds more than its  *)
(* size, for every clock, also where the fixed point overflows uint32_t.   *)
THEOREM WindowsWithinLimit == Spec => []WithinLimit
<1>1. RateInv => WithinLimit
  BY DEF RateInv, WithinLimit, Within
<1> QED
  BY <1>1, RateInvariant, PTL

(* Time passing between the check and the commit of an entry never takes   *)
(* its room in a fixed window away.                                        *)
THEOREM CommitsHaveRoom == Spec => []CommitHasRoom
<1>1. ASSUME RateInv, impl = "fixed", NEW i \in 1 .. Len(todo),
             NEW w \in Windows
      PROVE  Admits(win[todo[i].resource][w], todo[i].amount)
  <2> DEFINE n == todo[i]
             x == win[n.resource][w]
  <2>1. n \in Need /\ clock \in U32 /\ HasRoom(n)
    BY <1>1 DEF RateInv, TypeOK
  <2>2. x \in Window /\ n.amount \in Nat
    BY <1>1, <2>1, RateAssumption DEF RateInv, TypeOK, Need, U32
  <2>3. ~Unlimited(x) => x.consumed + n.amount =< x.limit
    BY <1>1, <2>1 DEF HasRoom
  <2> HIDE DEF n, x
  <2>4. ~Unlimited(x) => Rolled(x) = x \/ Rolled(x).consumed = 0
    BY <1>1, <2>1, <2>2, RolledIs
  <2>5. x.consumed \in Nat /\ x.limit \in Nat
    BY <2>2, RateAssumption DEF Window, U32
  <2>6. ~Unlimited(x) => Rolled(x).consumed + n.amount =< x.limit
    BY <2>2, <2>3, <2>4, <2>5
  <2>7. Admits(x, n.amount)
    BY <1>1, <2>6 DEF Admits
  <2> QED
    BY <2>7 DEF n, x
<1>2. RateInv => CommitHasRoom
  BY <1>1 DEF CommitHasRoom
<1> QED
  BY <1>2, RateInvariant, PTL

(* No grant passes the lifetime limit, and nothing but init gives back.    *)
THEOREM LifetimeLimitHolds == Spec => LifetimeHolds
<1>1. ASSUME RateInv, [Next]_vars, ~Reinit, NEW r \in Resources,
             life'[r].consumed # life[r].consumed
      PROVE  /\ life'[r].consumed > life[r].consumed
             /\ life[r].limit = 0 \/ life'[r].consumed =< life[r].limit
  <2>1. ~UNCHANGED life
    BY <1>1
  <2>3. ASSUME NEW c \in LifetimeCalls, SetLifetimeLimit(c[1], c[2])
        PROVE  FALSE
    <3>1. life \in [Resources -> Lifetime]
      BY <1>1 DEF RateInv, TypeOK
    <3> QED
      BY <1>1, <2>3, <3>1 DEF SetLifetimeLimit, Lifetime
  <2>4. CASE CommitEntry
    <3> DEFINE n == Head(todo)
    <3>1. n \in Need /\ n = todo[1] /\ 1 \in 1 .. Len(todo)
      BY <1>1, <2>4, HeadOfTodo DEF CommitEntry, RateInv
    <3>2. HasRoom(n)
      BY <1>1, <3>1 DEF RateInv
    <3>3. r = n.resource /\ life'[r] = [life[r] EXCEPT
             !.consumed = SaturatingAdd(@, n.amount)]
      BY <1>1, <2>4, CommitIs DEF RateInv
    <3> HIDE DEF n
    <3>4. life[r] \in Lifetime /\ n.amount \in U32
      BY <1>1, <3>1 DEF RateInv, TypeOK, Need
    <3>5. life'[r].consumed = SaturatingAdd(life[r].consumed, n.amount)
      BY <3>3, <3>4 DEF Lifetime
    <3>6. /\ life[r].consumed =< life'[r].consumed
          /\ life'[r].consumed =< life[r].consumed + n.amount
          /\ life'[r].consumed \in U32
      BY <3>4, <3>5, SaturatingSum DEF Lifetime
    <3>7. life[r].consumed < life'[r].consumed
      BY <1>1, <3>4, <3>6, RateAssumption DEF Lifetime, U32
    <3>8. life[r].limit # 0 => life'[r].consumed =< life[r].limit
      BY <3>2, <3>3, <3>4, <3>6, RateAssumption DEF HasRoom, Lifetime, U32
    <3> QED
      BY <3>7, <3>8
  <2> QED
    BY <1>1, <2>1, <2>3, <2>4 DEF Next, SetRateLimit, Check,
       EnterAdmitted, Tick, Observe, vars
<1>2. ASSUME RateInv, [Next]_vars, ~Reinit, NEW r \in Resources
      PROVE  /\ life'[r].consumed >= life[r].consumed
             /\ life'[r].consumed > life[r].consumed =>
                  life[r].limit = 0 \/ life'[r].consumed =< life[r].limit
  <2>1. life[r] \in Lifetime /\ life'[r] \in Lifetime
    BY <1>2, RateTypeStep DEF RateInv, TypeOK
  <2>2. life[r].consumed \in Int /\ life'[r].consumed \in Int
    BY <2>1, RateAssumption DEF Lifetime, U32
  <2> QED
    BY <1>1, <1>2, <2>2
<1>3. RateInv /\ [Next]_vars =>
        [Reinit \/ \A r \in Resources :
           /\ life'[r].consumed >= life[r].consumed
           /\ life'[r].consumed > life[r].consumed =>
                 life[r].limit = 0 \/ life'[r].consumed =< life[r].limit]_vars
  BY <1>2
<1> QED
  BY <1>3, RateInvariant, PTL DEF Spec, LifetimeHolds

-----------------------------------------------------------------------------
(* Bursts.  An interval of a window's duration holds at most one restart   *)
(* of a fixed window; a bucket gains in it at most its size, by refills    *)
(* that are rounded down one by one.                                       *)

(* The age of a window, without the remainder. *)
LEMMA ElapsedIs ==
    ASSUME NEW m \in Nat, NEW a \in 0 .. m, NEW b \in 0 .. m
    PROVE  (a - b) % (m + 1) = IF b =< a THEN a - b ELSE a - b + (m + 1)
<1>1. CASE b =< a
  BY <1>1
<1>2. CASE ~(b =< a)
  <2> DEFINE v == a - b + (m + 1)
  <2>1. v \in 0 .. m /\ a - b = v - (m + 1)
    BY <1>2
  <2> HIDE DEF v
  <2>2. (v - (m + 1)) % (m + 1) = v
    BY <2>1
  <2> QED
    BY <1>2, <2>1, <2>2 DEF v
<1> QED
  BY <1>1, <1>2

(* A millisecond makes a window one millisecond older, also when the clock *)
(* wraps, until its age does.                                              *)
LEMMA ElapsedTick ==
    ASSUME clock \in U32, NEW x \in Window, Elapsed(x) < U32_MAX,
           clock' = (clock + 1) % Modulus
    PROVE  Elapsed(x)' = Elapsed(x) + 1
<1> DEFINE m == U32_MAX
           b == x.start
<1>1. m \in Nat /\ clock \in 0 .. m /\ b \in 0 .. m
  BY RateAssumption DEF U32, Window
<1>2. Elapsed(x) = (clock - b) % (m + 1) /\ Elapsed(x)' = (clock' - b) % (m + 1)
  BY DEF Elapsed, Modulus
<1>3. Elapsed(x) = IF b =< clock THEN clock - b ELSE clock - b + (m + 1)
  BY <1>1, <1>2, ElapsedIs
<1>4. clock' = IF clock = m THEN 0 ELSE clock + 1
  <2>1. clock = m => (clock + 1) % (m + 1) = 0
    BY <1>1
  <2>2. clock # m => (clock + 1) % (m + 1) = clock + 1
    BY <1>1
  <2> QED
    BY <2>1, <2>2 DEF Modulus
<1>5. clock' \in 0 .. m
  BY <1>1, <1>4
<1>6. Elapsed(x)' = IF b =< clock' THEN clock' - b ELSE clock' - b + (m + 1)
  BY <1>1, <1>2, <1>5, ElapsedIs
<1> HIDE DEF m, b
<1> QED
  BY <1>1, <1>3, <1>4, <1>5, <1>6 DEF m

(* A window that starts now is new. *)
LEMMA ElapsedNow ==
    ASSUME clock \in U32, NEW x \in Window, x.start = clock
    PROVE  Elapsed(x) = 0
<1>1. clock - x.start = 0 /\ U32_MAX \in Nat
  BY RateAssumption DEF U32
<1> QED
  BY <1>1 DEF Elapsed, Modulus

(* A refill keeps the account of a bucket: s granted, c left, k the size,  *)
(* d the duration, l of it left, e since the last refill, g gained.        *)
LEMMA MeterRefill ==
    ASSUME NEW s \in Nat, NEW c \in Nat, NEW k \in Nat, NEW d \in Nat,
           NEW l \in Nat, NEW e \in Nat, NEW g \in Nat, NEW c2 \in Nat,
           e + l =< d, d * g =< k * e, c2 =< c + g,
           d * (s + c) =< k * d + k * (d - l - e)
    PROVE  d * (s + c2) =< k * d + k * (d - l)
<1>1. d * (s + c2) =< d * (s + c + g)
  BY ProductGrows
<1>2. d * (s + c + g) = d * (s + c) + d * g
  OBVIOUS
<1>3. k * (d - l) = k * (d - l - e) + k * e
  OBVIOUS
<1>4. /\ d * (s + c2) \in Nat /\ d * (s + c) \in Nat /\ d * g \in Nat
      /\ k * d \in Nat /\ k * e \in Nat
      /\ d - l - e \in Nat /\ k * (d - l - e) \in Nat
  BY ProductNat
<1> QED
  BY <1>1, <1>2, <1>3, <1>4

(* What the account says of the sum. *)
LEMMA MeterBound ==
    ASSUME NEW s \in Nat, NEW c \in Nat, NEW k \in Nat, NEW d \in Nat \ {0},
           NEW u \in Nat, u =< d,
           d * (s + c) =< k * d + k * u
    PROVE  s =< 2 * k
<1>1. k * u =< k * d
  BY ProductGrows
<1>2. d * s =< d * (s + c)
  BY ProductGrows
<1>3. /\ d * s \in Nat /\ d * (s + c) \in Nat /\ k * d \in Nat /\ k * u \in Nat
  BY ProductNat
<1>4. d * s =< 2 * (k * d)
  BY <1>1, <1>2, <1>3
<1>5. ASSUME s > 2 * k PROVE FALSE
  <2>1. d * (2 * k + 1) =< d * s
    BY <1>5, ProductGrows
  <2>2. d * (2 * k + 1) = 2 * (k * d) + d
    OBVIOUS
  <2> QED
    BY <1>3, <1>4, <2>1, <2>2
<1> QED
  BY <1>5

(* What holds of a window x that is watched for left more milliseconds and *)
(* has granted sum since.                                                  *)
Watched(x, left, sum) ==
    /\ ~Unlimited(x) /\ left =< x.dur
    /\ impl = "fixed" =>
         \/ sum =< x.consumed
         \/ Elapsed(x) + left =< x.dur /\ sum =< x.limit + x.consumed
    /\ impl = "bucket" =>
         \/ sum = 0
         \/ /\ Elapsed(x) + left =< x.dur
            /\ x.dur * (sum * Q + x.consumed) =<
                 Cap(x) * x.dur + Cap(x) * (x.dur - left - Elapsed(x))

ObsInv == obs # Nobody => Watched(win[obs.res][obs.win], obs.left, obs.sum)

(* The bucket's account after a roll, and after a charge, which are made   *)
(* in the same millisecond.                                                *)
LEMMA BucketRolled ==
    ASSUME TypeOK, impl = "bucket", NEW x \in Window,
           NEW left \in Nat \ {0}, NEW sum \in Nat,
           Watched(x, left, sum), sum # 0
    PROVE  x.dur * (sum * Q + Rolled(x).consumed) =<
             Cap(x) * x.dur + Cap(x) * (x.dur - left)
<1>1. clock \in U32 /\ impl \in {"fixed", "bucket"} /\ ~Unlimited(x)
  BY DEF TypeOK, Watched
<1>2. /\ sum * Q \in Nat /\ x.consumed \in Nat /\ x.dur \in Nat
      /\ Cap(x) \in Nat /\ Refill(x) \in Nat
      /\ x.dur * Refill(x) =< Cap(x) * Elapsed(x)
  BY <1>1, ProductNat, RefillType, RateAssumption DEF Window, U32
<1>3. Elapsed(x) \in Nat
  BY <1>1, ElapsedType, RateAssumption DEF U32
<1>4. /\ Elapsed(x) + left =< x.dur
      /\ x.dur * (sum * Q + x.consumed) =<
           Cap(x) * x.dur + Cap(x) * (x.dur - left - Elapsed(x))
  BY DEF Watched
<1>5. Rolled(x).consumed =< x.consumed + Refill(x) /\ Rolled(x) \in Window
  BY <1>1, RolledIs
<1>6. Rolled(x).consumed \in Nat
  BY <1>5, RateAssumption DEF Window, U32
<1> DEFINE S == sum * Q
           k == Cap(x)
           e == Elapsed(x)
           g == Refill(x)
           d == x.dur
           c == x.consumed
           c2 == Rolled(x).consumed
<1> HIDE DEF S, k, e, g, d, c, c2
<1>7. d * (S + c2) =< k * d + k * (d - left)
  BY <1>2, <1>3, <1>4, <1>5, <1>6, MeterRefill DEF S, k, e, g, d, c, c2
<1> QED
  BY <1>7 DEF S, k, d, c2

(* A roll does not disturb what is watched. *)
LEMMA WatchedRolled ==
    ASSUME TypeOK, NEW x \in Window, Within(x), NEW left \in Nat \ {0},
           NEW sum \in Nat, Watched(x, left, sum)
    PROVE  Watched(Rolled(x), left, sum)
<1> DEFINE y == Rolled(x)
<1>1. clock \in U32 /\ impl \in {"fixed", "bucket"} /\ ~Unlimited(x)
  BY RateAssumption DEF TypeOK, Watched
<1>2. /\ y \in Window /\ y.limit = x.limit /\ y.dur = x.dur
      /\ impl = "fixed" => IF Elapsed(x) < x.dur THEN y = x
                           ELSE y.start = clock /\ y.consumed = 0
      /\ impl = "bucket" => y.start = clock
  BY <1>1, RolledIs
<1>3. ~Unlimited(y) /\ Cap(y) = Cap(x)
  BY <1>1, <1>2 DEF Unlimited, Cap
<1>4. left =< y.dur /\ left =< x.dur
  BY <1>2 DEF Watched
<1>5. y.start = clock => Elapsed(y) = 0
  BY <1>1, <1>2, ElapsedNow
<1>6. /\ x.limit \in Nat /\ x.dur \in Nat /\ x.consumed \in Nat
      /\ Elapsed(x) \in Nat
  BY <1>1, ElapsedType, RateAssumption DEF Window, U32
<1>7. CASE impl = "fixed"
  <2>1. CASE Elapsed(x) < x.dur
    BY <1>2, <1>7, <2>1
  <2>2. CASE ~(Elapsed(x) < x.dur)
    <3>1. sum =< x.consumed
      BY <1>6, <1>7, <2>2 DEF Watched
    <3>2. x.consumed =< x.limit
      BY <1>1, <1>7 DEF Within
    <3>3. y.consumed = 0 /\ Elapsed(y) = 0
      BY <1>2, <1>5, <1>7, <2>2
    <3> HIDE DEF y
    <3>4. Elapsed(y) + left =< y.dur /\ sum =< y.limit + y.consumed
      BY <1>2, <1>4, <1>6, <3>1, <3>2, <3>3
    <3>5. Watched(y, left, sum)
      BY <1>3, <1>4, <1>7, <3>4 DEF Watched
    <3> QED
      BY <3>5 DEF y
  <2> QED
    BY <2>1, <2>2
<1>8. CASE impl = "bucket"
  <2>1. CASE sum = 0
    BY <1>3, <1>4, <1>8, <2>1 DEF Watched
  <2>2. CASE sum # 0
    <3>1. x.dur * (sum * Q + y.consumed) =<
            Cap(x) * x.dur + Cap(x) * (x.dur - left)
      BY <1>8, <2>2, BucketRolled
    <3>2. Elapsed(y) = 0
      BY <1>2, <1>5, <1>8
    <3> HIDE DEF y
    <3>3. y.dur - left - Elapsed(y) = x.dur - left
      BY <1>2, <1>6, <3>2
    <3>4. y.dur * (sum * Q + y.consumed) =<
            Cap(y) * y.dur + Cap(y) * (y.dur - left - Elapsed(y))
      BY <1>2, <1>3, <3>1, <3>3
    <3>5. Elapsed(y) + left =< y.dur
      BY <1>4, <3>2
    <3>6. Watched(y, left, sum)
      BY <1>3, <1>4, <1>8, <3>4, <3>5 DEF Watched
    <3> QED
      BY <3>6 DEF y
  <2> QED
    BY <2>1, <2>2
<1> QED
  BY <1>1, <1>7, <1>8

(* The account of a bucket after a charge: tokens are taken, or, when the  *)
(* last roll truncated them away, were there when check asked.             *)
LEMMA BucketCharged ==
    ASSUME TypeOK, impl = "bucket", NEW x \in Window, Within(x),
           NEW left \in Nat \ {0}, NEW sum \in Nat,
           Watched(x, left, sum), NEW a \in U32, a * Q =< x.consumed
    PROVE  x.dur * ((sum + a) * Q + Charged(x, a).consumed) =<
             Cap(x) * x.dur + Cap(x) * (x.dur - left)
<1> DEFINE z == Rolled(x)
           y == Charged(x, a)
           p == a * Q
           S == sum * Q
           k == Cap(x)
           d == x.dur
           t == d - left
           e == Elapsed(x)
<1>1. clock \in U32 /\ impl \in {"fixed", "bucket"} /\ ~Unlimited(x)
  BY DEF TypeOK, Watched
<1>2. a \in Nat /\ x.consumed \in Nat /\ x.consumed =< k
  BY <1>1, RateAssumption DEF Window, U32, Within
<1>3. p \in Nat /\ S \in Nat /\ d \in Nat /\ k \in Nat /\ left =< d
  BY <1>1, <1>2, ProductNat, RefillType, RateAssumption
     DEF Window, U32, Watched
<1>4. z.consumed \in Nat /\ z.consumed =< k
  <2>1. z \in Window /\ z.consumed =< k
    BY <1>1, RolledIs
  <2> QED
    BY <2>1, RateAssumption DEF Window, U32
<1>5. y.consumed = IF z.consumed >= p THEN z.consumed - p ELSE 0
  BY <1>1, ChargedIs
<1>6. (sum + a) * Q = S + p
  BY <1>2, RateAssumption
<1>7. sum # 0 => d * (S + z.consumed) =< k * d + k * t
  BY BucketRolled
<1>8. sum # 0 => /\ e + left =< d
                 /\ d * (S + x.consumed) =< k * d + k * (d - left - e)
  BY DEF Watched
<1>9. e \in Nat
  BY <1>1, ElapsedType, RateAssumption DEF U32
<1>10. sum = 0 => S = 0
  BY RateAssumption
<1>11. p =< x.consumed
  OBVIOUS
<1> HIDE DEF S, k, d, z, y, p, e
<1>12. t \in Nat /\ k * t \in Nat /\ k * d \in Nat
  BY <1>3, ProductNat
<1>13. CASE z.consumed >= p
  <2>1. S + p + y.consumed = S + z.consumed
    BY <1>3, <1>4, <1>5, <1>13
  <2>2. CASE sum = 0
    <3>1. d * z.consumed =< d * k
      BY <1>3, <1>4, ProductGrows
    <3>2. d * (S + z.consumed) =< k * d + k * t
      BY <1>3, <1>4, <1>10, <1>12, <2>2, <3>1
    <3> QED
      BY <1>6, <2>1, <3>2 DEF S, k, d, z, y
  <2>3. CASE sum # 0
    BY <1>6, <1>7, <2>1, <2>3 DEF S, k, d, z, y
  <2> QED
    BY <2>2, <2>3
<1>14. CASE ~(z.consumed >= p)
  <2>1. S + p + y.consumed = S + p
    BY <1>3, <1>5, <1>14
  <2>2. CASE sum = 0
    <3>1. p =< k
      BY <1>2, <1>3, <1>11
    <3>2. d * p =< d * k
      BY <1>3, <3>1, ProductGrows
    <3>3. d * (S + p) =< k * d + k * t
      BY <1>3, <1>10, <1>12, <2>2, <3>2
    <3> QED
      BY <1>6, <2>1, <3>3 DEF S, k, d, y
  <2>3. CASE sum # 0
    <3>1. d * (S + p) =< d * (S + x.consumed)
      BY <1>2, <1>3, <1>11, ProductGrows
    <3>2. d - left - e \in Nat /\ d - left - e =< t
      BY <1>3, <1>8, <1>9, <2>3
    <3>3. k * (d - left - e) =< k * t
      BY <1>3, <1>12, <3>2, ProductGrows
    <3>4. /\ d * (S + p) \in Nat /\ d * (S + x.consumed) \in Nat
          /\ k * (d - left - e) \in Nat
      BY <1>2, <1>3, <3>2, ProductNat
    <3>5. d * (S + p) =< k * d + k * t
      BY <1>8, <1>12, <2>3, <3>1, <3>3, <3>4
    <3> QED
      BY <1>6, <2>1, <3>5 DEF S, k, d, y
  <2> QED
    BY <2>2, <2>3
<1> QED
  BY <1>13, <1>14

(* A charge adds to what is granted and to what the window counts alike.   *)
LEMMA WatchedCharged ==
    ASSUME TypeOK, NEW x \in Window, Within(x), NEW left \in Nat \ {0},
           NEW sum \in Nat, Watched(x, left, sum), NEW a \in U32,
           IF impl = "fixed" THEN x.consumed + a =< x.limit
                             ELSE a * Q =< x.consumed
    PROVE  Watched(Charged(x, a), left, sum + a)
<1> DEFINE y == Charged(x, a)
           z == Rolled(x)
<1>1. clock \in U32 /\ impl \in {"fixed", "bucket"} /\ ~Unlimited(x)
  BY RateAssumption DEF TypeOK, Watched
<1>2. /\ y \in Window /\ y.limit = x.limit /\ y.dur = x.dur
      /\ y.start = z.start
      /\ impl = "fixed" => y.consumed = SaturatingAdd(z.consumed, a)
  BY <1>1, ChargedIs
<1>3. /\ z \in Window /\ z.limit = x.limit /\ z.dur = x.dur
      /\ impl = "fixed" => z = x \/ z.consumed = 0
      /\ impl = "bucket" => z.start = clock
  BY <1>1, RolledIs
<1>4. Watched(z, left, sum)
  BY WatchedRolled
<1>5. ~Unlimited(y) /\ Cap(y) = Cap(x) /\ left =< y.dur
  BY <1>1, <1>2 DEF Unlimited, Cap, Watched
<1>6. Elapsed(y) = Elapsed(z)
  BY <1>2 DEF Elapsed
<1>7. CASE impl = "fixed"
  <2>1. /\ z.consumed \in Nat /\ z.consumed \in U32 /\ a \in Nat
        /\ x.consumed \in Nat /\ x.limit \in U32 /\ x.limit \in Nat
    BY <1>3, RateAssumption DEF Window, U32
  <2>2. z.consumed + a =< x.limit
    BY <1>3, <1>7, <2>1
  <2>3. y.consumed = z.consumed + a
    BY <1>2, <1>7, <2>1, <2>2, SaturatingSum
  <2>4. \/ sum =< z.consumed
        \/ Elapsed(z) + left =< z.dur /\ sum =< z.limit + z.consumed
    BY <1>4, <1>7 DEF Watched
  <2> HIDE DEF y, z
  <2>5. \/ sum + a =< y.consumed
        \/ Elapsed(y) + left =< y.dur /\ sum + a =< y.limit + y.consumed
    BY <1>2, <1>3, <1>6, <2>1, <2>3, <2>4
  <2>6. Watched(y, left, sum + a)
    BY <1>5, <1>7, <2>5 DEF Watched
  <2> QED
    BY <2>6 DEF y
<1>8. CASE impl = "bucket"
  <2>1. x.dur * ((sum + a) * Q + y.consumed) =<
          Cap(x) * x.dur + Cap(x) * (x.dur - left)
    BY <1>8, BucketCharged
  <2>2. Elapsed(y) = 0
    BY <1>1, <1>3, <1>6, <1>8, ElapsedNow
  <2>3. x.dur \in Nat
    BY RateAssumption DEF Window, U32
  <2> HIDE DEF y, z
  <2>4. y.dur - left - Elapsed(y) = x.dur - left
    BY <1>2, <2>2, <2>3
  <2>5. y.dur * ((sum + a) * Q + y.consumed) =<
          Cap(y) * y.dur + Cap(y) * (y.dur - left - Elapsed(y))
    BY <1>2, <1>5, <2>1, <2>4
  <2>6. Elapsed(y) + left =< y.dur
    BY <1>5, <2>2
  <2>7. Watched(y, left, sum + a)
    BY <1>5, <1>8, <2>5, <2>6 DEF Watched
  <2> QED
    BY <2>7 DEF y
<1> QED
  BY <1>1, <1>7, <1>8

(* The window that is watched. *)
LEMMA ObserverSees ==
    ASSUME RateInv, ObsInv, obs # Nobody
    PROVE  /\ obs \in Observer /\ win[obs.res][obs.win] \in Window
           /\ Within(win[obs.res][obs.win])
           /\ Watched(win[obs.res][obs.win], obs.left, obs.sum)
           /\ obs.left \in Nat \ {0} /\ obs.sum \in Nat
           /\ obs.res \in Resources /\ obs.win \in Windows
<1>1. obs \in Observer
  BY DEF RateInv, TypeOK
<1>2. /\ obs.res \in Resources /\ obs.win \in Windows
      /\ obs.left \in U32 \ {0} /\ obs.sum \in Nat
  BY <1>1 DEF Observer
<1>3. obs.left \in Nat \ {0}
  BY <1>2, RateAssumption DEF U32
<1>4. /\ win[obs.res][obs.win] \in Window
      /\ Within(win[obs.res][obs.win])
  BY <1>2 DEF RateInv, TypeOK
<1> QED
  BY <1>1, <1>2, <1>3, <1>4 DEF ObsInv

(* No step takes more from a window than its account in the interval. *)
LEMMA ObsStep == RateInv /\ ObsInv /\ [Next]_vars => ObsInv'
<1> SUFFICES ASSUME RateInv, ObsInv, [Next]_vars, obs' # Nobody
             PROVE  Watched(win[obs.res][obs.win], obs.left, obs.sum)'
  BY DEF ObsInv
<1>0. TypeOK /\ TypeOK' /\ obs' \in Observer
  BY RateTypeStep DEF RateInv, TypeOK
<1>1. ASSUME obs # Nobody
      PROVE  /\ obs \in Observer /\ win[obs.res][obs.win] \in Window
             /\ Within(win[obs.res][obs.win])
             /\ Watched(win[obs.res][obs.win], obs.left, obs.sum)
             /\ obs.left \in Nat \ {0} /\ obs.sum \in Nat
             /\ obs.res \in Resources /\ obs.win \in Windows
  BY <1>1, ObserverSees
<1>2. ASSUME UNCHANGED <<impl, clock, win, obs>>
      PROVE  Watched(win[obs.res][obs.win], obs.left, obs.sum)'
  BY <1>1, <1>2 DEF Watched, Elapsed
<1>3. ASSUME NEW o, NEW full, RollReached(o, full), UNCHANGED <<impl, clock, obs>>
      PROVE  Watched(win[obs.res][obs.win], obs.left, obs.sum)'
  <2> DEFINE x == win[obs.res][obs.win]
             y == win'[obs.res][obs.win]
  <2>1. y = x \/ y = Rolled(x)
    BY <1>0, <1>1, <1>3, RolledTable
  <2>2. Watched(Rolled(x), obs.left, obs.sum)
    BY <1>0, <1>1, <1>3, WatchedRolled
  <2>3. Watched(y, obs.left, obs.sum)
    BY <1>1, <1>3, <2>1, <2>2
  <2> QED
    BY <1>3, <2>3 DEF Watched, Elapsed
<1>4. CASE CommitEntry
  <2> DEFINE n == Head(todo)
             x == win[obs.res][obs.win]
             y == win'[obs.res][obs.win]
  <2>1. obs # Nobody
    BY <1>4 DEF CommitEntry
  <2>2. n \in Need /\ n = todo[1] /\ 1 \in 1 .. Len(todo)
    BY <1>0, <1>4, HeadOfTodo DEF CommitEntry
  <2>3. HasRoom(n) /\ n.amount \in U32
    BY <2>2 DEF RateInv, Need
  <2>4. /\ obs.res = n.resource => y = Charged(x, n.amount)
        /\ obs.res # n.resource => y = x
    BY <1>0, <1>1, <1>4, <2>1, CommitIs
  <2>5. UNCHANGED <<impl, clock>>
    BY <1>4 DEF CommitEntry
  <2>6. CASE obs.res = n.resource
    <3>1. obs' = [obs EXCEPT !.sum = @ + n.amount]
      BY <1>4, <2>1, <2>6 DEF CommitEntry
    <3>2. /\ obs'.res = obs.res /\ obs'.win = obs.win
          /\ obs'.left = obs.left /\ obs'.sum = obs.sum + n.amount
      BY <1>1, <2>1, <3>1 DEF Observer
    <3>3. IF impl = "fixed" THEN x.consumed + n.amount =< x.limit
                            ELSE n.amount * Q =< x.consumed
      BY <1>1, <2>1, <2>3, <2>6 DEF HasRoom, Watched
    <3> HIDE DEF n
    <3>4. Watched(Charged(x, n.amount), obs.left, obs.sum + n.amount)
      BY <1>0, <1>1, <2>1, <2>3, <3>3, WatchedCharged
    <3>5. Watched(y, obs'.left, obs'.sum)
      BY <2>4, <2>6, <3>2, <3>4
    <3> QED
      BY <2>5, <3>2, <3>5 DEF Watched, Elapsed
  <2>7. CASE obs.res # n.resource
    <3>1. obs' = obs
      BY <1>4, <2>7 DEF CommitEntry
    <3>2. Watched(y, obs.left, obs.sum)
      BY <1>1, <2>1, <2>4, <2>7
    <3> QED
      BY <2>5, <3>1, <3>2 DEF Watched, Elapsed
  <2> QED
    BY <2>6, <2>7
<1>5. CASE Tick
  <2> DEFINE x == win[obs.res][obs.win]
             l == obs.left
  <2>1. obs # Nobody /\ obs.left # 1 /\ obs' = [obs EXCEPT !.left = @ - 1]
        /\ UNCHANGED <<impl, win>> /\ clock' = (clock + 1) % Modulus
    BY <1>5 DEF Tick
  <2>2. /\ obs'.res = obs.res /\ obs'.win = obs.win
        /\ obs'.left = l - 1 /\ obs'.sum = obs.sum
    BY <1>1, <2>1 DEF Observer
  <2>3. x \in Window /\ Watched(x, l, obs.sum) /\ l \in Nat \ {0, 1}
    BY <1>1, <2>1
  <2> HIDE DEF x, l
  <2>4. /\ x.dur \in Nat /\ x.dur =< U32_MAX /\ clock \in U32
        /\ Elapsed(x) \in Nat
    BY <1>0, <2>3, ElapsedType, RateAssumption DEF Window, U32, TypeOK
  <2>5. ASSUME Elapsed(x) + l =< x.dur
        PROVE  /\ (clock' - x.start) % Modulus = Elapsed(x) + 1
               /\ ((clock' - x.start) % Modulus) + (l - 1) =< x.dur
               /\ x.dur - (l - 1) - ((clock' - x.start) % Modulus) =
                    x.dur - l - Elapsed(x)
    <3>1. Elapsed(x) < U32_MAX
      BY <2>3, <2>4, <2>5, RateAssumption DEF U32
    <3>2. (clock' - x.start) % Modulus = Elapsed(x) + 1
      <4>1. \A v \in Window : Elapsed(v) < U32_MAX =>
              (clock' - v.start) % Modulus = Elapsed(v) + 1
        BY <2>1, <2>4, ElapsedTick DEF Elapsed
      <4> QED
        BY <2>3, <3>1, <4>1
    <3> DEFINE e2 == (clock' - x.start) % Modulus
    <3>3. e2 = Elapsed(x) + 1
      BY <3>2
    <3> HIDE DEF e2
    <3>4. e2 + (l - 1) =< x.dur /\ x.dur - (l - 1) - e2 = x.dur - l - Elapsed(x)
      BY <2>3, <2>4, <2>5, <3>3
    <3> QED
      BY <3>3, <3>4 DEF e2
  <2>6. l - 1 =< x.dur
    BY <2>3, <2>4 DEF Watched
  <2> QED
    BY <2>1, <2>2, <2>3, <2>5, <2>6 DEF Watched, Elapsed, x
<1>6. ASSUME NEW r \in Resources, NEW w \in Windows, Observe(r, w)
      PROVE  Watched(win[obs.res][obs.win], obs.left, obs.sum)'
  <2> DEFINE x == win[r][w]
  <2>1. /\ ~Unlimited(x) /\ obs' = [res |-> r, win |-> w, left |-> x.dur, sum |-> 0]
        /\ UNCHANGED <<impl, clock, win>>
    BY <1>6 DEF Observe
  <2>2. x.dur \in Nat /\ 0 =< x.consumed
    BY <1>0, RateAssumption DEF TypeOK, Window, U32
  <2> QED
    BY <2>1, <2>2 DEF Watched
<1>7. CASE UNCHANGED vars
  BY <1>2, <1>7 DEF vars
<1> QED
  BY <1>2, <1>3, <1>4, <1>5, <1>6, <1>7 DEF Next, Reinit, SetRateLimit,
     SetLifetimeLimit, Check, EnterAdmitted

(* Twice the limit bounds what any interval of a window's duration grants, *)
(* wherever it starts, whatever is asked when, across the wrap of the      *)
(* clock, and also when the fixed point of a bucket is truncated.          *)
THEOREM BurstsBounded == Spec => []BurstBound
<1>1. ASSUME RateInv, ObsInv, obs # Nobody
      PROVE  obs.sum =< 2 * win[obs.res][obs.win].limit
  <2> DEFINE x == win[obs.res][obs.win]
             l == x.limit
             s == obs.sum
  <2>1. /\ obs \in Observer /\ x \in Window /\ Within(x)
        /\ Watched(x, obs.left, s) /\ s \in Nat /\ obs.left \in Nat \ {0}
    BY <1>1, ObserverSees
  <2>2. clock \in U32 /\ impl \in {"fixed", "bucket"} /\ ~Unlimited(x)
    BY <1>1, <2>1, RateAssumption DEF RateInv, TypeOK, Watched
  <2> HIDE DEF x, s
  <2>3. /\ l \in Nat /\ x.dur \in Nat \ {0} /\ x.consumed \in Nat
        /\ Elapsed(x) \in Nat /\ Q \in Nat \ {0}
    BY <2>1, <2>2, ElapsedType, RateAssumption DEF Window, U32, Unlimited
  <2> HIDE DEF l
  <2>4. CASE impl = "fixed"
    <3>1. x.consumed =< l
      BY <2>1, <2>2, <2>4 DEF Within, l
    <3>2. s =< x.consumed \/ s =< l + x.consumed
      BY <2>1, <2>4 DEF Watched, l
    <3> QED
      BY <2>1, <2>3, <3>1, <3>2 DEF x, l, s
  <2>5. CASE impl = "bucket"
    <3>1. CASE s = 0
      BY <2>3, <3>1 DEF x, l, s
    <3>2. CASE s # 0
      <4> DEFINE u == x.dur - obs.left - Elapsed(x)
                 k == Cap(x)
      <4>1. u \in Nat /\ u =< x.dur
        BY <2>1, <2>3, <2>5, <3>2 DEF Watched
      <4>2. x.dur * (s * Q + x.consumed) =< k * x.dur + k * u
        BY <2>1, <2>5, <3>2 DEF Watched
      <4>3. k = l * Q /\ k \in Nat /\ s * Q \in Nat
        BY <2>1, <2>3, ProductNat DEF Cap, l
      <4> HIDE DEF u, k
      <4>4. s * Q =< 2 * k
        <5> DEFINE t == s * Q
        <5>1. t \in Nat /\ x.dur * (t + x.consumed) =< k * x.dur + k * u
          BY <4>2, <4>3
        <5> HIDE DEF t
        <5>2. t =< 2 * k
          BY <2>3, <4>1, <4>3, <5>1, MeterBound
        <5> QED
          BY <5>2 DEF t
      <4>5. s =< 2 * l
        <5>1. ASSUME s > 2 * l PROVE FALSE
          <6>1. Q * (2 * l + 1) =< Q * s
            BY <2>1, <2>3, <5>1, ProductGrows
          <6>2. Q * (2 * l + 1) = 2 * k + Q /\ Q * s = s * Q
            BY <2>1, <2>3, <4>3
          <6> QED
            BY <2>3, <4>3, <4>4, <6>1, <6>2
        <5> QED
          BY <2>1, <2>3, <5>1
      <4> QED
        BY <4>5 DEF x, l, s
    <3> QED
      BY <3>1, <3>2
  <2> QED
    BY <2>2, <2>4, <2>5
<1>2. Init => ObsInv
  BY DEF Init, ObsInv
<1>3. RateInv /\ ObsInv => BurstBound
  BY <1>1 DEF BurstBound
<1> QED
  BY <1>2, <1>3, ObsStep, RateInvariant, PTL DEF Spec

=============================================================================
