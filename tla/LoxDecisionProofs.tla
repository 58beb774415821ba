-------------------------- MODULE LoxDecisionProofs --------------------------
(***************************************************************************)
(* Facts about the operators of LoxDecision, and about the numbers and     *)
(* sets they are built from, that the proofs of the stateful modules cite. *)
(***************************************************************************)
EXTENDS LoxDecision, FiniteSetTheorems, TLAPS

-----------------------------------------------------------------------------
(* Numbers. *)

(* A nonempty set of natural numbers has its minimum among its elements:   *)
(* what a loop that stops at the first match relies on.                    *)
LEMMA MinIn ==
    ASSUME NEW S \in SUBSET Nat, S # {}
    PROVE  Min(S) \in S /\ \A y \in S : Min(S) <= y
<1>1. PICK x \in S : \A y \in S : <<y, x>> \notin OpToRel(<, Nat)
  BY NatLessThanWellFounded, WFMin, Zenon
<1>2. \A y \in S : ~(y < x)
  BY <1>1, Zenon DEF OpToRel
<1>3. \A y \in S : x <= y
  BY <1>2
<1> QED
  BY <1>3 DEF Min

(* A uint counter increment stays in its width. *)
LEMMA ModRange ==
    ASSUME NEW x \in Nat, NEW m \in Nat
    PROVE  x % (m + 1) \in 0 .. m
  OBVIOUS

(* Below the width, the remainder is the number itself. *)
LEMMA ModSmall ==
    ASSUME NEW m \in Nat, NEW x \in 0 .. m
    PROVE  x % (m + 1) = x
  OBVIOUS

(* Once past the width, the remainder is what is left over. *)
LEMMA ModOver ==
    ASSUME NEW m \in Nat, NEW x \in 0 .. m
    PROVE  (x + (m + 1)) % (m + 1) = x
  OBVIOUS

-----------------------------------------------------------------------------
(* Sums. *)

(* The units of one holder. *)
LEMMA UnitsOfOne ==
    ASSUME NEW c, NEW k \in Nat
    PROVE  /\ IsFiniteSet({c} \X (1 .. k))
           /\ Cardinality({c} \X (1 .. k)) = k
<1>1. IsFiniteSet({c}) /\ Cardinality({c}) = 1
  BY FS_Singleton
<1>2. IsFiniteSet(1 .. k) /\ Cardinality(1 .. k) = k
  BY FS_Interval
<1>3. /\ IsFiniteSet({c} \X (1 .. k))
      /\ Cardinality({c} \X (1 .. k)) = Cardinality({c}) * Cardinality(1 .. k)
  BY <1>1, <1>2, FS_Product, Zenon
<1> QED
  BY <1>1, <1>2, <1>3

(* Finitely many holders have finitely many units. *)
LEMMA UnitsFinite ==
    ASSUME NEW S, IsFiniteSet(S), NEW f \in [S -> Nat]
    PROVE  IsFiniteSet(Units(f))
<1> DEFINE T == {{x} \X (1 .. f[x]) : x \in S}
           g == [x \in S |-> {x} \X (1 .. f[x])]
<1>1. g \in Surjection(S, T)
  BY DEF Surjection
<1>2. IsFiniteSet(T)
  <2> HIDE DEF T, g
  <2> QED
    BY <1>1, FS_Surjection
<1>3. ASSUME NEW t \in T PROVE IsFiniteSet(t)
  <2>1. PICK x \in S : t = {x} \X (1 .. f[x])
    OBVIOUS
  <2>2. f[x] \in Nat
    OBVIOUS
  <2> QED
    BY <2>1, <2>2, UnitsOfOne
<1>4. IsFiniteSet(UNION T)
  <2> HIDE DEF T
  <2> QED
    BY <1>2, <1>3, FS_UNION
<1>5. DOMAIN f = S
  OBVIOUS
<1> QED
  BY <1>4, <1>5 DEF Units

(* One holder's share of a sum, and the rest. *)
LEMMA SumSplit ==
    ASSUME NEW S, IsFiniteSet(S), NEW f \in [S -> Nat], NEW c \in S
    PROVE  LET R == {u \in Units(f) : u[1] # c}
           IN  /\ IsFiniteSet(R) /\ Cardinality(R) \in Nat
               /\ SumOf(f) = Cardinality(R) + f[c]
<1> DEFINE R == {u \in Units(f) : u[1] # c}
           O == {c} \X (1 .. f[c])
<1>1. IsFiniteSet(Units(f))
  BY UnitsFinite
<1>2. IsFiniteSet(R)
  <2>1. R \in SUBSET Units(f)
    OBVIOUS
  <2> QED
    BY <1>1, <2>1, FS_Subset
<1>3. IsFiniteSet(O) /\ Cardinality(O) = f[c]
  BY UnitsOfOne
<1>4. Units(f) = R \cup O
  BY DEF Units
<1>5. R \cap O = {}
  OBVIOUS
<1> HIDE DEF R, O
<1>6. Cardinality(R) \in Nat
  BY <1>2, FS_CardinalityType
<1>7. Cardinality(R \cup O) = Cardinality(R) + Cardinality(O)
                              - Cardinality(R \cap O)
  BY <1>2, <1>3, FS_Union
<1>8. Cardinality(R \cap O) = 0
  BY <1>5, FS_EmptySet
<1>9. SumOf(f) = Cardinality(R) + f[c]
  BY <1>3, <1>4, <1>6, <1>7, <1>8 DEF SumOf
<1> QED
  BY <1>2, <1>6, <1>9 DEF R

(* A sum changes by what one holder's amount changes. *)
LEMMA SumUpdate ==
    ASSUME NEW S, IsFiniteSet(S), NEW f \in [S -> Nat], NEW c \in S,
           NEW a \in Nat
    PROVE  /\ SumOf(f) \in Nat /\ f[c] =< SumOf(f)
           /\ SumOf([f EXCEPT ![c] = a]) = SumOf(f) - f[c] + a
<1> DEFINE g == [f EXCEPT ![c] = a]
<1>1. g \in [S -> Nat] /\ g[c] = a
  OBVIOUS
<1>2. {u \in Units(f) : u[1] # c} = {u \in Units(g) : u[1] # c}
  BY DEF Units
<1> DEFINE m == Cardinality({u \in Units(f) : u[1] # c})
<1>3. m \in Nat /\ SumOf(f) = m + f[c]
  BY SumSplit
<1>4. SumOf(g) = m + a
  <2> HIDE DEF g
  <2>1. SumOf(g) = Cardinality({u \in Units(g) : u[1] # c}) + g[c]
    BY <1>1, SumSplit
  <2> QED
    BY <1>1, <1>2, <2>1
<1> HIDE DEF m, g
<1>5. f[c] \in Nat
  OBVIOUS
<1>6. SumOf(f) \in Nat /\ f[c] =< SumOf(f) /\ SumOf(g) = SumOf(f) - f[c] + a
  BY <1>3, <1>4, <1>5
<1> QED
  BY <1>6 DEF g

(* When nobody has anything the sum is zero. *)
LEMMA SumZero ==
    ASSUME NEW S
    PROVE  SumOf([x \in S |-> 0]) = 0
<1>1. Units([x \in S |-> 0]) = {}
  BY DEF Units
<1> QED
  BY <1>1, FS_EmptySet DEF SumOf

(* A sum that is not zero has somebody who has something. *)
LEMMA SumPositive ==
    ASSUME NEW S, NEW f \in [S -> Nat], SumOf(f) # 0
    PROVE  \E c \in S : f[c] > 0
<1>1. Units(f) # {}
  BY FS_EmptySet DEF SumOf
<1> QED
  BY <1>1 DEF Units

(* A sum of numbers is a number.                                           *)
LEMMA SumNat ==
    ASSUME NEW S, IsFiniteSet(S), NEW f \in [S -> Nat]
    PROVE  SumOf(f) \in Nat
  BY UnitsFinite, FS_CardinalityType DEF SumOf

(* A sum of larger amounts is larger.                                      *)
LEMMA SumMonotone ==
    ASSUME NEW S, IsFiniteSet(S), NEW f \in [S -> Nat], NEW g \in [S -> Nat],
           \A x \in S : f[x] <= g[x]
    PROVE  SumOf(f) <= SumOf(g)
<1>1. Units(f) \subseteq Units(g)
  <2> SUFFICES ASSUME NEW x \in S, NEW k \in 1 .. f[x]
               PROVE  k \in 1 .. g[x]
    BY DEF Units
  <2>1. f[x] \in Nat /\ g[x] \in Nat /\ f[x] <= g[x]
    OBVIOUS
  <2> QED
    BY <2>1
<1>2. IsFiniteSet(Units(g))
  BY UnitsFinite
<1> QED
  BY <1>1, <1>2, FS_Subset DEF SumOf

-----------------------------------------------------------------------------
(* The accounts of a resource. *)

(* loxbudget_available_u16_ is what the limit leaves when usage is within  *)
(* the limit.                                                              *)
LEMMA AvailableExact ==
    ASSUME NEW l \in U16, NEW u \in U16, NEW v \in U16, u + v <= l
    PROVE  Available(l, u, v) = l - u - v
  BY SizesAssumption DEF Available, U16

(* The accounts of one resource are in order. *)
Sound(r) ==
    /\ r.used + r.reserved <= r.limit
    /\ r.used <= r.high_watermark
    /\ r.reserved <= r.high_watermark
    /\ r.high_watermark <= r.limit

(* The commit of an amount that is available keeps the accounts in order   *)
(* and does not wrap.                                                      *)
LEMMA CommitSound ==
    ASSUME NEW r \in Resource, NEW a \in U16, Sound(r),
           r.kind # "STATE" => AvailableOf(r) >= a
    PROVE  CommitNeed(r, a) \in Resource /\ Sound(CommitNeed(r, a))
<1>1. CASE r.kind = "STATE"
  BY <1>1 DEF CommitNeed
<1>2. CASE r.kind = "REUSABLE"
  <2>1. AvailableOf(r) = r.limit - r.used - r.reserved
    BY AvailableExact DEF AvailableOf, Resource, Sound
  <2>2. r.reserved + a \in 0 .. U16_MAX /\ r.used + (r.reserved + a) <= r.limit
    BY <1>2, <2>1, SizesAssumption DEF Resource, Sound, U16
  <2>3. (r.reserved + a) % (U16_MAX + 1) = r.reserved + a
    BY <2>2, ModSmall, SizesAssumption
  <2> DEFINE w == r.reserved + a
             h == IF w > r.high_watermark THEN w ELSE r.high_watermark
  <2>4. CommitNeed(r, a) = [r EXCEPT !.reserved = w, !.high_watermark = h]
    BY <1>2, <2>3 DEF CommitNeed
  <2>5. /\ w \in U16 /\ h \in U16 /\ h <= r.limit
        /\ w <= h /\ r.used <= h /\ r.reserved <= h
    BY <2>2, SizesAssumption DEF Resource, Sound, U16
  <2> HIDE DEF h
  <2>6. CommitNeed(r, a) \in Resource
    BY <2>4, <2>5 DEF Resource
  <2> QED
    BY <2>2, <2>4, <2>5, <2>6 DEF Resource, Sound
<1>3. CASE r.kind = "CONSUMABLE"
  <2>1. AvailableOf(r) = r.limit - r.used - r.reserved
    BY AvailableExact DEF AvailableOf, Resource, Sound
  <2>2. r.used + a \in 0 .. U16_MAX /\ (r.used + a) + r.reserved <= r.limit
    BY <1>3, <2>1, SizesAssumption DEF Resource, Sound, U16
  <2>3. (r.used + a) % (U16_MAX + 1) = r.used + a
    BY <2>2, ModSmall, SizesAssumption
  <2> DEFINE w == r.used + a
             h == IF w > r.high_watermark THEN w ELSE r.high_watermark
  <2>4. CommitNeed(r, a) = [r EXCEPT !.used = w, !.high_watermark = h]
    BY <1>3, <2>3 DEF CommitNeed
  <2>5. /\ w \in U16 /\ h \in U16 /\ h <= r.limit
        /\ w <= h /\ r.used <= h /\ r.reserved <= h
    BY <2>2, SizesAssumption DEF Resource, Sound, U16
  <2> HIDE DEF h
  <2>6. CommitNeed(r, a) \in Resource
    BY <2>4, <2>5 DEF Resource
  <2> QED
    BY <2>2, <2>4, <2>5, <2>6 DEF Resource, Sound
<1> QED
  BY <1>1, <1>2, <1>3 DEF Resource, Kinds

(* Usage stays within the limit when what is committed is available. *)
LEMMA CommitWithin ==
    ASSUME NEW r \in Resource, NEW a \in U16, r.used + r.reserved <= r.limit,
           r.kind # "STATE" => AvailableOf(r) >= a
    PROVE  LET s == CommitNeed(r, a) IN s.used + s.reserved <= s.limit
<1>1. CASE r.kind = "STATE"
  BY <1>1 DEF CommitNeed
<1>2. CASE r.kind # "STATE"
  <2>1. AvailableOf(r) = r.limit - r.used - r.reserved
    BY AvailableExact DEF AvailableOf, Resource
  <2>2. /\ r.reserved + a \in 0 .. U16_MAX /\ r.used + a \in 0 .. U16_MAX
        /\ r.used + (r.reserved + a) <= r.limit
        /\ (r.used + a) + r.reserved <= r.limit
    BY <1>2, <2>1, SizesAssumption DEF Resource, U16
  <2>3. /\ (r.reserved + a) % (U16_MAX + 1) = r.reserved + a
        /\ (r.used + a) % (U16_MAX + 1) = r.used + a
    BY <2>2, ModSmall, SizesAssumption
  <2>4. CASE r.kind = "REUSABLE"
    <3>1. LET s == CommitNeed(r, a)
          IN  s.used = r.used /\ s.limit = r.limit
              /\ s.reserved = r.reserved + a
      BY <2>3, <2>4 DEF CommitNeed, Resource
    <3> QED
      BY <2>2, <3>1
  <2>5. CASE r.kind = "CONSUMABLE"
    <3>1. LET s == CommitNeed(r, a)
          IN  s.used = r.used + a /\ s.limit = r.limit
              /\ s.reserved = r.reserved
      BY <2>3, <2>5 DEF CommitNeed, Resource
    <3> QED
      BY <2>2, <3>1
  <2> QED
    BY <1>2, <2>4, <2>5 DEF Resource, Kinds
<1> QED
  BY <1>1, <1>2

(* The release of any amount keeps the accounts in order. *)
LEMMA ReleaseSound ==
    ASSUME NEW r \in Resource, NEW a \in U16, Sound(r)
    PROVE  ReleaseNeed(r, a) \in Resource /\ Sound(ReleaseNeed(r, a))
  BY SizesAssumption DEF ReleaseNeed, Resource, Sound, U16

(* What is consumed grows by a commit. *)
LEMMA CommitConsumes ==
    ASSUME NEW r \in Resource, NEW a \in U16, Sound(r),
           r.kind # "STATE" => AvailableOf(r) >= a
    PROVE  CommitNeed(r, a).used >= r.used
<1>1. CASE r.kind # "CONSUMABLE"
  BY <1>1 DEF CommitNeed, Resource, Kinds, U16
<1>2. CASE r.kind = "CONSUMABLE"
  <2>1. AvailableOf(r) = r.limit - r.used - r.reserved
    BY AvailableExact DEF AvailableOf, Resource, Sound
  <2>2. r.used + a \in 0 .. U16_MAX
    BY <1>2, <2>1, SizesAssumption DEF Resource, Sound, U16
  <2>3. (r.used + a) % (U16_MAX + 1) = r.used + a
    BY <2>2, ModSmall, SizesAssumption
  <2>4. CommitNeed(r, a).used = r.used + a
    BY <1>2, <2>3 DEF CommitNeed, Resource
  <2> QED
    BY <2>4 DEF Resource, U16
<1> QED
  BY <1>1, <1>2

(* What a commit of an available amount changes: the reserved amount of a  *)
(* reusable resource, by exactly that amount, and nothing of the limit.    *)
LEMMA CommitReserves ==
    ASSUME NEW r \in Resource, NEW a \in U16, Sound(r),
           r.kind # "STATE" => AvailableOf(r) >= a
    PROVE  LET s == CommitNeed(r, a)
           IN  /\ s.kind = r.kind /\ s.limit = r.limit
               /\ s.reserved = r.reserved +
                               (IF r.kind = "REUSABLE" THEN a ELSE 0)
               /\ r.kind = "REUSABLE" => s.used = r.used
<1> DEFINE s == CommitNeed(r, a)
<1>1. s.kind = r.kind /\ s.limit = r.limit
  BY DEF CommitNeed, Resource, Kinds
<1>2. CASE r.kind # "REUSABLE"
  <2>1. s.reserved = r.reserved
    BY <1>2 DEF CommitNeed, Resource, Kinds
  <2>2. r.reserved + 0 = r.reserved
    BY SizesAssumption DEF Resource, U16
  <2> HIDE DEF s
  <2>3. s.reserved = r.reserved + (IF r.kind = "REUSABLE" THEN a ELSE 0)
    BY <1>2, <2>1, <2>2
  <2> QED
    BY <1>1, <1>2, <2>3 DEF s
<1>3. CASE r.kind = "REUSABLE"
  <2>1. AvailableOf(r) = r.limit - r.used - r.reserved
    BY AvailableExact DEF AvailableOf, Resource, Sound
  <2>2. r.reserved + a \in 0 .. U16_MAX
    BY <1>3, <2>1, SizesAssumption DEF Resource, Sound, U16
  <2>3. (r.reserved + a) % (U16_MAX + 1) = r.reserved + a
    BY <2>2, ModSmall, SizesAssumption
  <2>4. s.reserved = r.reserved + a /\ s.used = r.used
    BY <1>3, <2>3 DEF CommitNeed, Resource
  <2> QED
    BY <1>1, <1>3, <2>4
<1> QED
  BY <1>2, <1>3

(* What a release changes: of a reusable resource that has it, the         *)
(* reserved amount, by exactly that amount.                                *)
LEMMA ReleaseReserves ==
    ASSUME NEW r \in Resource, NEW a \in U16,
           r.kind = "REUSABLE" => r.reserved >= a
    PROVE  LET s == ReleaseNeed(r, a)
           IN  /\ s.kind = r.kind /\ s.limit = r.limit /\ s.used = r.used
               /\ s.reserved = r.reserved -
                               (IF r.kind = "REUSABLE" THEN a ELSE 0)
  BY SizesAssumption DEF ReleaseNeed, Resource, U16

-----------------------------------------------------------------------------
(* Decisions. *)

(* A decision that allows has passed every stage of loxbudget_check. *)
LEMMA AllowedPasses ==
    ASSUME NEW p, NEW press, NEW hc, NEW hal, NEW list, NEW res,
           Allowed(ProfileDecision(p, press, hc, hal, list, res).action)
    PROVE  /\ ~PressureBlocks(p, press)
           /\ HalFailures(p, hc, hal) = {}
           /\ NeedFailures(list, res) = {}
<1> DEFINE d == ProfileDecision(p, press, hc, hal, list, res)
<1>1. ~PressureBlocks(p, press)
  <2>1. PressureBlocks(p, press) => ~Allowed(PressureVerdict(p, press).action)
    BY DEF PressureVerdict, PressureBlocks, Verdict, Allowed
  <2> QED
    BY <2>1 DEF ProfileDecision
<1>2. HalFailures(p, hc, hal) = {}
  <2>1. ~Allowed(HalVerdict(p, press, hc, hal).action)
    BY DEF HalVerdict, Verdict, Allowed
  <2> QED
    BY <1>1, <2>1 DEF ProfileDecision
<1>3. NeedFailures(list, res) = {}
  <2>1. \A n : ~Allowed(NeedVerdict(n, res, press).action)
    BY DEF NeedVerdict, NeedDenied, Allowed
  <2> QED
    BY <1>1, <1>2, <2>1 DEF ProfileDecision
<1> QED
  BY <1>1, <1>2, <1>3

(* Phase A refuses nothing that the need list stage lets pass. *)
LEMMA PhaseAFollows ==
    ASSUME NEW n, NEW res, ~NeedFails(n, res)
    PROVE  ~PhaseAFails(n, res)
  BY DEF NeedFails, PhaseAFails

=============================================================================
