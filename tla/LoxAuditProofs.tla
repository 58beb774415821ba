---------------------------- MODULE LoxAuditProofs ----------------------------
(***************************************************************************)
(* Theorems about LoxAudit, for every ring size the library accepts.       *)
(***************************************************************************)
EXTENDS LoxAudit, TLAPS

(* The mask leaves a place of the ring as it is ... *)
LEMMA MaskInside ==
    ASSUME NEW n \in Nat \ {0}, NEW x \in 0 .. n - 1
    PROVE  x % n = x
  OBVIOUS

(* ... takes one past the end to the start ... *)
LEMMA MaskPast ==
    ASSUME NEW n \in Nat \ {0}
    PROVE  n % n = 0
  OBVIOUS

(* ... and one before the start to the end. *)
LEMMA MaskBefore ==
    ASSUME NEW n \in Nat \ {0}, NEW x \in Int, -n <= x, x < 0
    PROVE  x % n = x + n
  OBVIOUS

(* Sizes are natural numbers. *)
LEMMA SizesNat == AuditSizes \cup {0} \subseteq Nat
  BY AuditAssumption

(* Where the i-th newest record is, without the mask. *)
LEMMA PlaceIs ==
    ASSUME audit_size \in Nat \ {0}, audit_head \in 0 .. audit_size - 1,
           NEW i \in 1 .. audit_size
    PROVE  Place(i) = IF i <= audit_head THEN audit_head - i
                                         ELSE audit_head - i + audit_size
<1>1. CASE i <= audit_head
  <2>1. audit_head - i \in 0 .. audit_size - 1
    BY <1>1
  <2> QED
    BY <1>1, <2>1, MaskInside DEF Place, Mask
<1>2. CASE ~(i <= audit_head)
  <2>1. /\ audit_head - i \in Int
        /\ -audit_size <= audit_head - i
        /\ audit_head - i < 0
    BY <1>2
  <2> QED
    BY <1>2, <2>1, MaskBefore DEF Place, Mask
<1> QED
  BY <1>1, <1>2

(* Advancing the head moves every record one place further into the past. *)
LEMMA HeadAdvances ==
    ASSUME audit_size \in Nat \ {0}, audit_head \in 0 .. audit_size - 1,
           audit_size' = audit_size,
           audit_head' = Mask(audit_head + 1)
    PROVE  /\ audit_head' \in 0 .. audit_size - 1
           /\ Place(1)' = audit_head
           /\ \A i \in 1 .. audit_size - 1 :
                /\ Place(i + 1)' = Place(i)
                /\ Place(i) # audit_head
                /\ Place(i) \in 0 .. audit_size - 1
<1>1. audit_head' = IF audit_head + 1 = audit_size THEN 0 ELSE audit_head + 1
  <2>1. CASE audit_head + 1 = audit_size
    BY <2>1, MaskPast DEF Mask
  <2>2. CASE audit_head + 1 # audit_size
    <3>1. audit_head + 1 \in 0 .. audit_size - 1
      BY <2>2
    <3> QED
      BY <2>2, <3>1, MaskInside DEF Mask
  <2> QED
    BY <2>1, <2>2
<1>2. audit_head' \in 0 .. audit_size - 1
  BY <1>1
<1>3. \A i \in 1 .. audit_size :
         Place(i)' = IF i <= audit_head' THEN audit_head' - i
                                         ELSE audit_head' - i + audit_size
  <2> SUFFICES ASSUME NEW i \in 1 .. audit_size
               PROVE  Place(i)' = IF i <= audit_head' THEN audit_head' - i
                                  ELSE audit_head' - i + audit_size
    OBVIOUS
  <2>0. Place(i)' = (audit_head' - i) % audit_size
    BY DEF Place, Mask
  <2>1. CASE i <= audit_head'
    <3>1. audit_head' - i \in 0 .. audit_size - 1
      BY <2>1, <1>2
    <3> QED
      BY <2>0, <2>1, <3>1, MaskInside
  <2>2. CASE ~(i <= audit_head')
    <3>1. /\ audit_head' - i \in Int
          /\ -audit_size <= audit_head' - i
          /\ audit_head' - i < 0
      BY <2>2, <1>2
    <3> QED
      BY <2>0, <2>2, <3>1, MaskBefore
  <2> QED
    BY <2>1, <2>2
<1>4. Place(1)' = audit_head
  BY <1>1, <1>3
<1>5. ASSUME NEW i \in 1 .. audit_size - 1
      PROVE  /\ Place(i + 1)' = Place(i)
             /\ Place(i) # audit_head
             /\ Place(i) \in 0 .. audit_size - 1
  <2>1. Place(i) = IF i <= audit_head THEN audit_head - i
                                      ELSE audit_head - i + audit_size
    BY PlaceIs
  <2>2. Place(i + 1)' = IF i + 1 <= audit_head' THEN audit_head' - (i + 1)
                        ELSE audit_head' - (i + 1) + audit_size
    BY <1>3
  <2> QED
    BY <1>1, <2>1, <2>2
<1> QED
  BY <1>2, <1>4, <1>5

-----------------------------------------------------------------------------
(* The ring holds decisions in all the places a reader is shown. *)

AuditInv ==
    /\ TypeOK
    /\ magic => \A i \in 1 .. audit_count : ring[Place(i)] \in Decisions

(* In a ring of some size the head is one of its places. *)
LEMMA HeadInRing ==
    ASSUME TypeOK, audit_size # 0
    PROVE  audit_size \in Nat \ {0} /\ audit_head \in 0 .. audit_size - 1
  BY SizesNat DEF TypeOK

(* loxbudget_audit_record_ puts its decision first and keeps the others    *)
(* in their order, as many as the ring has places for.                     *)
LEMMA RecordShifts ==
    ASSUME AuditInv, NEW d \in Decisions, AuditRecord(d)
    PROVE  /\ TypeOK'
           /\ audit_count' = IF audit_count < audit_size
                             THEN audit_count + 1 ELSE audit_count
           /\ ring'[Place(1)'] = d
           /\ \A i \in 1 .. audit_size - 1 : ring'[Place(i + 1)'] = ring[Place(i)]
<1>1. audit_size \in Nat \ {0} /\ audit_head \in 0 .. audit_size - 1
  BY HeadInRing DEF AuditInv, AuditRecord
<1>2. /\ audit_head' \in 0 .. audit_size - 1
      /\ Place(1)' = audit_head
      /\ \A i \in 1 .. audit_size - 1 :
            /\ Place(i + 1)' = Place(i)
            /\ Place(i) # audit_head
            /\ Place(i) \in 0 .. audit_size - 1
  BY <1>1, HeadAdvances DEF AuditRecord
<1>3. /\ ring \in [0 .. audit_size - 1 -> Decisions \cup {ZeroRecord}]
      /\ ring' = [ring EXCEPT ![audit_head] = d]
  BY DEF AuditInv, TypeOK, AuditRecord
<1>4. ring'[Place(1)'] = d
  BY <1>1, <1>2, <1>3
<1>5. \A i \in 1 .. audit_size - 1 : ring'[Place(i + 1)'] = ring[Place(i)]
  BY <1>2, <1>3
<1>6. audit_count' = IF audit_count < audit_size THEN audit_count + 1
                                                 ELSE audit_count
  BY DEF AuditRecord, CountAfter
<1>7. TypeOK'
  <2>1. audit_count' \in 0 .. audit_size'
    BY <1>1, <1>6 DEF AuditInv, TypeOK, AuditRecord
  <2>2. audit_head' \in 0 .. audit_size' - 1
    BY <1>2 DEF AuditRecord
  <2>3. ring' \in [0 .. audit_size' - 1 -> Decisions \cup {ZeroRecord}]
    BY <1>3 DEF AuditRecord
  <2> QED
    BY <2>1, <2>2, <2>3 DEF AuditInv, TypeOK, AuditRecord
<1> QED
  BY <1>4, <1>5, <1>6, <1>7

(* Before the first loxbudget_init there is no ring. *)
LEMMA AuditInit == Init => AuditInv
<1> SUFFICES ASSUME Init PROVE AuditInv
  OBVIOUS
<1>1. ~magic /\ magic \in BOOLEAN
  BY DEF Init
<1>2. /\ audit_size \in AuditSizes \cup {0} /\ IsPow2OrZero(audit_size)
      /\ audit_head = 0
  BY DEF Init, IsPow2OrZero
<1>3. audit_count \in 0 .. audit_size
  BY DEF Init
<1>4. out \in Seq(Decisions)
  BY DEF Init
<1> QED
  BY <1>1, <1>2, <1>3, <1>4, Zenon DEF AuditInv, TypeOK

(* Every call keeps the shown places filled with decisions. *)
LEMMA AuditStep == AuditInv /\ [Next]_vars => AuditInv'
<1> SUFFICES ASSUME AuditInv, [Next]_vars PROVE AuditInv'
  OBVIOUS
<1> USE SizesNat
<1>1. ASSUME NEW n \in AuditSizes, InitOk(n) PROVE AuditInv'
  <2>1. TypeOK'
    BY <1>1 DEF InitOk, AuditInv, TypeOK, Cleared
  <2> QED
    BY <1>1, <2>1 DEF InitOk, AuditInv
<1>2. CASE InitNoSpace
  <2>1. ~magic' /\ magic' \in BOOLEAN
    BY <1>2 DEF InitNoSpace
  <2>2. /\ audit_size' \in AuditSizes \cup {0} /\ IsPow2OrZero(audit_size)'
        /\ audit_head' = 0
    BY <1>2 DEF InitNoSpace, IsPow2OrZero
  <2>3. audit_count' \in 0 .. audit_size'
    BY <1>2 DEF InitNoSpace
  <2>4. out' \in Seq(Decisions)
    BY <1>2 DEF InitNoSpace, AuditInv, TypeOK
  <2> QED
    BY <2>1, <2>2, <2>3, <2>4, Zenon DEF AuditInv, TypeOK
<1>3. CASE Deinit
  BY <1>3 DEF Deinit, AuditInv, TypeOK
<1>4. ASSUME NEW d \in Decisions, AuditRecord(d) PROVE AuditInv'
  <2>1. /\ TypeOK'
        /\ audit_count' = IF audit_count < audit_size
                          THEN audit_count + 1 ELSE audit_count
        /\ ring'[Place(1)'] = d
        /\ \A i \in 1 .. audit_size - 1 : ring'[Place(i + 1)'] = ring[Place(i)]
    BY <1>4, RecordShifts
  <2>2. audit_size \in Nat \ {0} /\ audit_count \in 0 .. audit_size
    BY <1>4 DEF AuditInv, TypeOK, AuditRecord
  <2>3. ASSUME NEW i \in 1 .. audit_count' PROVE ring'[Place(i)'] \in Decisions
    <3>1. CASE i = 1
      BY <2>1, <3>1
    <3>2. CASE i # 1
      <4>1. i - 1 \in 1 .. audit_size - 1 /\ i - 1 \in 1 .. audit_count
        BY <2>1, <2>2, <3>2
      <4>2. ring'[Place((i - 1) + 1)'] = ring[Place(i - 1)]
        BY <2>1, <4>1
      <4>3. (i - 1) + 1 = i
        BY <2>1, <2>2
      <4> QED
        BY <4>1, <4>2, <4>3, <1>4 DEF AuditInv, AuditRecord
    <3> QED
      BY <3>1, <3>2
  <2> QED
    BY <2>1, <2>3 DEF AuditInv
<1>5. CASE AuditClear
  <2>1. TypeOK'
    BY <1>5 DEF AuditClear, AuditInv, TypeOK, Cleared
  <2> QED
    BY <1>5, <2>1 DEF AuditClear, AuditInv
<1>6. ASSUME NEW n \in MaxRecords, AuditGetRecent(n) PROVE AuditInv'
  <2>1. out' \in Seq(Decisions)
    <3>1. CASE audit_size = 0
      BY <1>6, <3>1 DEF AuditGetRecent
    <3>2. CASE audit_size # 0
      <4> DEFINE m == IF n < audit_count THEN n ELSE audit_count
      <4>1. m \in Nat /\ 1 .. m \subseteq 1 .. audit_count
        BY <1>6, AuditAssumption DEF AuditInv, TypeOK
      <4>2. \A i \in 1 .. m : ring[Place(i)] \in Decisions
        BY <1>6, <4>1 DEF AuditInv, AuditGetRecent
      <4>3. out' = [i \in 1 .. m |-> ring[Place(i)]]
        BY <1>6, <3>2 DEF AuditGetRecent, Newest
      <4> HIDE DEF m
      <4> QED
        BY <4>1, <4>2, <4>3
    <3> QED
      BY <3>1, <3>2
  <2>2. UNCHANGED <<magic, audit_size, audit_head, audit_count, ring>>
    BY <1>6 DEF AuditGetRecent
  <2>3. TypeOK'
    BY <2>1, <2>2 DEF AuditInv, TypeOK
  <2> QED
    BY <2>2, <2>3 DEF AuditInv, Place, Mask
<1>7. CASE UNCHANGED vars
  BY <1>7 DEF vars, AuditInv, TypeOK, Place, Mask
<1> QED
  BY <1>1, <1>2, <1>3, <1>4, <1>5, <1>6, <1>7 DEF Next

(* What a reader is shown are decisions: the inductive invariant. *)
THEOREM AuditInvariant == Spec => []AuditInv
  BY AuditInit, AuditStep, PTL DEF Spec

(* The head and the count stay within the ring, and no reader obtains a    *)
(* zeroed record.                                                          *)
THEOREM AuditTypeCorrect == Spec => []TypeOK
<1>1. AuditInv => TypeOK
  BY DEF AuditInv
<1> QED
  BY <1>1, AuditInvariant, PTL

-----------------------------------------------------------------------------
(* The ring implements the log. *)

(* The n first of a sequence. *)
LEMMA FirstIs ==
    ASSUME NEW S, NEW s \in Seq(S), NEW n \in Nat
    PROVE  Log!First(n, s) =
             [i \in 1 .. (IF n <= Len(s) THEN n ELSE Len(s)) |-> s[i]]
<1>1. Log!Min({n, Len(s)}) = IF n <= Len(s) THEN n ELSE Len(s)
  BY DEF Log!Min
<1>2. SubSeq(s, 1, Log!Min({n, Len(s)})) =
        [i \in 1 .. Log!Min({n, Len(s)}) |-> s[i]]
  BY <1>1
<1> QED
  BY <1>1, <1>2 DEF Log!First

(* What the reader would be shown is a sequence of decisions. *)
LEMMA NewestIsSeq ==
    ASSUME AuditInv, magic
    PROVE  /\ Newest(audit_count) \in Seq(Decisions)
           /\ Len(Newest(audit_count)) = audit_count
           /\ \A i \in 1 .. audit_count :
                 Newest(audit_count)[i] = ring[Place(i)]
<1>1. audit_count \in Nat
  BY SizesNat DEF AuditInv, TypeOK
<1>2. \A i \in 1 .. audit_count : ring[Place(i)] \in Decisions
  BY DEF AuditInv
<1> QED
  BY <1>1, <1>2 DEF Newest

(* loxbudget_audit_record_ appends to the log. *)
LEMMA RecordAppends ==
    ASSUME AuditInv, NEW d \in Decisions, AuditRecord(d)
    PROVE  Log!Append1(d)
<1> DEFINE old == Newest(audit_count)
           all == <<d>> \o old
           c == IF audit_count < audit_size THEN audit_count + 1 ELSE audit_count
<1>1. /\ audit_count' = c
      /\ ring'[Place(1)'] = d
      /\ \A i \in 1 .. audit_size - 1 : ring'[Place(i + 1)'] = ring[Place(i)]
  BY RecordShifts
<1>2. magic /\ UNCHANGED <<magic, audit_size, out>>
  BY DEF AuditRecord
<1>3. /\ old \in Seq(Decisions)
      /\ Len(old) = audit_count
      /\ \A i \in 1 .. audit_count : old[i] = ring[Place(i)]
  BY <1>2, NewestIsSeq
<1>4. audit_size \in Nat \ {0} /\ audit_count \in 0 .. audit_size
  BY SizesNat DEF AuditInv, TypeOK, AuditRecord
<1> HIDE DEF old
<1>5. /\ all \in Seq(Decisions)
      /\ Len(all) = audit_count + 1
      /\ all[1] = d
      /\ \A i \in 1 .. audit_count : all[i + 1] = old[i]
  BY <1>3, <1>4
<1> HIDE DEF all
<1>6. Log!First(audit_size, all) = [i \in 1 .. c |-> all[i]]
  <2>1. Log!First(audit_size, all) =
          [i \in 1 .. (IF audit_size <= Len(all) THEN audit_size ELSE Len(all))
             |-> all[i]]
    BY <1>4, <1>5, FirstIs
  <2>2. (IF audit_size <= Len(all) THEN audit_size ELSE Len(all)) = c
    BY <1>4, <1>5
  <2> QED
    BY <2>1, <2>2
<1>7. ASSUME NEW i \in 1 .. c PROVE all[i] = ring'[Place(i)']
  <2>1. CASE i = 1
    BY <1>1, <1>5, <2>1
  <2>2. CASE i # 1
    <3>1. /\ i - 1 \in 1 .. audit_count
          /\ i - 1 \in 1 .. audit_size - 1
          /\ (i - 1) + 1 = i
      BY <1>4, <2>2
    <3>2. all[(i - 1) + 1] = ring[Place(i - 1)]
      BY <1>3, <1>5, <3>1
    <3>3. ring'[Place((i - 1) + 1)'] = ring[Place(i - 1)]
      BY <1>1, <3>1
    <3> QED
      BY <3>1, <3>2, <3>3
  <2> QED
    BY <2>1, <2>2
<1>8. Newest(audit_count)' = [i \in 1 .. c |-> ring'[Place(i)']]
  BY <1>1 DEF Newest
<1>9. Newest(audit_count)' = Log!First(audit_size, <<d>> \o Newest(audit_count))
  <2>1. Newest(audit_count)' = Log!First(audit_size, all)
    BY <1>6, <1>7, <1>8
  <2> QED
    BY <2>1 DEF all, old
<1> QED
  BY <1>2, <1>9 DEF Log!Append1

(* loxbudget_audit_get_recent reads the log. *)
LEMMA GetRecentReads ==
    ASSUME AuditInv, NEW n \in MaxRecords, AuditGetRecent(n)
    PROVE  Log!Read(n)
<1> DEFINE s == Newest(audit_count)
           m == IF n < audit_count THEN n ELSE audit_count
<1>1. magic /\ UNCHANGED <<magic, audit_size, audit_head, audit_count, ring>>
  BY DEF AuditGetRecent
<1>2. /\ s \in Seq(Decisions)
      /\ Len(s) = audit_count
      /\ \A i \in 1 .. audit_count : s[i] = ring[Place(i)]
  BY <1>1, NewestIsSeq
<1>3. n \in Nat /\ audit_count \in Nat /\ (audit_size = 0 => audit_count = 0)
  BY AuditAssumption, SizesNat DEF AuditInv, TypeOK
<1>4. out' = [i \in 1 .. m |-> ring[Place(i)]]
  <2>1. CASE audit_size = 0
    <3>1. m = 0 /\ out' = <<>>
      BY <1>3, <2>1 DEF AuditGetRecent
    <3> QED
      BY <3>1
  <2>2. CASE audit_size # 0
    BY <2>2 DEF AuditGetRecent, Newest
  <2> QED
    BY <2>1, <2>2
<1>5. s' = s
  BY <1>1 DEF Newest, Place, Mask
<1> HIDE DEF s
<1>6. Log!First(n, s) = [i \in 1 .. m |-> s[i]]
  <2>1. Log!First(n, s) =
          [i \in 1 .. (IF n <= Len(s) THEN n ELSE Len(s)) |-> s[i]]
    BY <1>2, <1>3, FirstIs
  <2>2. (IF n <= Len(s) THEN n ELSE Len(s)) = m
    BY <1>2, <1>3
  <2> QED
    BY <2>1, <2>2
<1>7. out' = Log!First(n, s)
  <2>1. \A i \in 1 .. m : s[i] = ring[Place(i)]
    BY <1>2, <1>3
  <2> QED
    BY <1>4, <1>6, <2>1
<1> QED
  BY <1>1, <1>5, <1>7 DEF Log!Read, s

(* Every call on the ring is a step of the log or changes nothing of it. *)
LEMMA LogStep == AuditInv /\ [Next]_vars => [Log!LogNext]_(Log!logVars)
<1> SUFFICES ASSUME AuditInv, [Next]_vars
             PROVE  Log!LogNext \/ UNCHANGED Log!logVars
  OBVIOUS
<1>1. ASSUME NEW n \in AuditSizes, InitOk(n) PROVE Log!LogNext
  <2>1. Newest(audit_count)' = <<>>
    BY <1>1 DEF InitOk, Newest
  <2>2. Log!Restart(n)
    BY <1>1, <2>1 DEF InitOk, Log!Restart
  <2> QED
    BY <2>2 DEF Log!LogNext
<1>2. CASE InitNoSpace
  <2>1. Newest(audit_count)' = <<>>
    BY <1>2 DEF InitNoSpace, Newest
  <2>2. Log!Restart(0)
    BY <1>2, <2>1 DEF InitNoSpace, Log!Restart
  <2> QED
    BY <2>2 DEF Log!LogNext
<1>3. CASE Deinit
  <2>1. Newest(audit_count)' = Newest(audit_count)
    BY <1>3 DEF Deinit, Newest, Place, Mask
  <2>2. Log!Shut
    BY <1>3, <2>1 DEF Deinit, Log!Shut
  <2> QED
    BY <2>2 DEF Log!LogNext
<1>4. ASSUME NEW d \in Decisions, AuditRecord(d) PROVE Log!LogNext
  BY <1>4, RecordAppends DEF Log!LogNext
<1>5. CASE AuditClear
  <2>1. Newest(audit_count)' = <<>>
    BY <1>5 DEF AuditClear, Newest
  <2>2. Log!Empty
    BY <1>5, <2>1 DEF AuditClear, Log!Empty
  <2> QED
    BY <2>2 DEF Log!LogNext
<1>6. ASSUME NEW n \in MaxRecords, AuditGetRecent(n) PROVE Log!LogNext
  BY <1>6, GetRecentReads DEF Log!LogNext
<1>7. CASE UNCHANGED vars
  BY <1>7 DEF vars, Log!logVars, Newest, Place, Mask
<1> QED
  BY <1>1, <1>2, <1>3, <1>4, <1>5, <1>6, <1>7 DEF Next

(* The ring implements the log, for every set of sizes the library         *)
(* accepts: after any number of wraps, clears and inits the reader obtains *)
(* the newest decisions, newest first.                                     *)
THEOREM RingImplementsLog == Spec => ImplementsLog
<1>1. Init => Log!LogInit
  <2>1. Init => Newest(audit_count) = <<>>
    BY DEF Init, Newest
  <2> QED
    BY <2>1 DEF Init, Log!LogInit
<1> QED
  BY <1>1, AuditInvariant, LogStep, PTL DEF Spec, ImplementsLog, Log!LogSpec

=============================================================================
