-------------------------- MODULE SyncBufferProofs --------------------------
(***************************************************************************)
(* Proofs about the synchronisation buffer, for every set of data, every   *)
(* choice of thresholds and every period of the hard update.               *)
(*                                                                         *)
(* TypeOK is inductive.  CacheAttained, AlarmEarned and HardCheckExact are *)
(* inductive relative to it; MissedBounded needs MissedInv, which ties the *)
(* overlooked checks to the counter that triggers the next hard update.    *)
(*                                                                         *)
(* The total of a row is a sum over a set, defined by recursion; that the  *)
(* recursion has a solution (SumsDef), and that it does not matter in      *)
(* which order the entries are added, is proved by induction on how many   *)
(* there are, after which TotalsExact is inductive.                        *)
(***************************************************************************)
EXTENDS SyncBuffer, FiniteSetTheorems, WellFoundedInduction, TLAPS

USE DEF EVENT, REQUEST, REPLY

-----------------------------------------------------------------------------

(* The rows hold integers, among them 0 and the entry of each datum. *)
LEMMA RowFacts ==
    ASSUME TypeOK, NEW T
    PROVE  /\ RowValues(T) \subseteq Int
           /\ 0 \in RowValues(T)
           /\ \A d \in Data : d[1] \in T => buf[d] \in RowValues(T)
           /\ \A x \in RowValues(T) : x # 0 => \E d \in Data : buf[d] = x
BY DEF TypeOK, RowValues

(* A refreshed cache stays on its side of 0, and a value of it off 0 was    *)
(* the cache before or is the entry of some datum.                          *)
LEMMA RefreshedMax ==
    ASSUME TypeOK, NEW m, SoftMax(m) \/ HardMax(m)
    PROVE  /\ m \in Int /\ m >= 0
           /\ m = cached_max \/ m = 0 \/ \E d \in Data : buf[d] = m
<1>1. CASE SoftMax(m)
  <2>1. CASE cached_max = -1
    BY <1>1, <2>1, RowFacts DEF SoftMax, IsMaxOf
  <2>2. CASE cached_max # -1
    BY <1>1, <2>2 DEF SoftMax, TypeOK
  <2>3. QED
    BY <2>1, <2>2
<1>2. CASE HardMax(m)
  BY <1>2, RowFacts DEF HardMax, IsMaxOf, TypeOK
<1>3. QED
  BY <1>1, <1>2

(* The same for the minimum.                                                *)
LEMMA RefreshedMin ==
    ASSUME TypeOK, NEW m, SoftMin(m) \/ HardMin(m)
    PROVE  /\ m \in Int /\ m <= 0
           /\ m = cached_min \/ m = 0 \/ \E d \in Data : buf[d] = m
<1>1. CASE SoftMin(m)
  <2>1. CASE cached_min = 1
    BY <1>1, <2>1, RowFacts DEF SoftMin, IsMinOf
  <2>2. CASE cached_min # 1
    BY <1>1, <2>2 DEF SoftMin, TypeOK
  <2>3. QED
    BY <2>1, <2>2
<1>2. CASE HardMin(m)
  BY <1>2, RowFacts DEF HardMin, IsMinOf, TypeOK
<1>3. QED
  BY <1>1, <1>2

(* A hard update bounds every scanned entry. *)
LEMMA HardBounds ==
    ASSUME TypeOK, NEW mx, NEW mn, HardMax(mx), HardMin(mn), NEW d \in Scanned
    PROVE  mn <= buf[d] /\ buf[d] <= mx
<1>1. d \in Data /\ buf[d] \in RowValues({EVENT, REQUEST})
  BY RowFacts DEF Scanned
<1>2. QED
  BY <1>1 DEF HardMax, HardMin, IsMaxOf, IsMinOf

(* What a check leaves behind: the caches it refreshed, and the values      *)
(* computed from them.                                                      *)
LEMMA CheckStep ==
    ASSUME TypeOK, CheckBufferLimits
    PROVE  /\ cached_max' \in Int /\ cached_max' >= 0
           /\ cached_max' = cached_max \/ cached_max' = 0
                \/ \E d \in Data : buf[d] = cached_max'
           /\ cached_min' \in Int /\ cached_min' <= 0
           /\ cached_min' = cached_min \/ cached_min' = 0
                \/ \E d \in Data : buf[d] = cached_min'
           /\ verdict' = Verdict(cached_max', cached_min', total_diff)
           /\ HardDue => HardMax(cached_max') /\ HardMin(cached_min')
           /\ missed' = IF verdict' = 0 /\ \E d \in Scanned : Drifted(d)
                        THEN missed + 1 ELSE 0
<1>1. PICK mx \in CandidateValues, mn \in CandidateValues :
        /\ IF HardDue THEN HardMax(mx) /\ HardMin(mn)
                      ELSE SoftMax(mx) /\ SoftMin(mn)
        /\ cached_max' = mx /\ cached_min' = mn
        /\ verdict' = Verdict(mx, mn, total_diff)
        /\ missed' = IF /\ Verdict(mx, mn, total_diff) = 0
                        /\ \E d \in Scanned : Drifted(d)
                     THEN missed + 1 ELSE 0
  BY Zenon DEF CheckBufferLimits
<1>2. /\ mx \in Int /\ mx >= 0
      /\ mx = cached_max \/ mx = 0 \/ \E d \in Data : buf[d] = mx
  BY <1>1, RefreshedMax
<1>3. /\ mn \in Int /\ mn <= 0
      /\ mn = cached_min \/ mn = 0 \/ \E d \in Data : buf[d] = mn
  BY <1>1, RefreshedMin
<1>4. QED
  BY <1>1, <1>2, <1>3

-----------------------------------------------------------------------------

(* Type correctness, for every value of the constants: in particular the    *)
(* caches never pass their sentinels and the static counter of the check    *)
(* stays within one hard period.                                            *)
THEOREM TypeCorrect == Spec => []TypeOK
<1>1. Init => TypeOK
  <2>1. Init => checked \in BOOLEAN
    BY DEF Init
  <2>2. QED
    BY <2>1, BoundAssumption DEF Init, TypeOK
<1>2. TypeOK /\ [Next]_vars => TypeOK'
  <2> SUFFICES ASSUME TypeOK, [Next]_vars
               PROVE  TypeOK'
    OBVIOUS
  <2>1. ASSUME NEW d \in Data, Replayed(d)
        PROVE  TypeOK'
    <3>1. checked' \in BOOLEAN
      BY <2>1 DEF Replayed
    <3>2. QED
      BY <2>1, <3>1 DEF Replayed, TypeOK
  <2>2. ASSUME NEW d \in Data, Received(d)
        PROVE  TypeOK'
    <3>1. checked' \in BOOLEAN
      BY <2>2 DEF Received
    <3>2. CASE Count(d)
      BY <2>2, <3>1, <3>2 DEF Received, Count, TypeOK
    <3>3. CASE UNCHANGED buffer
      BY <2>2, <3>1, <3>3 DEF Received, buffer, meta, TypeOK
    <3>4. QED
      BY <2>2, <3>2, <3>3 DEF Received
  <2>3. CASE UpdateBufferCache
    <3>1. PICK mx \in CandidateValues, mn \in CandidateValues :
            /\ SoftMax(mx) /\ SoftMin(mn)
            /\ cached_max' = mx /\ cached_min' = mn
      BY <2>3 DEF UpdateBufferCache
    <3>2. mx \in Int /\ mx >= 0 /\ mn \in Int /\ mn <= 0
      BY <3>1, RefreshedMax, RefreshedMin
    <3>3. QED
      BY <2>3, <3>1, <3>2 DEF UpdateBufferCache, TypeOK
  <2>4. CASE CheckBufferLimits
    <3>1. verdict' \in Int
      BY <2>4, CheckStep DEF Verdict, TypeOK
    <3>2. upd_ctr' \in {-1} \cup 1..(HardPeriod + 1)
      BY <2>4, BoundAssumption DEF CheckBufferLimits, HardDue, TypeOK
    <3>3. missed' \in Nat
      BY <2>4, CheckStep DEF TypeOK
    <3>4. QED
      BY <2>4, <3>1, <3>2, <3>3, CheckStep DEF CheckBufferLimits, TypeOK
  <2>5. CASE ReplayInit
    <3>1. checked' \in BOOLEAN
      BY <2>5 DEF ReplayInit
    <3>2. QED
      BY <2>5, <3>1 DEF ReplayInit, TypeOK
  <2>6. CASE UNCHANGED vars
    BY <2>6 DEF vars, TypeOK
  <2>7. QED
    BY <2>1, <2>2, <2>3, <2>4, <2>5, <2>6 DEF Next
<1>3. QED
  BY <1>1, <1>2, PTL DEF Spec

(* No phantom drift, whatever the data, the thresholds and the order of     *)
(* reads, receptions and checks: a cache on its side of 0 is an entry.      *)
THEOREM NoPhantomDrift == Spec => []CacheAttained
<1>1. Init => CacheAttained
  BY DEF Init, CacheAttained
<1>2. TypeOK /\ CacheAttained /\ [Next]_vars => CacheAttained'
  <2> SUFFICES ASSUME TypeOK, CacheAttained, [Next]_vars
               PROVE  CacheAttained'
    OBVIOUS
  <2>1. ASSUME NEW d \in Data, Replayed(d)
        PROVE  CacheAttained'
    <3>1. /\ buf'[d] = buf[d] + 1
          /\ \A e \in Data : e # d => buf'[e] = buf[e]
      BY <2>1 DEF Replayed, TypeOK
    <3>2. cached_max' > 0 => \E e \in Data : buf'[e] = cached_max'
      BY <2>1, <3>1 DEF Replayed, CacheAttained, TypeOK
    <3>3. cached_min' < 0 => \E e \in Data : buf'[e] = cached_min'
      BY <2>1, <3>1 DEF Replayed, CacheAttained, TypeOK
    <3>4. QED
      BY <3>2, <3>3 DEF CacheAttained
  <2>2. ASSUME NEW d \in Data, Received(d)
        PROVE  CacheAttained'
    <3>1. CASE Count(d)
      <4>1. /\ buf'[d] = buf[d] - 1
            /\ \A e \in Data : e # d => buf'[e] = buf[e]
        BY <3>1 DEF Count, TypeOK
      <4>2. cached_max' > 0 => \E e \in Data : buf'[e] = cached_max'
        BY <3>1, <4>1 DEF Count, CacheAttained, TypeOK
      <4>3. cached_min' < 0 => \E e \in Data : buf'[e] = cached_min'
        BY <3>1, <4>1 DEF Count, CacheAttained, TypeOK
      <4>4. QED
        BY <4>2, <4>3 DEF CacheAttained
    <3>2. CASE UNCHANGED buffer
      BY <3>2 DEF buffer, meta, CacheAttained
    <3>3. QED
      BY <2>2, <3>1, <3>2 DEF Received
  <2>3. CASE UpdateBufferCache
    <3>1. PICK mx \in CandidateValues, mn \in CandidateValues :
            /\ SoftMax(mx) /\ SoftMin(mn)
            /\ cached_max' = mx /\ cached_min' = mn
      BY <2>3 DEF UpdateBufferCache
    <3>2. /\ mx = cached_max \/ mx = 0 \/ \E d \in Data : buf[d] = mx
          /\ mn = cached_min \/ mn = 0 \/ \E d \in Data : buf[d] = mn
      BY <3>1, RefreshedMax, RefreshedMin
    <3>3. QED
      BY <2>3, <3>1, <3>2 DEF UpdateBufferCache, CacheAttained
  <2>4. CASE CheckBufferLimits
    <3>1. buf' = buf
      BY <2>4 DEF CheckBufferLimits
    <3>2. QED
      BY <2>4, <3>1, CheckStep DEF CacheAttained
  <2>5. CASE ReplayInit
    BY <2>5 DEF ReplayInit, CacheAttained
  <2>6. CASE UNCHANGED vars
    BY <2>6 DEF vars, CacheAttained
  <2>7. QED
    BY <2>1, <2>2, <2>3, <2>4, <2>5, <2>6 DEF Next
<1>3. QED
  BY <1>1, <1>2, TypeCorrect, PTL DEF Spec

-----------------------------------------------------------------------------

(* No false alarm: a difference xnee_check_buffer_limits reports is the     *)
(* drift of an entry, or the total, when it is reported.                    *)
THEOREM NoFalseAlarm == Spec => []AlarmEarned
<1>1. Init => AlarmEarned
  BY DEF Init, AlarmEarned
<1>2. TypeOK /\ CacheAttained /\ AlarmEarned /\ [Next]_vars => AlarmEarned'
  <2> SUFFICES ASSUME TypeOK, CacheAttained, AlarmEarned, [Next]_vars
               PROVE  AlarmEarned'
    OBVIOUS
  <2>1. ASSUME NEW d \in Data, Replayed(d) \/ Received(d)
        PROVE  AlarmEarned'
    BY <2>1 DEF Replayed, Received, AlarmEarned
  <2>2. CASE UpdateBufferCache
    BY <2>2 DEF UpdateBufferCache, AlarmEarned, Drifted
  <2>3. CASE CheckBufferLimits
    <3>1. /\ buf' = buf /\ total_diff' = total_diff
      BY <2>3 DEF CheckBufferLimits
    <3>2. ASSUME cached_max' > MaxThr
          PROVE  \E d \in Data : Drifted(d)
      <4>1. cached_max' > 0
        BY <2>3, <3>2, CheckStep, ThresholdAssumption
      <4>2. \E d \in Data : buf[d] = cached_max'
        BY <2>3, <4>1, CheckStep DEF CacheAttained
      <4>3. QED
        BY <3>2, <4>2 DEF Drifted
    <3>3. ASSUME cached_min' < MinThr, cached_min' # 0
          PROVE  \E d \in Data : Drifted(d)
      <4>1. cached_min' < 0
        BY <2>3, <3>3, CheckStep
      <4>2. \E d \in Data : buf[d] = cached_min'
        BY <2>3, <4>1, CheckStep DEF CacheAttained
      <4>3. QED
        BY <3>3, <4>1, <4>2 DEF Drifted
    <3>4. verdict' # 0 => \/ cached_max' > MaxThr
                          \/ cached_min' < MinThr /\ cached_min' # 0
                          \/ total_diff > TotThr
      BY <2>3, CheckStep DEF Verdict
    <3>5. QED
      BY <3>1, <3>2, <3>3, <3>4 DEF AlarmEarned, Drifted
  <2>4. CASE ReplayInit
    BY <2>4 DEF ReplayInit, AlarmEarned
  <2>5. CASE UNCHANGED vars
    BY <2>5 DEF vars, AlarmEarned, Drifted
  <2>6. QED
    BY <2>1, <2>2, <2>3, <2>4, <2>5 DEF Next
<1>3. QED
  BY <1>1, <1>2, TypeCorrect, NoPhantomDrift, PTL DEF Spec

(* The checks overlooked so far happened since the last hard update. *)
MissedInv ==
    /\ upd_ctr = -1 => missed = 0
    /\ upd_ctr # -1 => missed <= upd_ctr - 1

(* A drift of an event or a request is overlooked by no more than           *)
(* HardPeriod checks in a row, for every period of the hard update.         *)
THEOREM BoundedMiss == Spec => []MissedBounded
<1>1. Init => MissedInv
  BY DEF Init, MissedInv
<1>2. TypeOK /\ MissedInv /\ [Next]_vars => MissedInv'
  <2> SUFFICES ASSUME TypeOK, MissedInv, [Next]_vars
               PROVE  MissedInv'
    OBVIOUS
  <2>1. ASSUME NEW d \in Data, Replayed(d) \/ Received(d)
        PROVE  MissedInv'
    BY <2>1 DEF Replayed, Received, MissedInv
  <2>2. CASE UpdateBufferCache
    BY <2>2 DEF UpdateBufferCache, MissedInv
  <2>3. CASE CheckBufferLimits
    <3>1. CASE HardDue
      <4>1. ASSUME NEW d \in Scanned, Drifted(d)
            PROVE  verdict' # 0
        <5>1. cached_min' <= buf[d] /\ buf[d] <= cached_max'
          BY <2>3, <3>1, CheckStep, HardBounds
        <5>2. buf[d] \in Int /\ cached_max' \in Int /\ cached_min' \in Int
          BY <2>3, CheckStep DEF Scanned, TypeOK
        <5>3. QED
          BY <2>3, <4>1, <5>1, <5>2, CheckStep, ThresholdAssumption
             DEF Drifted, Verdict
      <4>2. missed' = 0
        BY <2>3, <4>1, CheckStep
      <4>3. upd_ctr' = 1
        BY <2>3, <3>1 DEF CheckBufferLimits
      <4>4. QED
        BY <4>2, <4>3 DEF MissedInv
    <3>2. CASE ~HardDue
      <4>1. upd_ctr' = upd_ctr + 1 /\ upd_ctr # -1
        BY <2>3, <3>2 DEF CheckBufferLimits, HardDue
      <4>2. missed' = 0 \/ missed' = missed + 1
        BY <2>3, CheckStep
      <4>3. QED
        BY <4>1, <4>2, BoundAssumption DEF MissedInv, TypeOK
    <3>3. QED
      BY <3>1, <3>2
  <2>4. CASE ReplayInit
    BY <2>4, BoundAssumption DEF ReplayInit, MissedInv, TypeOK
  <2>5. CASE UNCHANGED vars
    BY <2>5 DEF vars, MissedInv
  <2>6. QED
    BY <2>1, <2>2, <2>3, <2>4, <2>5 DEF Next
<1>3. TypeOK /\ MissedInv => MissedBounded
  BY BoundAssumption DEF TypeOK, MissedInv, MissedBounded
<1>4. QED
  BY <1>1, <1>2, <1>3, TypeCorrect, PTL DEF Spec

(* After a hard update, and until the next datum, the caches bound every    *)
(* event and request entry.                                                 *)
THEOREM HardUpdateExact == Spec => []HardCheckExact
<1>1. Init => HardCheckExact
  BY DEF Init, HardCheckExact
<1>2. TypeOK /\ HardCheckExact /\ [Next]_vars => HardCheckExact'
  <2> SUFFICES ASSUME TypeOK, HardCheckExact, [Next]_vars
               PROVE  HardCheckExact'
    OBVIOUS
  <2>1. ASSUME NEW d \in Data, Replayed(d) \/ Received(d)
        PROVE  HardCheckExact'
    BY <2>1 DEF Replayed, Received, HardCheckExact
  <2>2. CASE UpdateBufferCache
    <3>1. PICK mx \in CandidateValues, mn \in CandidateValues :
            /\ SoftMax(mx) /\ SoftMin(mn)
            /\ cached_max' = mx /\ cached_min' = mn
      BY <2>2 DEF UpdateBufferCache
    <3>2. ASSUME NEW d \in Scanned, checked, upd_ctr = 1
          PROVE  mn <= buf[d] /\ buf[d] <= mx
      <4>1. cached_min <= buf[d] /\ buf[d] <= cached_max /\ buf[d] \in Int
        BY <3>2 DEF HardCheckExact, Scanned, TypeOK
      <4>2. mx \in Int /\ mn \in Int /\ mx >= 0 /\ mn <= 0
        BY <3>1, RefreshedMax, RefreshedMin
      <4>3. cached_max = -1 \/ mx = cached_max
        BY <3>1 DEF SoftMax
      <4>4. cached_min = 1 \/ mn = cached_min
        BY <3>1 DEF SoftMin
      <4>5. QED
        BY <4>1, <4>2, <4>3, <4>4
    <3>3. QED
      BY <2>2, <3>1, <3>2 DEF UpdateBufferCache, HardCheckExact
  <2>3. CASE CheckBufferLimits
    <3>1. CASE HardDue
      <4>1. \A d \in Scanned : cached_min' <= buf[d] /\ buf[d] <= cached_max'
        BY <2>3, <3>1, CheckStep, HardBounds
      <4>2. QED
        BY <2>3, <4>1 DEF CheckBufferLimits, HardCheckExact
    <3>2. CASE ~HardDue
      <4>1. upd_ctr' # 1
        BY <2>3, <3>2, BoundAssumption
           DEF CheckBufferLimits, HardDue, TypeOK
      <4>2. QED
        BY <4>1 DEF HardCheckExact
    <3>3. QED
      BY <3>1, <3>2
  <2>4. CASE ReplayInit
    BY <2>4 DEF ReplayInit, HardCheckExact
  <2>5. CASE UNCHANGED vars
    BY <2>5 DEF vars, HardCheckExact
  <2>6. QED
    BY <2>1, <2>2, <2>3, <2>4, <2>5 DEF Next
<1>3. QED
  BY <1>1, <1>2, TypeCorrect, PTL DEF Spec

-----------------------------------------------------------------------------

(* A set of numbers that has 0, and with every number the next, has all.    *)
LEMMA Induction ==
    ASSUME NEW S, 0 \in S, \A n \in Nat : n \in S => n + 1 \in S
    PROVE  Nat \subseteq S
<1> SUFFICES ASSUME Nat \ S # {} PROVE FALSE
  OBVIOUS
<1>1. PICK m \in Nat \ S : \A n \in Nat \ S : <<n, m>> \notin OpToRel(<, Nat)
  BY NatLessThanWellFounded, WFMin
<1>2. m - 1 \in Nat /\ m - 1 < m
  OBVIOUS
<1>3. <<m - 1, m>> \in OpToRel(<, Nat)
  BY <1>2 DEF OpToRel
<1>4. m - 1 \in S
  BY <1>1, <1>2, <1>3
<1>5. (m - 1) + 1 \in S
  BY <1>2, <1>4
<1> QED BY <1>5

(* SumFunction takes the entries one by one; the sum over the entries of s  *)
(* takes that of Pick(s) first.                                             *)
Pick(s) == CHOOSE x \in s : TRUE
Sums(b) ==
    LET iter[s \in SUBSET DOMAIN b] ==
          IF s = {} THEN 0 ELSE b[Pick(s)] + iter[s \ {Pick(s)}]
    IN  iter

(* That is how the total is defined.                                        *)
LEMMA SumIsSums ==
    ASSUME NEW b
    PROVE  SumFunction(b) = Sums(b)[DOMAIN b]
  BY DEF SumFunction, SumFunctionOnSet, FoldFunctionOnSet, MapThenFoldSet,
         Pick, Sums

(* The subsets of D with at most n elements; what is left of one of them    *)
(* without its pick has fewer.                                              *)
Small(D, n) == {s \in SUBSET D : Cardinality(s) <= n}

(* Facts about these sets, for the induction on the number of entries.      *)
LEMMA SmallSets ==
    ASSUME NEW D, IsFiniteSet(D)
    PROVE  /\ Small(D, 0) = {{}}
           /\ Small(D, Cardinality(D)) = SUBSET D
           /\ Cardinality(D) \in Nat
           /\ \A n \in Nat : \A s \in Small(D, n + 1) :
                s # {} => /\ Pick(s) \in s /\ Pick(s) \in D
                          /\ s \ {Pick(s)} \in Small(D, n)
           /\ \A n \in Nat : Small(D, n) \subseteq Small(D, n + 1)
<1>1. \A s \in SUBSET D : IsFiniteSet(s) /\ Cardinality(s) \in Nat
                         /\ Cardinality(s) <= Cardinality(D)
  BY FS_Subset, FS_CardinalityType
<1>2. \A s \in SUBSET D : Cardinality(s) = 0 <=> s = {}
  BY <1>1, FS_EmptySet
<1>3. ASSUME NEW n \in Nat, NEW s \in Small(D, n + 1), s # {}
      PROVE  /\ Pick(s) \in s /\ Pick(s) \in D
             /\ s \ {Pick(s)} \in Small(D, n)
  <2>1. Pick(s) \in s
    BY <1>3 DEF Pick
  <2>2. s \in SUBSET D /\ Cardinality(s) <= n + 1
    BY DEF Small
  <2>3. Cardinality(s \ {Pick(s)}) = Cardinality(s) - 1
    BY <1>1, <2>1, <2>2, FS_RemoveElement
  <2> QED BY <1>1, <2>1, <2>2, <2>3 DEF Small
<1> QED BY <1>1, <1>2, <1>3 DEF Small

(* The recursion of Sums has a solution, so that its equation holds.        *)
LEMMA SumsDef ==
    ASSUME NEW b, IsFiniteSet(DOMAIN b), NEW s \in SUBSET DOMAIN b
    PROVE  /\ s = {} => Sums(b)[s] = 0
           /\ s # {} => Sums(b)[s] = b[Pick(s)] + Sums(b)[s \ {Pick(s)}]
<1> DEFINE D == DOMAIN b
           B(g, t) == IF t = {} THEN 0 ELSE b[Pick(t)] + g[t \ {Pick(t)}]
           S == {n \in Nat : \E g : g = [t \in Small(D, n) |-> B(g, t)]}
<1>1. 0 \in S
  <2>1. [t \in {{}} |-> 0] = [t \in {{}} |-> B([u \in {{}} |-> 0], t)]
    OBVIOUS
  <2>2. Small(D, 0) = {{}}
    BY SmallSets
  <2> QED BY <2>1, <2>2
<1>2. ASSUME NEW n \in Nat, n \in S PROVE n + 1 \in S
  <2>1. PICK g : g = [t \in Small(D, n) |-> B(g, t)]
    BY <1>2
  <2> DEFINE h == [t \in Small(D, n + 1) |-> B(g, t)]
  <2>2. ASSUME NEW t \in Small(D, n) PROVE h[t] = g[t]
    <3>1. t \in Small(D, n + 1)
      BY SmallSets
    <3>2. g[t] = B(g, t)
      <4> HIDE DEF B
      <4> QED BY <2>1
    <3>3. h[t] = B(g, t)
      <4> HIDE DEF B
      <4> QED BY <3>1
    <3> QED BY <3>2, <3>3
  <2>3. ASSUME NEW t \in Small(D, n + 1) PROVE B(g, t) = B(h, t)
    <3> HIDE DEF h
    <3>1. CASE t = {}
      BY <3>1
    <3>2. CASE t # {}
      <4>1. t \ {Pick(t)} \in Small(D, n)
        BY <3>2, SmallSets
      <4>2. h[t \ {Pick(t)}] = g[t \ {Pick(t)}]
        BY <2>2, <4>1
      <4> QED BY <4>2
    <3> QED BY <3>1, <3>2
  <2>4. h = [t \in Small(D, n + 1) |-> B(h, t)]
    <3> DEFINE k == [t \in Small(D, n + 1) |-> B(h, t)]
    <3>1. k = [t \in Small(D, n + 1) |-> B(g, t)]
      <4> HIDE DEF B, h
      <4> QED BY <2>3
    <3> QED BY <3>1
  <2> HIDE DEF h
  <2> QED BY <2>4
<1>3. \E g : g = [t \in SUBSET D |-> B(g, t)]
  <2>1. Nat \subseteq S
    <3> HIDE DEF S
    <3> QED BY <1>1, <1>2, Induction
  <2>2. Cardinality(D) \in S
    <3> HIDE DEF S
    <3> QED BY <2>1, SmallSets
  <2> QED BY <2>2, SmallSets
<1> DEFINE E == CHOOSE g : g = [t \in SUBSET D |-> B(g, t)]
<1>4. E = [t \in SUBSET D |-> B(E, t)]
  <2> HIDE DEF B
  <2> QED BY <1>3
<1>5. Sums(b) = E
  BY DEF Sums
<1>6. E[s] = B(E, s)
  <2> HIDE DEF B, E
  <2> QED BY <1>4
<1> QED BY <1>5, <1>6

(* Every sum of entries is a number, and one more of entry d is one more of *)
(* every sum that takes it.                                                 *)
LEMMA SumsChange ==
    ASSUME NEW D, IsFiniteSet(D), NEW b \in [D -> Int], NEW e \in [D -> Int],
           NEW d \in D, NEW k \in Int, e[d] = b[d] + k,
           \A x \in D \ {d} : e[x] = b[x]
    PROVE  /\ SumFunction(b) \in Int
           /\ SumFunction(e) = SumFunction(b) + k
<1> DEFINE Right(s) == /\ Sums(b)[s] \in Int
                       /\ d \in s => Sums(e)[s] = Sums(b)[s] + k
                       /\ d \notin s => Sums(e)[s] = Sums(b)[s]
           S == {n \in Nat : \A s \in Small(D, n) : Right(s)}
<1>0. D = DOMAIN b /\ D = DOMAIN e
  OBVIOUS
<1>1. 0 \in S
  <2>1. Right({})
    <3>1. Sums(b)[{}] = 0
      BY <1>0, SumsDef
    <3>2. Sums(e)[{}] = 0
      BY <1>0, SumsDef
    <3> QED BY <3>1, <3>2
  <2>2. Small(D, 0) = {{}}
    BY SmallSets
  <2> HIDE DEF Right
  <2> QED BY <2>1, <2>2
<1>2. ASSUME NEW n \in Nat, n \in S PROVE n + 1 \in S
  <2> SUFFICES ASSUME NEW s \in Small(D, n + 1) PROVE Right(s)
    <3> HIDE DEF Right
    <3> QED OBVIOUS
  <2>1. CASE s = {}
    <3>1. {} \in Small(D, 0) /\ 0 \in S
      BY <1>1, SmallSets
    <3>2. Right({})
      <4> HIDE DEF Right
      <4> QED BY <3>1
    <3> QED BY <2>1, <3>2
  <2>2. CASE s # {}
    <3> DEFINE x == Pick(s)
               r == s \ {x}
    <3>1. x \in s /\ x \in D /\ r \in Small(D, n)
      BY <2>2, SmallSets
    <3>2. s \in SUBSET D
      BY DEF Small
    <3>3. /\ Sums(b)[s] = b[x] + Sums(b)[r]
          /\ Sums(e)[s] = e[x] + Sums(e)[r]
      BY <1>0, <2>2, <3>2, SumsDef
    <3>4. Right(r)
      BY <1>2, <3>1
    <3>5. b[x] \in Int /\ e[x] \in Int /\ b[d] \in Int
      BY <3>1
    <3>6. x = d => e[x] = b[x] + k
      BY <3>1
    <3>7. x # d => e[x] = b[x]
      BY <3>1
    <3>8. d \in r <=> d \in s /\ x # d
      OBVIOUS
    <3> HIDE DEF x, r
    <3> QED BY <3>1, <3>3, <3>4, <3>5, <3>6, <3>7, <3>8
  <2> QED BY <2>1, <2>2
<1>3. Nat \subseteq S
  <2> HIDE DEF S
  <2> QED BY <1>1, <1>2, Induction
<1>4. Right(D)
  <2>1. Cardinality(D) \in S
    <3> HIDE DEF S
    <3> QED BY <1>3, SmallSets
  <2>2. D \in Small(D, Cardinality(D))
    BY SmallSets
  <2> QED BY <2>1, <2>2
<1>5. SumFunction(b) = Sums(b)[D] /\ SumFunction(e) = Sums(e)[D]
  BY <1>0, SumIsSums
<1> HIDE DEF S
<1> QED BY <1>4, <1>5

(* The sum of a buffer without a difference is 0.                           *)
LEMMA SumOfZeros ==
    ASSUME NEW D, IsFiniteSet(D), NEW b, b = [d \in D |-> 0]
    PROVE  SumFunction(b) = 0
<1> DEFINE S == {n \in Nat : \A s \in Small(D, n) : Sums(b)[s] = 0}
<1>0. D = DOMAIN b
  OBVIOUS
<1>1. 0 \in S
  BY <1>0, SumsDef, SmallSets
<1>2. ASSUME NEW n \in Nat, n \in S PROVE n + 1 \in S
  <2> SUFFICES ASSUME NEW s \in Small(D, n + 1) PROVE Sums(b)[s] = 0
    OBVIOUS
  <2>1. s \in SUBSET D
    BY DEF Small
  <2>2. CASE s = {}
    BY <1>0, <2>2, SumsDef
  <2>3. CASE s # {}
    <3>1. Pick(s) \in D /\ s \ {Pick(s)} \in Small(D, n)
      BY <2>3, SmallSets
    <3>2. Sums(b)[s] = b[Pick(s)] + Sums(b)[s \ {Pick(s)}]
      BY <1>0, <2>1, <2>3, SumsDef
    <3> QED BY <1>2, <3>1, <3>2
  <2> QED BY <2>2, <2>3
<1>3. Nat \subseteq S
  <2> HIDE DEF S
  <2> QED BY <1>1, <1>2, Induction
<1>4. Sums(b)[D] = 0
  <2>1. Cardinality(D) \in S
    <3> HIDE DEF S
    <3> QED BY <1>3, SmallSets
  <2>2. D \in Small(D, Cardinality(D))
    BY SmallSets
  <2> QED BY <2>1, <2>2
<1>5. SumFunction(b) = Sums(b)[D]
  BY <1>0, SumIsSums
<1> QED BY <1>4, <1>5

(* Entry d and the totals move by k together.                               *)
Moved(d, k) ==
    /\ buf' = [buf EXCEPT ![d] = buf[d] + k]
    /\ total_diff' = total_diff + k
    /\ sum_max' = sum_max + k /\ sum_min' = sum_min + k

(* They stay exact when they do.                                            *)
LEMMA TotalsMove ==
    ASSUME TypeOK, TotalsExact, NEW d \in Data, NEW k \in Int, Moved(d, k)
    PROVE  TotalsExact'
<1>1. buf \in [Data -> Int] /\ buf' \in [Data -> Int] /\ IsFiniteSet(Data)
  BY DataAssumption DEF TypeOK, Moved
<1>2. buf'[d] = buf[d] + k /\ \A x \in Data \ {d} : buf'[x] = buf[x]
  BY <1>1 DEF Moved
<1>3. ASSUME NEW b \in [Data -> Int], NEW e \in [Data -> Int],
             e[d] = b[d] + k, \A x \in Data \ {d} : e[x] = b[x]
      PROVE  SumFunction(e) = SumFunction(b) + k
  BY <1>1, <1>3, SumsChange
<1>4. SumFunction(buf') = SumFunction(buf) + k
  BY <1>1, <1>2, <1>3
<1> QED BY <1>4 DEF TotalsExact, Moved

(* The totals of meta_data are the sum of the entries, for any number of    *)
(* data and however often each is read and received.                        *)
THEOREM TotalsAreExact == Spec => []TotalsExact
<1> USE DataAssumption
<1>1. Init => TotalsExact
  BY SumOfZeros DEF Init, TotalsExact
<1>2. TypeOK /\ TotalsExact /\ [Next]_vars => TotalsExact'
  <2> SUFFICES ASSUME TypeOK, TotalsExact, [Next]_vars
               PROVE  TotalsExact'
    OBVIOUS
  <2>0. ASSUME NEW d \in Data
        PROVE  /\ buf[d] \in Int /\ total_diff \in Int /\ sum_max \in Int
               /\ sum_min \in Int
    BY DEF TypeOK
  <2>1. ASSUME NEW d \in Data, Replayed(d)
        PROVE  TotalsExact'
    <3>1. Moved(d, 1)
      BY <2>1 DEF Replayed, Moved
    <3> QED BY <3>1, TotalsMove
  <2>2. ASSUME NEW d \in Data, Count(d)
        PROVE  TotalsExact'
    <3>1. /\ buf' = [buf EXCEPT ![d] = buf[d] - 1]
          /\ total_diff' = total_diff - 1
          /\ sum_max' = sum_max - 1 /\ sum_min' = sum_min - 1
      BY <2>2 DEF Count
    <3>2. Moved(d, -1)
      BY <2>0, <3>1 DEF Moved
    <3> QED BY <3>2, TotalsMove
  <2>3. ASSUME NEW d \in Data, Received(d)
        PROVE  TotalsExact'
    BY <2>2, <2>3 DEF Received, buffer, meta, TotalsExact
  <2>4. CASE UpdateBufferCache \/ CheckBufferLimits \/ UNCHANGED vars
    <3>1. UNCHANGED <<buf, total_diff, sum_max, sum_min>>
      BY <2>4 DEF UpdateBufferCache, CheckBufferLimits, vars
    <3> QED BY <3>1 DEF TotalsExact
  <2>5. CASE ReplayInit
    <3>1. SumFunction(buf)' = 0
      <4>1. buf' = [d \in Data |-> 0]
        BY <2>5 DEF ReplayInit
      <4>2. SumFunction(buf') = 0
        BY <4>1, SumOfZeros
      <4> QED BY <4>2
    <3> QED BY <2>5, <3>1 DEF ReplayInit, TotalsExact
  <2> QED BY <2>1, <2>3, <2>4, <2>5 DEF Next
<1> QED BY <1>1, <1>2, TypeCorrect, PTL DEF Spec
=============================================================================
