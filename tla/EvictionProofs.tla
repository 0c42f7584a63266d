---------------------------- MODULE EvictionProofs ----------------------------
(* Theorems about Eviction, for every set of tasks and blobs, all sizes, every *)
(* capacity and any number of touches: the order of use is an order, through   *)
(* interleaved touches and restarts anywhere, and what the index records fits  *)
(* the capacity once no call is working.                                       *)
(*                                                                             *)
(* A number drawn by fetch_add is nobody else's, neither in the index nor with *)
(* another call that has not committed it yet; a restart forgets the numbers   *)
(* that were drawn, and goes on above those that were committed.  While the    *)
(* total is too large, the call that touched last has not given up (Attended). *)
EXTENDS Eviction, FiniteSetTheorems, FunctionTheorems, TLAPS, WellFoundedInduction

(* What a call has drawn and not committed is its own.                         *)
Drawn(t) ==
    pc[t] = "touch" =>
        /\ seq[t] # 0
        /\ \A d \in Digests : record[d] # seq[t]
        /\ \A u \in Tasks : pc[u] = "touch" /\ seq[u] = seq[t] => u = t

IInv == TypeOK /\ OrderOfUse /\ \A t \in Tasks : Drawn(t)

USE DEF index, locals, PCs

-----------------------------------------------------------------------------
(* A nonempty set of naturals has a least member ...                           *)
LEMMA LeastNatural ==
    ASSUME NEW S \in SUBSET Nat, S # {}
    PROVE  \E m \in S : \A n \in S : m <= n
<1>. DEFINE R == OpToRel(<, Nat)
<1>1. IsWellFoundedOn(R, Nat)
  BY NatLessThanWellFounded
<1>2. PICK m \in S : \A n \in S : ~(<<n, m>> \in R)
  <2>. HIDE DEF R
  <2>. QED
    BY <1>1, WFMin
<1>3. \A n \in S : n < m => <<n, m>> \in R
  BY DEF OpToRel
<1>. HIDE DEF R
<1>4. \A n \in S : ~(n < m)
  BY <1>2, <1>3
<1>. QED
  BY <1>4

(* ... and one that is bounded a greatest, which is what Max gives.            *)
LEMMA MaxBounded ==
    ASSUME NEW S \in SUBSET Nat, S # {}, NEW b \in Nat, \A n \in S : n <= b
    PROVE  Max(S) \in S /\ \A n \in S : n <= Max(S)
<1>. DEFINE B == {m \in Nat : \A n \in S : n <= m}
<1>1. PICK m \in B : \A n \in B : m <= n
  <2>1. B \in SUBSET Nat /\ b \in B
    OBVIOUS
  <2>. HIDE DEF B
  <2>. QED
    BY <2>1, LeastNatural
<1>2. m \in S
  <2>. SUFFICES ASSUME m \notin S PROVE FALSE
    OBVIOUS
  <2>1. \A n \in S : n < m
    BY <1>1
  <2>2. PICK n \in S : TRUE
    OBVIOUS
  <2>3. m \in Nat /\ n \in Nat /\ n < m
    BY <2>1
  <2>4. m - 1 \in Nat /\ \A k \in S : k <= m - 1
    BY <2>1, <2>3
  <2>. QED
    BY <1>1, <2>3, <2>4
<1>3. m \in S /\ \A n \in S : m >= n
  BY <1>1, <1>2
<1>. QED
  BY <1>3 DEF Max

(* The number a restart goes on with is above every number committed.          *)
LEMMA NextAfterRestart ==
    ASSUME TypeOK
    PROVE  LET last == Max({record[d] : d \in Digests})
           IN  last \in Nat /\ \A d \in Digests : record[d] <= last
<1>. DEFINE S == {record[d] : d \in Digests}
<1>1. S \in SUBSET Nat /\ S # {} /\ next_seq - 1 \in Nat /\ \A n \in S : n <= next_seq - 1
  BY DigestsType DEF TypeOK
<1>2. Max(S) \in S /\ \A n \in S : n <= Max(S)
  <2>. HIDE DEF S
  <2>. QED
    BY <1>1, MaxBounded
<1>. QED
  BY <1>1, <1>2

-----------------------------------------------------------------------------
(* A step that commits and draws nothing: pc moves, but not to "touch".        *)
LEMMA NothingDrawn ==
    ASSUME IInv, UNCHANGED next_seq, TypeOK',
           \A d \in Digests : record'[d] \in {record[d], 0},
           \A t \in Tasks : pc'[t] = "touch" => pc[t] = "touch" /\ seq'[t] = seq[t]
    PROVE  IInv'
<1>1. OrderOfUse'
  BY DEF IInv, TypeOK, OrderOfUse, Recorded
<1>2. ASSUME NEW t \in Tasks PROVE Drawn(t)'
  BY DEF IInv, Drawn
<1>. QED
  BY <1>1, <1>2 DEF IInv

(* A call that has returned.                                                   *)
LEMMA Returned ==
    ASSUME TypeOK, NEW t \in Tasks, Return(t), UNCHANGED next_seq
    PROVE  /\ pc' \in [Tasks -> PCs] /\ protect' \in [Tasks -> Digests \union {NoDigest}]
           /\ seq' \in [Tasks -> 0..(next_seq - 1)] /\ victim' \in [Tasks -> Digests \union {NoDigest}]
           /\ \A u \in Tasks : pc'[u] = "touch" => pc[u] = "touch" /\ seq'[u] = seq[u]
BY DEF TypeOK, Return, Goto

LEMMA InitInv == Init => IInv
<1>. SUFFICES ASSUME Init PROVE IInv
  OBVIOUS
<1>1. 0 \in 0..(next_seq - 1) /\ next_seq \in Nat \ {0}
  BY DEF Init
<1>2. TypeOK
  BY <1>1 DEF Init, TypeOK
<1>3. OrderOfUse /\ \A t \in Tasks : Drawn(t)
  BY DEF Init, OrderOfUse, Recorded, Drawn
<1>. QED
  BY <1>2, <1>3 DEF IInv

LEMMA NextInv == IInv /\ [Next]_vars => IInv'
<1>. SUFFICES ASSUME IInv, [Next]_vars PROVE IInv'
  OBVIOUS
<1>. TypeOK
  BY DEF IInv
<1>1. ASSUME NEW t \in Tasks, NEW d \in Digests, Get(t, d) \/ CollectBlob(t, d) PROVE IInv'
  <2>1. TypeOK'
    BY <1>1 DEF TypeOK, Get, CollectBlob, Goto
  <2>. QED
    BY <1>1, <2>1, NothingDrawn DEF TypeOK, Get, CollectBlob, Goto
<1>2. ASSUME NEW t \in Tasks, Stat(t) PROVE IInv'
  <2>1. CASE Goto(t, "draw") /\ UNCHANGED locals
    <3>. TypeOK'
      BY <1>2, <2>1 DEF TypeOK, Stat, Goto
    <3>. QED
      BY <1>2, <2>1, NothingDrawn DEF TypeOK, Stat, Goto
  <2>2. CASE Return(t)
    <3>. TypeOK'
      BY <1>2, <2>2, Returned DEF TypeOK, Stat
    <3>. QED
      BY <1>2, <2>2, Returned, NothingDrawn DEF Stat
  <2>. QED
    BY <1>2, <2>1, <2>2 DEF Stat
<1>3. ASSUME NEW t \in Tasks, Draw(t) PROVE IInv'
  <2>1. TypeOK'
    BY <1>3 DEF TypeOK, Draw, Goto
  <2>2. OrderOfUse'
    BY <1>3 DEF IInv, TypeOK, Draw, OrderOfUse, Recorded
  <2>3. ASSUME NEW u \in Tasks PROVE Drawn(u)'
    BY <1>3 DEF IInv, TypeOK, OrderOfUse, Draw, Drawn, Goto
  <2>. QED
    BY <2>1, <2>2, <2>3 DEF IInv
<1>4. ASSUME NEW t \in Tasks, Touch(t) PROVE IInv'
  <2>0. pc[t] = "touch" /\ Drawn(t)
    BY <1>4 DEF IInv, Touch
  <2>1. TypeOK'
    BY <1>4 DEF TypeOK, Touch, Goto
  <2>2. OrderOfUse'
    BY <1>4, <2>0 DEF IInv, TypeOK, Touch, OrderOfUse, Recorded, Drawn
  <2>3. ASSUME NEW u \in Tasks PROVE Drawn(u)'
    BY <1>4, <2>0 DEF IInv, TypeOK, Touch, Drawn, Goto
  <2>. QED
    BY <2>1, <2>2, <2>3 DEF IInv
<1>5. ASSUME NEW t \in Tasks, CheckTotal(t) PROVE IInv'
  <2>1. CASE Return(t)
    <3>. TypeOK'
      BY <1>5, <2>1, Returned DEF TypeOK, CheckTotal
    <3>. QED
      BY <1>5, <2>1, Returned, NothingDrawn DEF CheckTotal
  <2>2. CASE Goto(t, "lru") /\ UNCHANGED <<locals, disordered, cut>>
    <3>. TypeOK'
      BY <1>5, <2>2 DEF TypeOK, CheckTotal, Goto
    <3>. QED
      BY <1>5, <2>2, NothingDrawn DEF TypeOK, CheckTotal, Goto
  <2>. QED
    BY <1>5, <2>1, <2>2 DEF CheckTotal
<1>6. ASSUME NEW t \in Tasks, ChooseVictim(t) PROVE IInv'
  <2>1. CASE Return(t)
    <3>. TypeOK'
      BY <1>6, <2>1, Returned DEF TypeOK, ChooseVictim
    <3>. QED
      BY <1>6, <2>1, Returned, NothingDrawn DEF ChooseVictim
  <2>2. ASSUME NEW d \in Digests, victim' = [victim EXCEPT ![t] = d], Goto(t, "unlink"),
               UNCHANGED <<protect, seq>>
        PROVE  IInv'
    <3>. TypeOK'
      BY <1>6, <2>2 DEF TypeOK, ChooseVictim, Goto
    <3>. QED
      BY <1>6, <2>2, NothingDrawn DEF TypeOK, ChooseVictim, Goto
  <2>. QED
    BY <1>6, <2>1, <2>2 DEF ChooseVictim, LeastRecentlyUsed, Recorded
<1>7. ASSUME NEW t \in Tasks, Unlink(t) PROVE IInv'
  <2>. TypeOK'
    BY <1>7 DEF TypeOK, Unlink, Goto
  <2>. QED
    BY <1>7, NothingDrawn DEF TypeOK, Unlink, Goto
<1>8. ASSUME NEW t \in Tasks, Forget(t) PROVE IInv'
  <2>0. /\ record' \in [Digests -> 0..(next_seq - 1)] /\ UNCHANGED next_seq
        /\ \A d \in Digests : record'[d] \in {record[d], 0}
    <3>1. /\ record \in [Digests -> 0..(next_seq - 1)] /\ 0 \in 0..(next_seq - 1)
          /\ record' = [record EXCEPT ![victim[t]] = 0] /\ UNCHANGED next_seq
      BY <1>8 DEF TypeOK, Forget
    <3>. QED
      BY <3>1
  <2>1. CASE Return(t)
    <3>. TypeOK'
      BY <1>8, <2>0, <2>1, Returned DEF TypeOK, Forget
    <3>. QED
      BY <2>0, <2>1, Returned, NothingDrawn
  <2>2. CASE /\ Goto(t, "total") /\ victim' = [victim EXCEPT ![t] = NoDigest]
             /\ UNCHANGED <<protect, seq>>
    <3>. TypeOK'
      BY <1>8, <2>0, <2>2 DEF TypeOK, Forget, Goto
    <3>. QED
      BY <2>0, <2>2, NothingDrawn DEF TypeOK, Goto
  <2>. QED
    BY <1>8, <2>1, <2>2 DEF Forget
<1>9. ASSUME NEW t \in Tasks, IoError(t) \/ LateUnlink(t) PROVE IInv'
  <2>1. Return(t) /\ UNCHANGED index
    BY <1>9 DEF IoError, LateUnlink
  <2>. TypeOK'
    BY <1>9, <2>1, Returned DEF TypeOK, IoError, LateUnlink
  <2>. QED
    BY <2>1, Returned, NothingDrawn
<1>10. ASSUME NEW t \in Tasks, Cancel(t) PROVE IInv'
  <2>1. CASE Return(t)
    <3>. TypeOK'
      BY <1>10, <2>1, Returned DEF TypeOK, Cancel
    <3>. QED
      BY <1>10, <2>1, Returned, NothingDrawn DEF Cancel
  <2>2. CASE Goto(t, "late") /\ UNCHANGED locals
    <3>. TypeOK'
      BY <1>10, <2>2 DEF TypeOK, Cancel, Goto
    <3>. QED
      BY <1>10, <2>2, NothingDrawn DEF TypeOK, Cancel, Goto
  <2>. QED
    BY <1>10, <2>1, <2>2 DEF Cancel
<1>11. ASSUME NEW d \in Digests, Serve(d) PROVE IInv'
  <2>. TypeOK'
    BY <1>11 DEF TypeOK, Serve
  <2>. QED
    BY <1>11, NothingDrawn DEF Serve
<1>12. CASE Restart
  <2>. DEFINE last == Max({record[d] : d \in Digests})
  <2>1. last \in Nat /\ (\A d \in Digests : record[d] <= last) /\ next_seq' = last + 1
    BY <1>12, NextAfterRestart DEF Restart
  <2>. HIDE DEF last
  <2>2. TypeOK'
    <3>1. next_seq' \in Nat \ {0} /\ 0 \in 0..(next_seq' - 1)
      BY <2>1
    <3>2. record' = record /\ record \in [Digests -> Nat]
      BY <1>12 DEF Restart, IInv, TypeOK
    <3>3. record' \in [Digests -> 0..(next_seq' - 1)]
      BY <2>1, <3>2
    <3>4. seq' \in [Tasks -> 0..(next_seq' - 1)]
      BY <1>12, <3>1 DEF Restart
    <3>. QED
      BY <1>12, <3>1, <3>3, <3>4 DEF TypeOK, Restart, IInv
  <2>3. OrderOfUse'
    BY <1>12, <2>1 DEF IInv, TypeOK, OrderOfUse, Recorded, Restart
  <2>4. ASSUME NEW t \in Tasks PROVE Drawn(t)'
    BY <1>12 DEF Drawn, Restart
  <2>. QED
    BY <2>2, <2>3, <2>4 DEF IInv
<1>13. CASE UNCHANGED vars
  BY <1>13 DEF vars, IInv, TypeOK, OrderOfUse, Recorded, Drawn
<1>. QED
  BY <1>1, <1>2, <1>3, <1>4, <1>5, <1>6, <1>7, <1>8, <1>9, <1>10, <1>11, <1>12, <1>13
     DEF Next, Advance

LEMMA Invariant == Spec => []IInv
BY InitInv, NextInv, PTL DEF Spec

(* Every variable stays in its domain, numbers below the next one to be drawn, *)
(* through restarts.                                                           *)
THEOREM TypeCorrect == Spec => []TypeOK
<1>1. IInv => TypeOK
  BY DEF IInv
<1>. QED
  BY <1>1, Invariant, PTL

(* touch and AccessIndex::open keep an order of use: no two blobs share a      *)
(* place in it, and the next to be used comes after all.                       *)
THEOREM OrderIsKept == Spec => []OrderOfUse
<1>1. IInv => OrderOfUse
  BY DEF IInv
<1>. QED
  BY <1>1, Invariant, PTL

-----------------------------------------------------------------------------
(* Among subsets of a finite set one is minimal.                               *)
LEMMA MinimalSubset ==
    ASSUME NEW S, IsFiniteSet(S), NEW B \in SUBSET SUBSET S, B # {}
    PROVE  \E T \in B : \A U \in SUBSET T : U # T => U \notin B
<1>1. IsWellFoundedOn(StrictSubsetOrdering(S), SUBSET S)
  BY FS_StrictSubsetOrderingWellFounded, FS_FiniteSubsetsOfFinite
<1>2. PICK T \in B : \A U \in B : ~(<<U, T>> \in StrictSubsetOrdering(S))
  BY <1>1, WFMin
<1>. QED
  BY <1>2 DEF StrictSubsetOrdering

(* The bytes of the blobs in S, one by one.  Their number is what the fold of  *)
(* TotalSize adds up, in whatever order it takes the blobs.                    *)
Bytes(S) == {b \in S \X Nat : b[2] \in 1..Size[b[1]]}

(* The fold itself: f has the sum of each subset of S, one blob after another. *)
First(S) == CHOOSE d \in S : TRUE
Sums(S, f) == f = [s \in SUBSET S |-> IF s = {} THEN 0 ELSE Size[First(s)] + f[s \ {First(s)}]]
SumOf(S) == CHOOSE f : Sums(S, f)

LEMMA BytesOfOne ==
    ASSUME NEW d \in Digests
    PROVE  IsFiniteSet(Bytes({d})) /\ Cardinality(Bytes({d})) = Size[d]
<1>. DEFINE f == [i \in 1..Size[d] |-> <<d, i>>]
<1>0. Size[d] \in Nat
  BY SizesPositive
<1>1. f \in Bijection(1..Size[d], Bytes({d}))
  <2>1. f \in [1..Size[d] -> Bytes({d})]
    BY <1>0 DEF Bytes
  <2>2. \A i, j \in 1..Size[d] : f[i] = f[j] => i = j
    OBVIOUS
  <2>3. \A b \in Bytes({d}) : b[2] \in 1..Size[d] /\ f[b[2]] = b
    BY <1>0 DEF Bytes
  <2>. HIDE DEF f
  <2>. QED
    BY <2>1, <2>2, <2>3, Fun_IsBij
<1>2. ExistsBijection(1..Size[d], Bytes({d}))
  BY <1>1 DEF ExistsBijection
<1>. QED
  BY <1>0, <1>2, FS_NatBijection, FS_CountingElements

LEMMA BytesSplit ==
    ASSUME NEW S \in SUBSET Digests, NEW d \in S, IsFiniteSet(Bytes(S \ {d}))
    PROVE  IsFiniteSet(Bytes(S)) /\ Cardinality(Bytes(S)) = Size[d] + Cardinality(Bytes(S \ {d}))
<1>1. Bytes(S) = Bytes({d}) \union Bytes(S \ {d}) /\ Bytes({d}) \intersect Bytes(S \ {d}) = {}
  BY DEF Bytes
<1>2. Size[d] \in Nat /\ Cardinality(Bytes(S \ {d})) \in Nat
  BY SizesPositive, FS_CardinalityType
<1>. QED
  <2>1. IsFiniteSet(Bytes({d})) /\ Cardinality(Bytes({d})) = Size[d]
    BY BytesOfOne
  <2>. DEFINE A == Bytes({d})
              B == Bytes(S \ {d})
  <2>. HIDE DEF A, B
  <2>2. /\ IsFiniteSet(A \union B)
        /\ Cardinality(A \union B) = Cardinality(A) + Cardinality(B) - Cardinality(A \intersect B)
    <3>1. IsFiniteSet(A) /\ IsFiniteSet(B)
      BY <2>1 DEF A, B
    <3>. QED
      BY <3>1, FS_Union
  <2>3. Cardinality(A \intersect B) = 0
    BY <1>1, FS_EmptySet DEF A, B
  <2>. QED
    BY <1>1, <1>2, <2>1, <2>2, <2>3 DEF A, B

LEMMA BytesFinite ==
    ASSUME NEW S \in SUBSET Digests, IsFiniteSet(S)
    PROVE  IsFiniteSet(Bytes(S))
<1>. DEFINE Bad == {T \in SUBSET S : ~IsFiniteSet(Bytes(T))}
<1>1. ASSUME Bad # {} PROVE FALSE
  <2>1. PICK T \in Bad : \A U \in SUBSET T : U # T => U \notin Bad
    <3>1. Bad \in SUBSET SUBSET S
      OBVIOUS
    <3>. HIDE DEF Bad
    <3>. QED
      BY <1>1, <3>1, MinimalSubset
  <2>2. T # {}
    <3>1. Bytes({}) = {}
      BY DEF Bytes
    <3>. QED
      BY <3>1, FS_EmptySet
  <2>3. PICK d \in T : TRUE
    BY <2>2
  <2>4. IsFiniteSet(Bytes(T \ {d}))
    BY <2>1
  <2>. QED
    BY <2>4, BytesSplit
<1>. QED
  BY <1>1

LEMMA SumCounts ==
    ASSUME NEW S \in SUBSET Digests, IsFiniteSet(S)
    PROVE  SumOf(S)[S] = Cardinality(Bytes(S))
<1>. DEFINE c == [s \in SUBSET S |-> Cardinality(Bytes(s))]
            f == SumOf(S)
            Bad == {T \in SUBSET S : f[T] # Cardinality(Bytes(T))}
<1>1. \A T \in SUBSET S : IsFiniteSet(Bytes(T))
  BY FS_Subset, BytesFinite
<1>2. ASSUME NEW T \in SUBSET S, T # {}
      PROVE  /\ First(T) \in T
             /\ Cardinality(Bytes(T)) = Size[First(T)] + Cardinality(Bytes(T \ {First(T)}))
  BY <1>1, <1>2, BytesSplit DEF First
<1>3. Cardinality(Bytes({})) = 0
  <2>1. Bytes({}) = {}
    BY DEF Bytes
  <2>. QED
    BY <2>1, FS_EmptySet
<1>4. Sums(S, c)
  BY <1>2, <1>3 DEF Sums
<1>5. Sums(S, f)
  BY <1>4 DEF SumOf
<1>. HIDE DEF f
<1>6. ASSUME NEW T \in SUBSET S
      PROVE  f[T] = IF T = {} THEN 0 ELSE Size[First(T)] + f[T \ {First(T)}]
  BY <1>5 DEF Sums
<1>7. ASSUME Bad # {} PROVE FALSE
  <2>1. PICK T \in Bad : \A U \in SUBSET T : U # T => U \notin Bad
    <3>1. Bad \in SUBSET SUBSET S
      OBVIOUS
    <3>. HIDE DEF Bad
    <3>. QED
      BY <1>7, <3>1, MinimalSubset
  <2>2. T # {}
    BY <1>3, <1>6
  <2>3. First(T) \in T
    BY <1>2, <2>2
  <2>4. f[T \ {First(T)}] = Cardinality(Bytes(T \ {First(T)}))
    BY <2>1, <2>3
  <2>. QED
    BY <1>2, <1>6, <2>2, <2>4
<1>. QED
  BY <1>7 DEF f

LEMMA TotalCounts ==
    ASSUME IsFiniteSet(Recorded)
    PROVE  TotalSize = Cardinality(Bytes(Recorded))
<1>1. TotalSize = SumOf(Recorded)[Recorded]
  BY DEF TotalSize, MapThenSumSet, MapThenFoldSet, SumOf, Sums, First
<1>. QED
  BY <1>1, SumCounts DEF Recorded

(* Hence an empty index is of size 0, and forgetting a blob does not add size. *)
LEMMA TotalShrinks ==
    ASSUME IsFiniteSet(Recorded), TypeOK
    PROVE  /\ TotalSize \in Nat
           /\ Recorded = {} => TotalSize = 0
           /\ Recorded' \subseteq Recorded =>
                 /\ IsFiniteSet(Recorded') /\ TotalSize' \in Nat /\ TotalSize' <= TotalSize
<1>1. TotalSize = Cardinality(Bytes(Recorded)) /\ IsFiniteSet(Bytes(Recorded))
  BY TotalCounts, BytesFinite DEF Recorded
<1>2. TotalSize \in Nat
  BY <1>1, FS_CardinalityType
<1>3. Recorded = {} => TotalSize = 0
  <2>1. Bytes({}) = {}
    BY DEF Bytes
  <2>. QED
    BY <1>1, <2>1, FS_EmptySet
<1>4. ASSUME Recorded' \subseteq Recorded
      PROVE  IsFiniteSet(Recorded') /\ TotalSize' \in Nat /\ TotalSize' <= TotalSize
  <2>1. IsFiniteSet(Recorded')
    BY <1>4, FS_Subset
  <2>2. TotalSize' = Cardinality(Bytes(Recorded')) /\ IsFiniteSet(Bytes(Recorded'))
    <3>1. TotalSize' = SumOf(Recorded')[Recorded']
      BY DEF TotalSize, MapThenSumSet, MapThenFoldSet, SumOf, Sums, First
    <3>2. Recorded' \in SUBSET Digests
      BY <1>4 DEF Recorded
    <3>. QED
      BY <2>1, <3>1, <3>2, SumCounts, BytesFinite
  <2>3. Bytes(Recorded') \subseteq Bytes(Recorded)
    BY <1>4 DEF Bytes
  <2>. QED
    <3>1. ASSUME NEW A, NEW B, IsFiniteSet(B), A \subseteq B
          PROVE  Cardinality(A) \in Nat /\ Cardinality(A) <= Cardinality(B)
      BY <3>1, FS_Subset, FS_CardinalityType
    <3>. QED
      BY <1>1, <2>1, <2>2, <2>3, <3>1
<1>. QED
  BY <1>2, <1>3, <1>4

-----------------------------------------------------------------------------
(* Who has a blob to protect, and goes on to look at the total again.          *)
Called(t) == pc[t] \in {"stat", "draw", "touch", "total", "lru"} => protect[t] # NoDigest
Evicting(t) == pc[t] \in {"total", "lru", "unlink", "forget"} /\ protect[t] # NoDigest

(* Nobody has touched a blob after t has.                                      *)
Last(t) ==
    /\ Evicting(t)
    /\ \A d \in Digests : record[d] <= seq[t]
    /\ record[protect[t]] \in {0, seq[t]}

(* Where the recorded total is too large, the last call is still evicting: it  *)
(* ends only when the total fits or its own blob, the last of all to go, is    *)
(* the only one.  Earlier calls may give up before, on their own blobs.        *)
Attended ==
    ~disordered /\ ~cut /\ TotalSize > Capacity /\ Cardinality(Recorded) # 1
        => \E t \in Tasks : Last(t)

FitInv ==
    /\ IsFiniteSet(Recorded)
    /\ \A t \in Tasks : Called(t)
    /\ Attended

(* A step in which nobody forgets or records, or gives up as the last.         *)
LEMMA StillAttended ==
    ASSUME FitInv, UNCHANGED record,
           \A t \in Tasks : Called(t)',
           \/ cut' = TRUE
           \/ TotalSize <= Capacity /\ TypeOK
           \/ UNCHANGED <<disordered, cut>> /\ \A t \in Tasks : Last(t) => Last(t)'
           \/ UNCHANGED <<disordered, cut>> /\ Cardinality(Recorded) = 1
    PROVE  FitInv'
<1>1. Recorded' = Recorded
  BY DEF Recorded
<1>2. TotalSize' = TotalSize
  BY <1>1 DEF TotalSize, MapThenSumSet, MapThenFoldSet
<1>3. TypeOK => TotalSize \in Nat
  BY TotalShrinks DEF FitInv
<1>4. Attended'
  BY <1>1, <1>2, <1>3, SizesPositive DEF FitInv, Attended
<1>. QED
  BY <1>1, <1>4 DEF FitInv

LEMMA InitFits == Init => FitInv
<1>. SUFFICES ASSUME Init PROVE FitInv
  OBVIOUS
<1>1. Recorded = {}
  BY DEF Init, Recorded
<1>2. TotalSize = 0
  BY <1>1, InitInv, FS_EmptySet, TotalShrinks DEF IInv
<1>. QED
  BY <1>1, <1>2, FS_EmptySet, SizesPositive DEF Init, FitInv, Attended, Called

LEMMA NextFits == IInv /\ IInv' /\ FitInv /\ [Next]_vars => FitInv'
<1>. SUFFICES ASSUME IInv, IInv', FitInv, [Next]_vars PROVE FitInv'
  OBVIOUS
<1>. TypeOK /\ TypeOK' /\ OrderOfUse /\ IsFiniteSet(Recorded) /\ \A t \in Tasks : Called(t)
  BY DEF IInv, FitInv
<1>1. ASSUME NEW t \in Tasks, NEW d \in Digests, Get(t, d) \/ CollectBlob(t, d) PROVE FitInv'
  <2>1. /\ pc[t] = "idle" /\ UNCHANGED <<record, disordered, cut>> /\ seq' = seq
        /\ \A u \in Tasks \ {t} : pc'[u] = pc[u] /\ protect'[u] = protect[u]
        /\ (pc'[t] = "stat" /\ protect'[t] = d) \/ pc'[t] = "unlink"
    BY <1>1 DEF TypeOK, Get, CollectBlob, Goto
  <2>2. \A u \in Tasks : Called(u)'
    BY <2>1, DigestsType DEF Called
  <2>3. \A u \in Tasks : Last(u) => Last(u)'
    BY <2>1 DEF Last, Evicting
  <2>. QED
    BY <2>1, <2>2, <2>3, StillAttended
<1>2. ASSUME NEW t \in Tasks, Return(t) PROVE \A u \in Tasks : Called(u)'
  BY <1>2 DEF TypeOK, Return, Goto, Called
<1>3. ASSUME NEW t \in Tasks, Return(t), UNCHANGED <<record, disordered, cut>>, ~Last(t) PROVE FitInv'
  <2>1. \A u \in Tasks \ {t} : pc'[u] = pc[u] /\ protect'[u] = protect[u] /\ seq'[u] = seq[u]
    BY <1>3 DEF TypeOK, Return, Goto
  <2>2. \A u \in Tasks : Last(u) => Last(u)'
    BY <1>3, <2>1 DEF Last, Evicting
  <2>. QED
    BY <1>2, <1>3, <2>2, StillAttended
(* A call that goes on, with what it is about.                                 *)
<1>4. ASSUME NEW t \in Tasks, NEW l \in PCs, Goto(t, l), UNCHANGED <<record, disordered, cut, protect>>,
             \A u \in Tasks \ {t} : seq'[u] = seq[u],
             Last(t) => seq'[t] = seq[t] /\ l \in {"lru", "unlink", "forget"},
             l \in {"unlink", "forget"} \/ protect[t] # NoDigest
      PROVE  FitInv'
  <2>1. pc'[t] = l /\ \A u \in Tasks \ {t} : pc'[u] = pc[u]
    BY <1>4 DEF TypeOK, Goto
  <2>2. \A u \in Tasks : Called(u)'
    BY <1>4, <2>1 DEF Called
  <2>3. \A u \in Tasks : Last(u) => Last(u)'
    BY <1>4, <2>1 DEF Last, Evicting
  <2>. QED
    BY <1>4, <2>2, <2>3, StillAttended
<1>5. ASSUME NEW t \in Tasks, Stat(t) PROVE FitInv'
  <2>1. ~Last(t) /\ protect[t] # NoDigest
    BY <1>5 DEF Stat, Last, Evicting, Called
  <2>. QED
    BY <1>3, <1>4, <1>5, <2>1 DEF Stat
<1>6. ASSUME NEW t \in Tasks, Draw(t) PROVE FitInv'
  <2>1. ~Last(t) /\ protect[t] # NoDigest
    BY <1>6 DEF Draw, Last, Evicting, Called
  <2>2. \A u \in Tasks \ {t} : seq'[u] = seq[u]
    BY <1>6 DEF Draw, TypeOK
  <2>. QED
    BY <1>4, <1>6, <2>1, <2>2 DEF Draw
<1>7. ASSUME NEW t \in Tasks, Touch(t) PROVE FitInv'
  <2>0. pc[t] = "touch" /\ protect[t] \in Digests
    BY <1>7 DEF Touch, Called, TypeOK
  <2>1. /\ record' = [record EXCEPT ![protect[t]] = seq[t]] /\ UNCHANGED locals /\ pc'[t] = "total"
        /\ \A u \in Tasks \ {t} : pc'[u] = pc[u]
    BY <1>7 DEF Touch, Goto, TypeOK
  <2>2. IsFiniteSet(Recorded')
    <3>1. Recorded' \subseteq Recorded \union {protect[t]}
      BY <2>0, <2>1 DEF Recorded, TypeOK
    <3>2. IsFiniteSet(Recorded \union {protect[t]})
      BY FS_AddElement
    <3>. QED
      BY <3>1, <3>2, FS_Subset
  <2>3. \A u \in Tasks : Called(u)'
    BY <2>0, <2>1, DigestsType DEF Called
  <2>4. ~disordered' => Last(t)'
    <3>1. SUFFICES ASSUME ~disordered' PROVE Last(t)'
      OBVIOUS
    <3>2. \A d \in Digests : ~(record[d] > seq[t])
      BY <1>7, <3>1 DEF Touch
    <3>3. \A d \in Digests : record[d] \in Nat /\ seq[t] \in Nat
      BY DEF TypeOK
    <3>4. \A d \in Digests : record'[d] <= seq[t]
      BY <2>0, <2>1, <3>2, <3>3 DEF TypeOK
    <3>5. record'[protect[t]] = seq[t]
      BY <2>0, <2>1 DEF TypeOK
    <3>. QED
      BY <2>0, <2>1, <3>4, <3>5, DigestsType DEF Last, Evicting
  <2>. QED
    BY <2>2, <2>3, <2>4 DEF FitInv, Attended
<1>8. ASSUME NEW t \in Tasks, CheckTotal(t) PROVE FitInv'
  <2>1. CASE TotalSize <= Capacity /\ Return(t)
    BY <1>2, <1>8, <2>1, StillAttended DEF CheckTotal
  <2>2. CASE Goto(t, "lru") /\ UNCHANGED <<locals, disordered, cut>>
    BY <1>4, <1>8, <2>2 DEF CheckTotal, Called
  <2>. QED
    BY <1>8, <2>1, <2>2 DEF CheckTotal
<1>9. ASSUME NEW t \in Tasks, ChooseVictim(t) PROVE FitInv'
  <2>0. pc[t] = "lru" /\ protect[t] # NoDigest /\ UNCHANGED <<record, disordered, cut>>
    BY <1>9 DEF ChooseVictim, Called
  <2>1. CASE Recorded = {} /\ Return(t)
    <3>1. TotalSize <= Capacity
      BY <2>1, TotalShrinks, SizesPositive
    <3>. QED
      BY <1>2, <2>0, <2>1, <3>1, StillAttended
  <2>2. CASE protect[t] \in LeastRecentlyUsed /\ Return(t)
    <3>1. CASE ~Last(t)
      BY <1>3, <2>0, <2>2, <3>1
    <3>2. CASE Last(t)
      <4>1. protect[t] \in Recorded /\ record[protect[t]] = seq[t]
        BY <2>2, <3>2 DEF LeastRecentlyUsed, Last, Recorded
      <4>2. ASSUME NEW e \in Recorded PROVE e = protect[t]
        <5>1. record[protect[t]] <= record[e] /\ record[e] <= seq[t]
          BY <2>2, <3>2 DEF LeastRecentlyUsed, Last, Recorded
        <5>2. record[e] = record[protect[t]]
          BY <4>1, <5>1 DEF TypeOK, Recorded
        <5>. QED
          BY <4>1, <5>2 DEF OrderOfUse
      <4>3. Recorded = {protect[t]}
        BY <4>1, <4>2
      <4>4. Cardinality(Recorded) = 1
        BY <4>3, FS_Singleton
      <4>. QED
        BY <1>2, <2>0, <2>2, <4>4, StillAttended
    <3>. QED
      BY <3>1, <3>2
  <2>3. CASE Goto(t, "unlink") /\ UNCHANGED <<protect, seq>>
    BY <1>4, <2>0, <2>3
  <2>. QED
    BY <1>9, <2>1, <2>2, <2>3 DEF ChooseVictim
<1>10. ASSUME NEW t \in Tasks, Unlink(t) PROVE FitInv'
  BY <1>4, <1>10 DEF Unlink
<1>11. ASSUME NEW t \in Tasks, Forget(t) PROVE FitInv'
  <2>0. pc[t] = "forget" /\ record' = [record EXCEPT ![victim[t]] = 0] /\ UNCHANGED <<disordered, cut>>
    BY <1>11 DEF Forget
  <2>1. \A d \in Digests : record'[d] \in {0, record[d]}
    BY <2>0 DEF TypeOK
  <2>2. Recorded' \subseteq Recorded
    BY <2>1 DEF Recorded
  <2>3. \A u \in Tasks : Called(u)'
    <3>1. CASE Return(t)
      BY <1>2, <3>1
    <3>2. CASE Goto(t, "total") /\ UNCHANGED protect /\ protect[t] # NoDigest
      BY <3>2 DEF Called, Goto, TypeOK
    <3>. QED
      BY <1>11, <3>1, <3>2 DEF Forget
  <2>4. ASSUME NEW u \in Tasks, Last(u) PROVE Last(u)'
    <3>1. Evicting(u)' /\ protect'[u] = protect[u] /\ seq'[u] = seq[u]
      BY <1>11, <2>4 DEF Forget, Return, Goto, Last, Evicting, TypeOK
    <3>2. protect[u] \in Digests /\ seq[u] \in Nat /\ \A d \in Digests : record[d] \in Nat
      BY <2>4 DEF Last, Evicting, TypeOK
    <3>3. \A d \in Digests : record'[d] <= seq[u]
      BY <2>1, <2>4, <3>2 DEF Last
    <3>4. record'[protect[u]] \in {0, seq[u]}
      BY <2>1, <2>4, <3>2 DEF Last
    <3>. QED
      BY <3>1, <3>3, <3>4 DEF Last
  <2>5. Attended'
    <3>1. SUFFICES ASSUME ~disordered, ~cut, TotalSize' > Capacity, Cardinality(Recorded') # 1
                   PROVE  \E u \in Tasks : Last(u)'
      BY <2>0 DEF Attended
    <3>2. TotalSize > Capacity
      BY <2>2, <3>1, TotalShrinks, SizesPositive
    <3>3. Cardinality(Recorded) # 1
      <4>1. SUFFICES ASSUME NEW d, Recorded = {d} PROVE FALSE
        BY FS_Singleton
      <4>2. Recorded' = {}
        BY <2>2, <3>1, <4>1, FS_Singleton
      <4>3. TotalSize' = 0
        <5>1. TotalSize' = SumOf({})[{}]
          BY <4>2 DEF TotalSize, MapThenSumSet, MapThenFoldSet, SumOf, Sums, First
        <5>2. Bytes({}) = {}
          BY DEF Bytes
        <5>. QED
          BY <5>1, <5>2, SumCounts, FS_EmptySet
      <4>. QED
        BY <3>1, <4>3, SizesPositive
    <3>4. PICK u \in Tasks : Last(u)
      BY <3>1, <3>2, <3>3 DEF FitInv, Attended
    <3>. QED
      BY <2>4, <3>4
  <2>. QED
    BY <2>2, <2>3, <2>5, FS_Subset DEF FitInv
<1>12. ASSUME NEW t \in Tasks, IoError(t) PROVE FitInv'
  BY <1>2, <1>12, StillAttended DEF IoError
<1>13. ASSUME NEW t \in Tasks, LateUnlink(t) PROVE FitInv'
  BY <1>3, <1>13 DEF LateUnlink, Last, Evicting
<1>14. ASSUME NEW t \in Tasks, Cancel(t) PROVE FitInv'
  <2>1. \A u \in Tasks : Called(u)'
    BY <1>2, <1>14 DEF Cancel, Called, Goto, TypeOK
  <2>. QED
    BY <1>14, <2>1, StillAttended DEF Cancel
<1>15. ASSUME NEW d \in Digests, Serve(d) PROVE FitInv'
  BY <1>15, StillAttended DEF Serve, Called, Last, Evicting
<1>16. CASE Restart
  <2>1. \A u \in Tasks : Called(u)'
    BY <1>16 DEF Restart, Called
  <2>. QED
    BY <1>16, <2>1, StillAttended DEF Restart
<1>17. CASE UNCHANGED vars
  BY <1>17, StillAttended DEF vars, Called, Last, Evicting
<1>. QED
  BY <1>1, <1>5, <1>6, <1>7, <1>8, <1>9, <1>10, <1>11, <1>12, <1>13, <1>14, <1>15, <1>16, <1>17
     DEF Next, Advance

(* REQ-0023 for what the index records: whichever calls ran at once, once they *)
(* are through the recorded total fits, or one blob is left that is too large. *)
(* Touches committed out of order, and evictions cut short, are excepted.      *)
THEOREM RecordedTotalFits == Spec => []RecordedFits
<1>1. Init => FitInv
  BY InitFits
<1>2. IInv /\ IInv' /\ FitInv /\ [Next]_vars => FitInv'
  BY NextFits
<1>3. IInv /\ FitInv => RecordedFits
  <2>1. SUFFICES ASSUME IInv, FitInv, Quiet, ~disordered, ~cut, ~(TotalSize <= Capacity)
                 PROVE  Cardinality(Recorded) = 1
    BY DEF RecordedFits
  <2>2. TotalSize > Capacity
    BY <2>1, TotalShrinks, SizesPositive DEF IInv, FitInv
  <2>3. \A t \in Tasks : ~Last(t)
    BY <2>1 DEF Quiet, Last, Evicting
  <2>. QED
    BY <2>1, <2>2, <2>3 DEF FitInv, Attended
<1>. QED
  BY <1>1, <1>2, <1>3, Invariant, PTL DEF Spec
=============================================================================
