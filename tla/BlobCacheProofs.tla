--------------------------- MODULE BlobCacheProofs ---------------------------
(* Proofs about BlobCache for every set of callers, instances, digests and     *)
(* allocation addresses.  The invariant is built in layers, each proved from   *)
(* the ones before it: the domains, the reservations, the entry lock, the      *)
(* temporary files and the disk.                                               *)
EXTENDS BlobCache, TLAPS, FiniteSetTheorems

(* The domains, but for the sign of `waiters`, which rests on the counting.    *)
Domains ==
    /\ pc \in [Callers -> PCs]
    /\ key \in [Callers -> Keys]
    /\ ent \in [Callers -> Entries \union {NoEntry}]
    /\ res \in [Callers -> Results]
    /\ tmp \in [Callers -> TmpData]
    /\ in_flight \in [Keys -> Entries \union {NoEntry}]
    /\ waiters \in [Entries -> Int]
    /\ queue \in [Entries -> Seq(Callers)]
    /\ file \in [Digests -> FileData]
    /\ durable \in [Digests -> FileData]
    /\ storedBy \in [Digests -> SUBSET Instances]

(* A call past acquire_in_flight holds an entry, and it is the map's.          *)
HoldsMapEntry ==
    \A c \in Callers :
        /\ pc[c] \in Reserved <=> ent[c] # NoEntry
        /\ ent[c] # NoEntry => in_flight[key[c]] = ent[c]

NoStrayEntry ==
    \A k \in Keys : in_flight[k] # NoEntry =>
        \E c \in Callers : ent[c] = in_flight[k] /\ key[c] = k

WaitersCount == \A e \in Entries : waiters[e] = Cardinality(Holders(e))

OneKeyPerEntry ==
    \A k1, k2 \in Keys :
        in_flight[k1] = in_flight[k2] /\ in_flight[k1] # NoEntry => k1 = k2

Reservations == HoldsMapEntry /\ NoStrayEntry /\ WaitersCount /\ OneKeyPerEntry

USE DEF Section, Queued, Reserved, Awaits, PCs, Results, TmpData, FileData

-----------------------------------------------------------------------------
(* A queue that a caller leaves is a queue of callers (Unlock).                *)
LEMMA WithoutType ==
    ASSUME NEW q \in Seq(Callers), NEW c \in Callers, \E i \in 1..Len(q) : q[i] = c
    PROVE  Without(q, c) \in Seq(Callers)
<1>. DEFINE i == CHOOSE i \in 1..Len(q) : q[i] = c
<1>1. i \in 1..Len(q) /\ q[i] = c
  OBVIOUS
<1>2. \A j \in 1..(Len(q) - 1) : (IF j < i THEN q[j] ELSE q[j + 1]) \in Callers
  BY <1>1
<1>. QED
  BY <1>1, <1>2 DEF Without

(* Removing c keeps the head, unless it is c, and keeps everybody else.        *)
LEMMA WithoutKeeps ==
    ASSUME NEW q \in Seq(Callers), NEW c \in Callers, NEW b \in Callers, b # c,
           \E i \in 1..Len(q) : q[i] = c,
           \E i \in 1..Len(q) : q[i] = b
    PROVE  /\ \E i \in 1..Len(Without(q, c)) : Without(q, c)[i] = b
           /\ q[1] = b => Without(q, c)[1] = b
<1>. DEFINE i == CHOOSE i \in 1..Len(q) : q[i] = c
<1>. DEFINE w == [j \in 1..(Len(q) - 1) |-> IF j < i THEN q[j] ELSE q[j + 1]]
<1>1. i \in 1..Len(q) /\ q[i] = c
  OBVIOUS
<1>2. Without(q, c) = w
  BY DEF Without
<1>3. Len(w) = Len(q) - 1 /\ Len(q) \in Nat
  BY <1>1
<1>4. PICK j \in 1..Len(q) : q[j] = b
  OBVIOUS
<1>5. j # i
  BY <1>1, <1>4
<1>6. CASE j < i
  <2>1. j \in 1..(Len(q) - 1) /\ w[j] = b
    BY <1>1, <1>3, <1>4, <1>6
  <2>2. q[1] = b => w[1] = b
    BY <1>1, <1>3, <1>6
  <2>. QED
    BY <2>1, <2>2, <1>2, <1>3
<1>7. CASE j > i
  <2>1. (j - 1) \in 1..(Len(q) - 1) /\ w[j - 1] = b
    BY <1>1, <1>3, <1>4, <1>7
  <2>2. q[1] = b => w[1] = b
    BY <1>1, <1>3, <1>7
  <2>. QED
    BY <2>1, <2>2, <1>2, <1>3
<1>. QED
  BY <1>1, <1>4, <1>5, <1>6, <1>7

-----------------------------------------------------------------------------
(* The waiters of the lock are in its queue, its owner at the head.            *)
LockOrder ==
    \A c \in Callers :
        /\ pc[c] \in Queued => \E i \in 1..Len(queue[ent[c]]) : queue[ent[c]][i] = c
        /\ pc[c] \in Section => queue[ent[c]][1] = c

Base == Domains /\ Reservations /\ LockOrder

(* With no call under way there is nothing reserved and nobody in a queue.     *)
LEMMA InitBase == Init => Base
<1>. SUFFICES ASSUME Init PROVE Base
  OBVIOUS
<1>1. \A e \in Entries : Holders(e) = {}
  BY NoEntryFresh DEF Init, Holders
<1>2. Domains
  BY DEF Init, Domains
<1>3. Reservations
  BY <1>1, FS_EmptySet, Zenon DEF Init, Reservations, HoldsMapEntry, NoStrayEntry, WaitersCount, OneKeyPerEntry
<1>4. LockOrder
  BY DEF Init, LockOrder
<1>. QED
  BY <1>2, <1>3, <1>4 DEF Base

(* A step of c that leaves the reservations and the lock alone, moves c only   *)
(* within the calls that hold a place in the queue, or those that hold no      *)
(* entry, and brings it into the section only as the owner of the lock.        *)
Quiet(c) ==
    /\ UNCHANGED <<ent, lockVars>>
    /\ \A b \in Callers : b # c => pc'[b] = pc[b] /\ key'[b] = key[b]
    /\ key'[c] = key[c] \/ pc[c] = "idle"
    /\ pc[c] \in Reserved <=> pc'[c] \in Reserved
    /\ pc'[c] \in Queued => pc[c] \in Queued
    /\ pc'[c] \in Section => pc[c] \in Section \/ Holds(c)

LEMMA QuietStep ==
    ASSUME Base, Domains', NEW c \in Callers, Quiet(c)
    PROVE  Base'
<1>. USE DEF Quiet
<1>0. /\ HoldsMapEntry /\ NoStrayEntry
      /\ ent' = ent /\ in_flight' = in_flight
  BY DEF Base, Reservations, lockVars
<1>1. HoldsMapEntry'
  <2>. SUFFICES ASSUME NEW b \in Callers
       PROVE  /\ pc'[b] \in Reserved <=> ent[b] # NoEntry
              /\ ent[b] # NoEntry => in_flight[key'[b]] = ent[b]
    BY <1>0, Zenon DEF HoldsMapEntry
  <2>1. CASE b # c
    BY <1>0, <2>1 DEF HoldsMapEntry
  <2>2. CASE b = c
    <3>1. pc[c] = "idle" => ent[c] = NoEntry
      BY <1>0 DEF HoldsMapEntry
    <3>. QED
      BY <1>0, <2>2, <3>1 DEF HoldsMapEntry
  <2>. QED
    BY <2>1, <2>2
<1>2. NoStrayEntry'
  BY <1>0 DEF HoldsMapEntry, NoStrayEntry
<1>3. WaitersCount'
  BY DEF Base, Domains, Reservations, WaitersCount, Holders, lockVars
<1>4. OneKeyPerEntry'
  BY DEF Base, Reservations, OneKeyPerEntry, lockVars
<1>5. LockOrder'
  BY DEF Base, Domains, LockOrder, lockVars, Holds
<1>. QED
  BY <1>1, <1>2, <1>3, <1>4, <1>5 DEF Base, Reservations

-----------------------------------------------------------------------------
(* A caller's key is made of an instance and a digest.                         *)
LEMMA KeyParts ==
    ASSUME Domains, NEW c \in Callers
    PROVE  Dig(c) \in Digests /\ Inst(c) \in Instances
BY DEF Domains, Keys, Dig, Inst

(* Keys with the same instance and the same digest are the same.               *)
LEMMA KeyEquality ==
    ASSUME NEW p \in Keys, NEW q \in Keys, p[1] = q[1], p[2] = q[2]
    PROVE  p = q
BY DEF Keys

(* Every step keeps the domains; only Unlock and Reserve need more than that.  *)
LEMMA DomainsStep == Base /\ [Next]_vars => Domains'
<1>. SUFFICES ASSUME Base, [Next]_vars PROVE Domains'
  OBVIOUS
<1>. USE DEF Base, Domains, Finish, Goto, Place, lockVars, diskVars
<1>1. ASSUME NEW c \in Callers, NEW k \in Keys, Request(c, k) PROVE Domains'
  BY <1>1 DEF Request
<1>2. ASSUME NEW c \in Callers, Check(c) PROVE Domains'
  BY <1>2 DEF Check
<1>3. ASSUME NEW c \in Callers, Reserve(c) PROVE Domains'
  BY <1>3 DEF Reserve
<1>4. ASSUME NEW c \in Callers, Enqueue(c) PROVE Domains'
  <2>1. ent[c] \in Entries
    BY <1>4 DEF Enqueue, Reservations, HoldsMapEntry
  <2>. QED
    BY <2>1, <1>4 DEF Enqueue
<1>5. ASSUME NEW c \in Callers, Recheck(c) PROVE Domains'
  BY <1>5 DEF Recheck
<1>6. ASSUME NEW c \in Callers, CreateTmp(c) PROVE Domains'
  BY <1>6 DEF CreateTmp
<1>7. ASSUME NEW c \in Callers, FetchOk(c) \/ FetchErr(c) PROVE Domains'
  BY <1>7 DEF FetchOk, FetchErr
<1>8. ASSUME NEW c \in Callers, Cleanup(c) PROVE Domains'
  BY <1>8 DEF Cleanup
<1>9. ASSUME NEW c \in Callers, Sync(c) PROVE Domains'
  BY <1>9 DEF Sync
<1>10. ASSUME NEW c \in Callers, Rename(c) PROVE Domains'
  <2>1. Dig(c) \in Digests /\ Inst(c) \in Instances
    BY KeyParts
  <2>2. storedBy[Dig(c)] \union {Inst(c)} \in SUBSET Instances
    BY <2>1
  <2>3. Place(c) => file' \in [Digests -> FileData] /\ tmp' \in [Callers -> TmpData]
    BY <2>1
  <2>4. file' \in [Digests -> FileData] /\ tmp' \in [Callers -> TmpData]
    BY <1>10, <2>3 DEF Rename
  <2>5. \/ storedBy' = storedBy
        \/ storedBy' = [storedBy EXCEPT ![Dig(c)] = storedBy[Dig(c)] \union {Inst(c)}]
    BY <1>10 DEF Rename
  <2>6. storedBy' \in [Digests -> SUBSET Instances]
    BY <2>1, <2>2, <2>5
  <2>. QED
    BY <1>10, <2>4, <2>6 DEF Rename
<1>11. ASSUME NEW c \in Callers, DirSync(c) PROVE Domains'
  BY <1>11 DEF DirSync
<1>12. ASSUME NEW c \in Callers, Unlock(c) PROVE Domains'
  <2>1. ent[c] \in Entries /\ queue[ent[c]] \in Seq(Callers)
        /\ \E i \in 1..Len(queue[ent[c]]) : queue[ent[c]][i] = c
    BY <1>12 DEF Unlock, Reservations, HoldsMapEntry, LockOrder
  <2>2. Without(queue[ent[c]], c) \in Seq(Callers)
    BY <2>1, WithoutType
  <2>. QED
    BY <2>1, <2>2, <1>12 DEF Unlock
<1>13. ASSUME NEW c \in Callers, Release(c) PROVE Domains'
  <2>1. ent[c] \in Entries
    BY <1>13 DEF Release, Reservations, HoldsMapEntry
  <2>. QED
    BY <2>1, <1>13 DEF Release
<1>14. ASSUME NEW c \in Callers, LandOrphan(c) PROVE Domains'
  <2>1. Dig(c) \in Digests
    BY KeyParts
  <2>2. file' \in [Digests -> FileData] /\ tmp' \in [Callers -> TmpData]
    BY <1>14, <2>1 DEF LandOrphan
  <2>. QED
    BY <1>14, <2>2 DEF LandOrphan
<1>15. ASSUME NEW c \in Callers, Cancel(c) PROVE Domains'
  BY <1>15 DEF Cancel
<1>16. ASSUME NEW d \in Digests, Remove(d) PROVE Domains'
  BY <1>16 DEF Remove
<1>17. CASE Crash
  BY <1>17 DEF Crash
<1>18. CASE UNCHANGED vars
  BY <1>18 DEF vars
<1>. QED
  BY <1>1, <1>2, <1>3, <1>4, <1>5, <1>6, <1>7, <1>8, <1>9, <1>10, <1>11, <1>12,
     <1>13, <1>14, <1>15, <1>16, <1>17, <1>18 DEF Next, Advance

(* acquire_in_flight joins the entry of the key or makes one nobody holds, and *)
(* counts its caller in.                                                       *)
LEMMA ReserveBase ==
    ASSUME Base, Domains', NEW c \in Callers, Reserve(c)
    PROVE  Base'
<1>. USE DEF Base, Domains, Reservations
<1>1. PICK e \in Entries :
          /\ \/ e = in_flight[key[c]]
             \/ /\ in_flight[key[c]] = NoEntry
                /\ \A b \in Callers : ent[b] # e
                /\ \A k \in Keys : in_flight[k] # e
          /\ in_flight' = [in_flight EXCEPT ![key[c]] = e]
          /\ ent' = [ent EXCEPT ![c] = e]
          /\ waiters' = [waiters EXCEPT ![e] = @ + 1]
  BY DEF Reserve
<1>2. /\ pc[c] = "reserve" /\ pc' = [pc EXCEPT ![c] = "lock"]
      /\ UNCHANGED <<key, queue>> /\ ent[c] = NoEntry /\ key[c] \in Keys
  BY DEF Reserve, Goto, HoldsMapEntry
<1>3. HoldsMapEntry'
  BY <1>1, <1>2, NoEntryFresh DEF HoldsMapEntry
<1>4. NoStrayEntry'
  BY <1>1, <1>2, NoEntryFresh DEF NoStrayEntry
<1>5. OneKeyPerEntry'
  BY <1>1, <1>2 DEF OneKeyPerEntry
<1>6. WaitersCount'
  <2>. SUFFICES ASSUME NEW x \in Entries PROVE waiters'[x] = Cardinality(Holders(x)')
    BY DEF WaitersCount
  <2>1. CASE x = e
    <3>1. Holders(x)' = Holders(x) \union {c} /\ c \notin Holders(x)
      BY <1>1, <1>2, <2>1, NoEntryFresh DEF Holders
    <3>2. IsFiniteSet(Holders(x))
      BY CallersFinite, FS_Subset DEF Holders
    <3>3. Cardinality(Holders(x) \union {c}) = Cardinality(Holders(x)) + 1
      BY <3>1, <3>2, FS_AddElement
    <3>. QED
      BY <1>1, <2>1, <3>1, <3>3 DEF WaitersCount
  <2>2. CASE x # e
    <3>1. Holders(x)' = Holders(x)
      BY <1>1, <1>2, <2>2, NoEntryFresh DEF Holders
    <3>. QED
      BY <1>1, <2>2, <3>1 DEF WaitersCount
  <2>. QED
    BY <2>1, <2>2
<1>7. LockOrder'
  BY <1>1, <1>2 DEF LockOrder
<1>. QED
  BY <1>3, <1>4, <1>5, <1>6, <1>7

(* A caller that asks for the entry lock is queued behind all others, once.    *)
LEMMA EnqueueBase ==
    ASSUME Base, Domains', NEW c \in Callers, Enqueue(c)
    PROVE  Base'
<1>. USE DEF Base, Domains, Reservations
<1>1. /\ pc[c] = "lock" /\ pc' = [pc EXCEPT ![c] = "recheck"]
      /\ queue' = [queue EXCEPT ![ent[c]] = Append(queue[ent[c]], c)]
      /\ UNCHANGED <<key, ent, in_flight, waiters>>
      /\ ent[c] \in Entries
  BY DEF Enqueue, Goto, HoldsMapEntry
<1>2. HoldsMapEntry' /\ NoStrayEntry' /\ OneKeyPerEntry'
  BY <1>1 DEF HoldsMapEntry, NoStrayEntry, OneKeyPerEntry
<1>3. WaitersCount'
  <2>1. \A e \in Entries : Holders(e)' = Holders(e)
    BY <1>1 DEF Holders
  <2>. QED
    BY <1>1, <2>1 DEF WaitersCount
<1>4. LockOrder'
  <2>. SUFFICES ASSUME NEW b \in Callers, pc'[b] \in Queued
       PROVE  /\ \E i \in 1..Len(queue'[ent'[b]]) : queue'[ent'[b]][i] = b
              /\ pc'[b] \in Section => queue'[ent'[b]][1] = b
    BY DEF LockOrder
  <2>1. CASE b = c
    <3>1. Len(queue'[ent[c]]) = Len(queue[ent[c]]) + 1
          /\ queue'[ent[c]][Len(queue[ent[c]]) + 1] = c
      BY <1>1
    <3>. QED
      BY <1>1, <2>1, <3>1
  <2>2. CASE b # c
    <3>1. pc[b] \in Queued /\ ent[b] \in Entries /\ pc'[b] = pc[b]
      BY <1>1, <2>2 DEF HoldsMapEntry
    <3>2. PICK i \in 1..Len(queue[ent[b]]) : queue[ent[b]][i] = b
      BY <3>1 DEF LockOrder
    <3>3. i \in 1..Len(queue'[ent[b]]) /\ queue'[ent[b]][i] = b
      BY <1>1, <3>1, <3>2
    <3>4. queue'[ent[b]][1] = queue[ent[b]][1]
      BY <1>1, <3>1, <3>2
    <3>. QED
      BY <1>1, <3>1, <3>3, <3>4 DEF LockOrder
  <2>. QED
    BY <2>1, <2>2
<1>. QED
  BY <1>2, <1>3, <1>4

(* Giving up the entry lock, held or asked for, leaves the others in order.    *)
LEMMA UnlockBase ==
    ASSUME Base, Domains', NEW c \in Callers, Unlock(c)
    PROVE  Base'
<1>. USE DEF Base, Domains, Reservations
<1>1. /\ pc[c] = "unlock" /\ pc' = [pc EXCEPT ![c] = "release"]
      /\ queue' = [queue EXCEPT ![ent[c]] = Without(queue[ent[c]], c)]
      /\ UNCHANGED <<key, ent, in_flight, waiters>>
      /\ ent[c] \in Entries
  BY DEF Unlock, Goto, HoldsMapEntry
<1>2. HoldsMapEntry' /\ NoStrayEntry' /\ OneKeyPerEntry'
  BY <1>1 DEF HoldsMapEntry, NoStrayEntry, OneKeyPerEntry
<1>3. WaitersCount'
  <2>1. \A e \in Entries : Holders(e)' = Holders(e)
    BY <1>1 DEF Holders
  <2>. QED
    BY <1>1, <2>1 DEF WaitersCount
<1>4. LockOrder'
  <2>. SUFFICES ASSUME NEW b \in Callers, pc'[b] \in Queued
       PROVE  /\ \E i \in 1..Len(queue'[ent'[b]]) : queue'[ent'[b]][i] = b
              /\ pc'[b] \in Section => queue'[ent'[b]][1] = b
    BY DEF LockOrder
  <2>1. b # c /\ pc[b] \in Queued /\ pc'[b] = pc[b] /\ ent[b] \in Entries
    BY <1>1 DEF HoldsMapEntry
  <2>2. CASE ent[b] = ent[c]
    <3>. DEFINE q == queue[ent[c]]
    <3>1. q \in Seq(Callers)
      BY <1>1
    <3>2. /\ \E i \in 1..Len(q) : q[i] = c
          /\ \E i \in 1..Len(q) : q[i] = b
          /\ pc[b] \in Section => q[1] = b
      BY <1>1, <2>1, <2>2 DEF LockOrder
    <3>. HIDE DEF q
    <3>3. b # c
      BY <2>1
    <3>4. \E i \in 1..Len(q) : q[i] = c
      BY <3>2
    <3>5. \E i \in 1..Len(q) : q[i] = b
      BY <3>2
    <3>6. /\ \E i \in 1..Len(Without(q, c)) : Without(q, c)[i] = b
          /\ q[1] = b => Without(q, c)[1] = b
      BY ONLY <3>1, <3>3, <3>4, <3>5, WithoutKeeps
    <3>7. queue'[ent'[b]] = Without(q, c)
      BY <1>1, <2>2 DEF q
    <3>. QED
      BY <2>1, <3>2, <3>6, <3>7
  <2>3. CASE ent[b] # ent[c]
    BY <1>1, <2>1, <2>3 DEF LockOrder
  <2>. QED
    BY <2>2, <2>3
<1>. QED
  BY <1>2, <1>3, <1>4

(* release_in_flight: the counter goes down with the set of holders, and the   *)
(* entry leaves the map exactly when that set is empty.                        *)
LEMMA ReleaseBase ==
    ASSUME Base, Domains', NEW c \in Callers, Release(c)
    PROVE  Base'
<1>. USE DEF Base, Domains, Reservations
<1>. DEFINE e == ent[c]
<1>1. /\ pc[c] = "release" /\ pc' = [pc EXCEPT ![c] = "idle"]
      /\ e \in Entries /\ key[c] \in Keys /\ in_flight[key[c]] = e
      /\ waiters' = [waiters EXCEPT ![e] = waiters[e] - 1]
      /\ in_flight' = IF waiters[e] = 1 THEN [in_flight EXCEPT ![key[c]] = NoEntry]
                                        ELSE in_flight
      /\ ent' = [ent EXCEPT ![c] = NoEntry]
      /\ UNCHANGED <<key, queue>>
  BY DEF Release, Goto, HoldsMapEntry
<1>2. IsFiniteSet(Holders(e)) /\ c \in Holders(e) /\ waiters[e] = Cardinality(Holders(e))
  BY <1>1, CallersFinite, FS_Subset DEF Holders, WaitersCount
<1>3. ASSUME waiters[e] = 1 PROVE HoldsMapEntry' /\ NoStrayEntry' /\ OneKeyPerEntry'
  <2>1. Holders(e) = {c}
    <3>1. PICK x : Holders(e) = {x}
      BY <1>2, <1>3, FS_Singleton
    <3>. QED
      BY <1>2, <3>1
  <2>2. \A b \in Callers : b # c => ent[b] # e
    BY <2>1 DEF Holders
  <2>3. HoldsMapEntry'
    BY <1>1, <1>3, <2>2, NoEntryFresh DEF HoldsMapEntry
  <2>4. NoStrayEntry'
    BY <1>1, <1>3, NoEntryFresh DEF NoStrayEntry
  <2>5. OneKeyPerEntry'
    BY <1>1, <1>3 DEF OneKeyPerEntry
  <2>. QED
    BY <2>3, <2>4, <2>5
<1>4. ASSUME waiters[e] # 1 PROVE HoldsMapEntry' /\ NoStrayEntry' /\ OneKeyPerEntry'
  <2>1. PICK b \in Callers : b # c /\ ent[b] = e
    <3>1. Holders(e) # {c}
      BY <1>2, <1>4, FS_Singleton
    <3>. QED
      BY <1>2, <3>1 DEF Holders
  <2>2. key[b] = key[c]
    BY <1>1, <2>1, NoEntryFresh DEF HoldsMapEntry, OneKeyPerEntry
  <2>3. HoldsMapEntry'
    BY <1>1, <1>4 DEF HoldsMapEntry
  <2>4. NoStrayEntry'
    BY <1>1, <1>4, <2>1, <2>2, NoEntryFresh DEF NoStrayEntry, HoldsMapEntry
  <2>5. OneKeyPerEntry'
    BY <1>1, <1>4 DEF OneKeyPerEntry
  <2>. QED
    BY <2>3, <2>4, <2>5
<1>5. WaitersCount'
  <2>. SUFFICES ASSUME NEW x \in Entries PROVE waiters'[x] = Cardinality(Holders(x)')
    BY DEF WaitersCount
  <2>1. CASE x = e
    <3>1. Holders(x)' = Holders(x) \ {c}
      BY <1>1, <2>1, NoEntryFresh DEF Holders
    <3>2. Cardinality(Holders(x) \ {c}) = Cardinality(Holders(x)) - 1
      BY <1>2, <2>1, FS_RemoveElement
    <3>. QED
      BY <1>1, <1>2, <2>1, <3>1, <3>2
  <2>2. CASE x # e
    <3>1. Holders(x)' = Holders(x)
      BY <1>1, <2>2, NoEntryFresh DEF Holders
    <3>. QED
      BY <1>1, <2>2, <3>1 DEF WaitersCount
  <2>. QED
    BY <2>1, <2>2
<1>6. LockOrder'
  BY <1>1 DEF LockOrder
<1>. QED
  BY <1>3, <1>4, <1>5, <1>6

(* A dead process holds nothing.                                               *)
LEMMA CrashBase == ASSUME Base, Domains', Crash PROVE Base'
<1>1. \A e \in Entries : Holders(e)' = {}
  BY NoEntryFresh DEF Crash, Holders
<1>2. HoldsMapEntry' /\ NoStrayEntry' /\ OneKeyPerEntry' /\ LockOrder'
  BY DEF Crash, HoldsMapEntry, NoStrayEntry, OneKeyPerEntry, LockOrder
<1>3. WaitersCount'
  BY <1>1, FS_EmptySet DEF Crash, WaitersCount
<1>. QED
  BY <1>2, <1>3 DEF Base, Reservations

(* The layers up to the entry lock are inductive.                              *)
LEMMA BaseStep == Base /\ [Next]_vars => Base'
<1>. SUFFICES ASSUME Base, [Next]_vars PROVE Base'
  OBVIOUS
<1>. Domains'
  BY DomainsStep
<1>. Domains
  BY DEF Base
<1>. USE DEF Domains, Quiet, Finish, Goto, diskVars
<1>1. ASSUME NEW c \in Callers, NEW k \in Keys, Request(c, k) PROVE Quiet(c)
  BY <1>1 DEF Request
<1>2. ASSUME NEW c \in Callers, Check(c) PROVE Quiet(c)
  BY <1>2 DEF Check
<1>3. ASSUME NEW c \in Callers, Recheck(c) PROVE Quiet(c)
  BY <1>3 DEF Recheck
<1>4. ASSUME NEW c \in Callers, CreateTmp(c) PROVE Quiet(c)
  BY <1>4 DEF CreateTmp
<1>5. ASSUME NEW c \in Callers, FetchOk(c) \/ FetchErr(c) PROVE Quiet(c)
  BY <1>5 DEF FetchOk, FetchErr
<1>6. ASSUME NEW c \in Callers, Cleanup(c) PROVE Quiet(c)
  BY <1>6 DEF Cleanup
<1>7. ASSUME NEW c \in Callers, Sync(c) PROVE Quiet(c)
  BY <1>7 DEF Sync
<1>8. ASSUME NEW c \in Callers, Rename(c) PROVE Quiet(c)
  BY <1>8 DEF Rename
<1>9. ASSUME NEW c \in Callers, DirSync(c) PROVE Quiet(c)
  BY <1>9 DEF DirSync
<1>10. ASSUME NEW c \in Callers, LandOrphan(c) PROVE Quiet(c)
  BY <1>10 DEF LandOrphan
<1>11. ASSUME NEW c \in Callers, Cancel(c) PROVE Quiet(c)
  BY <1>11 DEF Cancel
<1>12. CASE \/ \E d \in Digests : Remove(d)
            \/ UNCHANGED vars
  <2>1. UNCHANGED <<pc, key, ent, in_flight, waiters, queue>>
    BY <1>12 DEF Remove, vars, lockVars
  <2>2. \A e \in Entries : Holders(e)' = Holders(e)
    BY <2>1 DEF Holders
  <2>3. Reservations'
    BY <2>1, <2>2 DEF Base, Reservations, HoldsMapEntry, NoStrayEntry, WaitersCount, OneKeyPerEntry
  <2>. QED
    BY <2>1, <2>3 DEF Base, LockOrder
<1>. HIDE DEF Domains, Quiet
<1>. QED
  BY <1>1, <1>2, <1>3, <1>4, <1>5, <1>6, <1>7, <1>8, <1>9, <1>10, <1>11, <1>12,
     QuietStep, ReserveBase, EnqueueBase, UnlockBase, ReleaseBase, CrashBase DEF Next, Advance

-----------------------------------------------------------------------------
(* Types, reservations and lock order hold of every reachable state.           *)
LEMMA BaseInvariant == Spec => []Base
BY InitBase, BaseStep, PTL DEF Spec

(* TypeOK of BlobCache for every instance: `waiters` counts a set.             *)
THEOREM TypeCorrect == Spec => []TypeOK
<1>1. Base => TypeOK
  <2>. SUFFICES ASSUME Base PROVE TypeOK
    OBVIOUS
  <2>1. \A e \in Entries : waiters[e] \in Nat
    <3>. TAKE e \in Entries
    <3>1. IsFiniteSet(Holders(e))
      BY CallersFinite, FS_Subset DEF Holders
    <3>. QED
      BY <3>1, FS_CardinalityType DEF Base, Reservations, WaitersCount
  <2>2. waiters \in [Entries -> Nat]
    BY <2>1 DEF Base, Domains
  <2>. QED
    BY <2>2 DEF Base, Domains, TypeOK
<1>. QED
  BY <1>1, BaseInvariant, PTL

(* The in-flight map and `waiters` agree with the reservations (REQ-0010's     *)
(* table, acquire_in_flight and release_in_flight), whoever is dropped when.   *)
THEOREM ReservationsCorrect == Spec => []EntriesMatchReservations
<1>1. Base => EntriesMatchReservations
  BY DEF Base, Reservations, HoldsMapEntry, NoStrayEntry, WaitersCount, EntriesMatchReservations
<1>. QED
  BY <1>1, BaseInvariant, PTL

(* Two calls in the section for one key would both head the queue of its entry.*)
LEMMA OneInSection == Base => OneFetchPerKey
<1>. SUFFICES ASSUME Base, NEW c1 \in Callers, NEW c2 \in Callers,
                     pc[c1] \in Section, pc[c2] \in Section, key[c1] = key[c2]
              PROVE  c1 = c2
  BY DEF OneFetchPerKey
<1>1. ent[c1] = ent[c2]
  BY DEF Base, Reservations, HoldsMapEntry
<1>2. queue[ent[c1]][1] = c1 /\ queue[ent[c2]][1] = c2
  BY DEF Base, LockOrder
<1>. QED
  BY <1>1, <1>2

(* At most one call per instance and digest fetches or stores at a time.       *)
THEOREM MutualExclusion == Spec => []OneFetchPerKey
BY BaseInvariant, OneInSection, PTL

-----------------------------------------------------------------------------
(* What a rename will put in place: only the temporary files of calls still    *)
(* writing are anything else than absent or synced.                            *)
TmpSynced ==
    \A c \in Callers :
        /\ pc[c] \notin {"fetch", "cleanup", "sync"} => tmp[c] \in {"none", "synced"}
        /\ pc[c] = "rename" => tmp[c] = "synced"

Disk == TmpSynced /\ FilesComplete

(* Files stay complete: what is renamed has been synced, also when the call    *)
(* that asked for the rename has been dropped.                                 *)
LEMMA DiskStep == Base /\ Disk /\ [Next]_vars => Disk'
<1>. SUFFICES ASSUME Base, Disk, [Next]_vars PROVE Disk'
  OBVIOUS
<1>0. Domains
  BY DEF Base
<1>. USE <1>0 DEF Domains, Disk, TmpSynced, FilesComplete, Finish, Goto, lockVars, diskVars
<1>1. ASSUME NEW c \in Callers, NEW k \in Keys, Request(c, k) PROVE Disk'
  BY <1>1 DEF Request
<1>2. ASSUME NEW c \in Callers, Check(c) PROVE Disk'
  BY <1>2 DEF Check
<1>3. ASSUME NEW c \in Callers, Reserve(c) PROVE Disk'
  BY <1>3 DEF Reserve
<1>4. ASSUME NEW c \in Callers, Enqueue(c) PROVE Disk'
  BY <1>4 DEF Enqueue
<1>5. ASSUME NEW c \in Callers, Recheck(c) PROVE Disk'
  BY <1>5 DEF Recheck
<1>6. ASSUME NEW c \in Callers, CreateTmp(c) PROVE Disk'
  BY <1>6 DEF CreateTmp
<1>7. ASSUME NEW c \in Callers, FetchOk(c) \/ FetchErr(c) PROVE Disk'
  BY <1>7 DEF FetchOk, FetchErr
<1>8. ASSUME NEW c \in Callers, Cleanup(c) PROVE Disk'
  BY <1>8 DEF Cleanup
<1>9. ASSUME NEW c \in Callers, Sync(c) PROVE Disk'
  BY <1>9 DEF Sync
<1>10. ASSUME NEW c \in Callers, Rename(c) PROVE Disk'
  <2>1. Place(c) => /\ file' = [file EXCEPT ![Dig(c)] = "complete"]
                    /\ tmp' = [tmp EXCEPT ![c] = "none"]
    BY <1>10 DEF Rename, Place
  <2>2. /\ file' \in {file, [file EXCEPT ![Dig(c)] = "complete"]}
        /\ tmp' = [tmp EXCEPT ![c] = "none"] /\ durable' = durable
        /\ pc' \in {[pc EXCEPT ![c] = "dirsync"], [pc EXCEPT ![c] = "unlock"]}
    BY <1>10, <2>1 DEF Rename
  <2>3. FilesComplete'
    BY <2>2
  <2>4. TmpSynced'
    BY <2>2
  <2>. QED
    BY <2>3, <2>4
<1>11. ASSUME NEW c \in Callers, DirSync(c) PROVE Disk'
  BY <1>11 DEF DirSync
<1>12. ASSUME NEW c \in Callers, Unlock(c) PROVE Disk'
  BY <1>12 DEF Unlock
<1>13. ASSUME NEW c \in Callers, Release(c) PROVE Disk'
  BY <1>13 DEF Release
<1>14. ASSUME NEW c \in Callers, LandOrphan(c) PROVE Disk'
  <2>1. Place(c) => /\ file' = [file EXCEPT ![Dig(c)] = "complete"]
                    /\ tmp' = [tmp EXCEPT ![c] = "none"]
    BY <1>14 DEF LandOrphan, Place, Orphaned
  <2>2. /\ file' \in {file, [file EXCEPT ![Dig(c)] = "complete"]}
        /\ tmp' = [tmp EXCEPT ![c] = "none"] /\ durable' = durable /\ pc' = pc
        /\ pc[c] # "rename"
    BY <1>14, <2>1 DEF LandOrphan, Orphaned
  <2>3. FilesComplete'
    BY <2>2
  <2>4. TmpSynced'
    BY <2>2
  <2>. QED
    BY <2>3, <2>4
<1>15. ASSUME NEW c \in Callers, Cancel(c) PROVE Disk'
  BY <1>15 DEF Cancel
<1>16. ASSUME NEW d \in Digests, Remove(d) PROVE Disk'
  BY <1>16 DEF Remove
<1>17. CASE Crash
  BY <1>17 DEF Crash, Survives
<1>18. CASE UNCHANGED vars
  BY <1>18 DEF vars
<1>. QED
  BY <1>1, <1>2, <1>3, <1>4, <1>5, <1>6, <1>7, <1>8, <1>9, <1>10, <1>11, <1>12,
     <1>13, <1>14, <1>15, <1>16, <1>17, <1>18 DEF Next, Advance

(* Readers never see part of a blob, nor does a power loss leave one.          *)
THEOREM Completeness == Spec => []FilesComplete
<1>1. Init => Disk
  BY DEF Init, Disk, TmpSynced, FilesComplete
<1>2. Disk => FilesComplete
  BY DEF Disk
<1>. QED
  BY <1>1, <1>2, DiskStep, BaseInvariant, PTL DEF Spec

-----------------------------------------------------------------------------
(* A caller that found nothing at the second check works on a blob its own     *)
(* instance has not put in place.                                              *)
NotStoredYet ==
    /\ \A d \in Digests : storedBy[d] # {} => Exists(d)
    /\ \A c \in Callers :
          pc[c] \in Section \ {"dirsync"} => Inst(c) \notin storedBy[Dig(c)]

(* A call past the second existence check serves an instance that has not      *)
(* stored what is there: nobody else of that instance is in the section.       *)
LEMMA NotStoredYetStep == Base /\ NotStoredYet /\ [Next]_vars => NotStoredYet'
<1>. SUFFICES ASSUME Base, NotStoredYet, [Next]_vars PROVE NotStoredYet'
  OBVIOUS
<1>0. Domains
  BY DEF Base
<1>0a. \A c \in Callers : Dig(c) \in Digests /\ Inst(c) \in Instances
  BY <1>0, KeyParts
(* Steps that leave the disk alone and bring nobody into the section.          *)
<1>1. ASSUME NEW c \in Callers, UNCHANGED <<file, storedBy>>,
             \A b \in Callers : b # c => pc'[b] = pc[b] /\ key'[b] = key[b],
             pc'[c] \in Section \ {"dirsync"} =>
                 key'[c] = key[c] /\ (pc[c] \in Section \ {"dirsync"} \/ ~Exists(Dig(c)))
      PROVE  NotStoredYet'
  BY <1>1, <1>0a DEF NotStoredYet, Exists, Inst, Dig
<1>. USE <1>0 DEF Domains, Finish, Goto, lockVars, diskVars
<1>2. ASSUME NEW c \in Callers, NEW k \in Keys, Request(c, k) PROVE NotStoredYet'
  BY <1>1, <1>2 DEF Request
<1>3. ASSUME NEW c \in Callers, Check(c) PROVE NotStoredYet'
  BY <1>1, <1>3 DEF Check
<1>4. ASSUME NEW c \in Callers, Reserve(c) PROVE NotStoredYet'
  BY <1>1, <1>4 DEF Reserve
<1>5. ASSUME NEW c \in Callers, Enqueue(c) PROVE NotStoredYet'
  BY <1>1, <1>5 DEF Enqueue
<1>6. ASSUME NEW c \in Callers, Recheck(c) PROVE NotStoredYet'
  BY <1>1, <1>6 DEF Recheck
<1>7. ASSUME NEW c \in Callers, CreateTmp(c) PROVE NotStoredYet'
  BY <1>1, <1>7 DEF CreateTmp
<1>8. ASSUME NEW c \in Callers, FetchOk(c) \/ FetchErr(c) PROVE NotStoredYet'
  BY <1>1, <1>8 DEF FetchOk, FetchErr
<1>9. ASSUME NEW c \in Callers, Cleanup(c) PROVE NotStoredYet'
  BY <1>1, <1>9 DEF Cleanup
<1>10. ASSUME NEW c \in Callers, Sync(c) PROVE NotStoredYet'
  BY <1>1, <1>10 DEF Sync
<1>11. ASSUME NEW c \in Callers, DirSync(c) PROVE NotStoredYet'
  BY <1>1, <1>11 DEF DirSync
<1>12. ASSUME NEW c \in Callers, Unlock(c) PROVE NotStoredYet'
  BY <1>1, <1>12 DEF Unlock
<1>13. ASSUME NEW c \in Callers, Release(c) PROVE NotStoredYet'
  BY <1>1, <1>13 DEF Release
<1>14. ASSUME NEW c \in Callers, Cancel(c) PROVE NotStoredYet'
  BY <1>1, <1>14 DEF Cancel
<1>15. ASSUME NEW c \in Callers, Rename(c) PROVE NotStoredYet'
  <2>1. CASE pc'[c] = "dirsync"
    <3>1. /\ pc[c] = "rename" /\ pc' = [pc EXCEPT ![c] = "dirsync"] /\ key' = key
          /\ storedBy' = [storedBy EXCEPT ![Dig(c)] = storedBy[Dig(c)] \union {Inst(c)}]
      BY <1>15, <2>1 DEF Rename
    <3>2. \A d \in Digests : d # Dig(c) => file'[d] = file[d]
      BY <1>15, <1>0a, <2>1 DEF Rename, Place
    <3>3. file'[Dig(c)] # "absent"
      BY <1>15, <1>0a, <2>1 DEF Rename, Place
    <3>4. ASSUME NEW d \in Digests, storedBy'[d] # {} PROVE file'[d] # "absent"
      BY <3>1, <3>2, <3>3, <3>4, <1>0a DEF NotStoredYet, Exists
    <3>5. ASSUME NEW b \in Callers, pc'[b] \in Section \ {"dirsync"}
          PROVE  key[b][1] \notin storedBy'[key[b][2]]
      <4>1. b # c /\ pc[b] = pc'[b]
        BY <3>1, <3>5
      <4>2. key[b] # key[c]
        BY <3>1, <3>5, <4>1, OneInSection DEF OneFetchPerKey
      <4>3. Dig(b) # Dig(c) \/ Inst(b) # Inst(c)
        BY <4>2, KeyEquality DEF Dig, Inst
      <4>4. Inst(b) \notin storedBy[Dig(b)]
        BY <3>5, <4>1 DEF NotStoredYet
      <4>. QED
        BY <3>1, <4>3, <4>4, <1>0a DEF Dig, Inst
    <3>. QED
      BY <3>1, <3>4, <3>5 DEF NotStoredYet, Exists, Inst, Dig
  <2>2. CASE pc'[c] # "dirsync"
    BY <1>1, <1>15, <2>2 DEF Rename
  <2>. QED
    BY <2>1, <2>2
<1>16. ASSUME NEW c \in Callers, LandOrphan(c) PROVE NotStoredYet'
  <2>1. \A d \in Digests : Exists(d) => Exists(d)'
    BY <1>16, <1>0a DEF LandOrphan, Place, Exists
  <2>. QED
    BY <1>16, <2>1 DEF LandOrphan, NotStoredYet, Inst, Dig
<1>17. ASSUME NEW d \in Digests, Remove(d) PROVE NotStoredYet'
  BY <1>17, <1>0a DEF Remove, NotStoredYet, Exists, Inst, Dig
<1>18. CASE Crash
  BY <1>18 DEF Crash, NotStoredYet, Exists
<1>19. CASE UNCHANGED vars
  BY <1>19 DEF vars, NotStoredYet, Exists, Inst, Dig
<1>. QED
  BY <1>2, <1>3, <1>4, <1>5, <1>6, <1>7, <1>8, <1>9, <1>10, <1>11, <1>12,
     <1>13, <1>14, <1>15, <1>16, <1>17, <1>18, <1>19 DEF Next, Advance

(* The coalescing of REQ-0010: one store per instance while the blob stays.    *)
THEOREM StoresOnce == Spec => StoredOnce
<1>1. Init => NotStoredYet
  BY DEF Init, NotStoredYet
<1>2. Spec => []NotStoredYet
  BY <1>1, NotStoredYetStep, BaseInvariant, PTL DEF Spec
<1>3. NotStoredYet =>
        \A c \in Callers : pc[c] = "rename" /\ pc'[c] = "dirsync" => Inst(c) \notin storedBy[Dig(c)]
  BY DEF NotStoredYet
<1>. QED
  BY <1>2, <1>3, PTL DEF Spec, StoredOnce

-----------------------------------------------------------------------------
(* A call has a result exactly when it is leaving.                             *)
Settled ==
    \A c \in Callers :
        /\ pc[c] \in {"unlock", "release"} => res[c] # "none"
        /\ pc[c] \in Section \union {"check", "reserve", "lock", "recheck"} => res[c] = "none"

(* A call has a result from the moment it leaves the section, and not before.  *)
LEMMA SettledStep == Base /\ Settled /\ [Next]_vars => Settled'
<1>. SUFFICES ASSUME Base, Settled, [Next]_vars PROVE Settled'
  OBVIOUS
<1>0. Domains
  BY DEF Base
<1>. USE <1>0 DEF Domains, Settled, Finish, Goto, lockVars, diskVars
<1>1. ASSUME NEW c \in Callers, NEW k \in Keys, Request(c, k) PROVE Settled'
  BY <1>1 DEF Request
<1>2. ASSUME NEW c \in Callers, Check(c) \/ Reserve(c) \/ Enqueue(c) \/ Recheck(c) PROVE Settled'
  BY <1>2 DEF Check, Reserve, Enqueue, Recheck
<1>3. ASSUME NEW c \in Callers, CreateTmp(c) \/ FetchOk(c) \/ FetchErr(c) \/ Cleanup(c) PROVE Settled'
  BY <1>3 DEF CreateTmp, FetchOk, FetchErr, Cleanup
<1>4. ASSUME NEW c \in Callers, Sync(c) \/ Rename(c) \/ DirSync(c) PROVE Settled'
  BY <1>4 DEF Sync, Rename, DirSync
<1>5. ASSUME NEW c \in Callers, Unlock(c) \/ Release(c) PROVE Settled'
  BY <1>5 DEF Unlock, Release
<1>6. ASSUME NEW c \in Callers, LandOrphan(c) \/ Cancel(c) PROVE Settled'
  BY <1>6 DEF LandOrphan, Cancel
<1>7. CASE (\E d \in Digests : Remove(d)) \/ Crash \/ UNCHANGED vars
  BY <1>7 DEF Remove, Crash, vars
<1>. QED
  BY <1>1, <1>2, <1>3, <1>4, <1>5, <1>6, <1>7 DEF Next, Advance

(* A step of c that changes neither the key nor the disk is seen through the   *)
(* mapping as what it does to c's place among the waiting, witnessed, settled. *)
LEMMA MapsTo ==
    ASSUME Domains, Domains', NEW c \in Callers,
           \A b \in Callers : b # c => pc'[b] = pc[b] /\ res'[b] = res[b],
           key' = key
    PROVE  /\ Asked' = Asked
           /\ Waiting' = IF pc'[c] # "idle" THEN Waiting \union {c} ELSE Waiting \ {c}
           /\ Witnessed' = IF pc'[c] = "dirsync" \/ res'[c] = "ok"
                             THEN Witnessed \union {c} ELSE Witnessed \ {c}
           /\ Outcome' = [Outcome EXCEPT ![c] = IF res'[c] = "dropped" THEN "err" ELSE res'[c]]
           /\ c \in Waiting <=> pc[c] # "idle"
           /\ c \in Witnessed <=> pc[c] = "dirsync" \/ res[c] = "ok"
           /\ Outcome[c] = IF res[c] = "dropped" THEN "err" ELSE res[c]
<1>1. Asked' = Asked
  BY DEF Asked, Dig
<1>2. Waiting' = IF pc'[c] # "idle" THEN Waiting \union {c} ELSE Waiting \ {c}
  BY DEF Waiting
<1>3. Witnessed' = IF pc'[c] = "dirsync" \/ res'[c] = "ok"
                             THEN Witnessed \union {c} ELSE Witnessed \ {c}
  BY DEF Witnessed
<1>4. Outcome' = [Outcome EXCEPT ![c] = IF res'[c] = "dropped" THEN "err" ELSE res'[c]]
  BY DEF Outcome
<1>. QED
  BY <1>1, <1>2, <1>3, <1>4 DEF Waiting, Witnessed, Outcome

(* The steps of a call that settle its result: a Settle of the promise.        *)
LEMMA SettleStep ==
    ASSUME Domains, Domains', FilesComplete, NEW c \in Callers,
           \A b \in Callers : b # c => pc'[b] = pc[b] /\ res'[b] = res[b],
           key' = key, file' = file, pc[c] # "idle", pc'[c] # "dirsync",
           res'[c] \in {"ok", "err", "dropped"},
           res'[c] = "ok" => pc[c] = "dirsync" \/ Exists(Dig(c))
    PROVE  Promise!Settle(c)
<1>1. Asked[c] = Dig(c) /\ Dig(c) \in Digests
  BY KeyParts DEF Asked
<1>2. c \in Waiting /\ Waiting' \in {Waiting, Waiting \ {c}}
  BY MapsTo
<1>3. CASE res'[c] = "ok"
  <2>1. c \in Witnessed \/ file[Asked[c]] = "complete"
    BY <1>1, <1>3 DEF Exists, FilesComplete, Witnessed
  <2>2. Outcome' = [Outcome EXCEPT ![c] = "ok"] /\ Witnessed' = Witnessed \union {c} /\ Asked' = Asked
    BY <1>3, MapsTo
  <2>. QED
    BY <1>2, <2>1, <2>2 DEF Promise!Settle
<1>4. CASE res'[c] # "ok"
  <2>1. Outcome' = [Outcome EXCEPT ![c] = "err"] /\ Witnessed' = Witnessed \ {c} /\ Asked' = Asked
    BY <1>4, MapsTo
  <2>. QED
    BY <1>2, <2>1 DEF Promise!Settle
<1>. QED
  BY <1>3, <1>4

(* The steps of a call that its caller cannot see.                             *)
LEMMA SilentStep ==
    ASSUME Domains, Domains', NEW c \in Callers,
           \A b \in Callers : b # c => pc'[b] = pc[b],
           res' = res, key' = key, file' = file,
           pc[c] \notin {"idle", "dirsync"}, pc'[c] \notin {"idle", "dirsync"}
    PROVE  UNCHANGED Promise!vars
<1>1. Asked' = Asked
  BY DEF Asked, Dig
<1>2. Waiting' = Waiting
  BY DEF Waiting
<1>3. Witnessed' = Witnessed
  BY DEF Witnessed
<1>4. Outcome' = Outcome
  BY DEF Outcome
<1>. QED
  BY <1>1, <1>2, <1>3, <1>4 DEF Promise!vars

(* Every step of the cache is a step of the promise or invisible to it.        *)
LEMMA Simulation ==
    Base /\ Disk /\ Settled /\ Domains' /\ FilesComplete' /\ [Next]_vars
        => [Promise!Next]_(Promise!vars)
<1>. SUFFICES ASSUME Base, Disk, Settled, Domains', FilesComplete', [Next]_vars
              PROVE  [Promise!Next]_(Promise!vars)
  OBVIOUS
<1>0. Domains /\ FilesComplete /\ \A c \in Callers : Dig(c) \in Digests
  BY KeyParts DEF Base, Disk
<1>1. ASSUME NEW c \in Callers, NEW k \in Keys, Request(c, k) PROVE Promise!Next
  <2>1. Promise!Ask(c, k[2])
    <3>1. Asked' = [Asked EXCEPT ![c] = k[2]]
      BY <1>0, <1>1 DEF Domains, Request, Asked, Dig
    <3>2. Waiting' = Waiting \union {c} /\ c \notin Waiting
      BY <1>0, <1>1 DEF Domains, Request, Waiting, Finish, Goto
    <3>3. Witnessed' = Witnessed \ {c}
      BY <1>0, <1>1 DEF Domains, Request, Witnessed, Finish, Goto
    <3>4. Outcome' = [Outcome EXCEPT ![c] = "none"]
      BY <1>0, <1>1 DEF Domains, Request, Outcome, Finish, Goto
    <3>. QED
      BY <1>1, <3>1, <3>2, <3>3, <3>4 DEF Promise!Ask, Request, diskVars
  <2>2. k[2] \in Digests
    BY DEF Keys
  <2>. QED
    BY <2>1, <2>2 DEF Promise!Next
<1>2. ASSUME NEW c \in Callers, Reserve(c) \/ Enqueue(c) \/ FetchOk(c) \/ FetchErr(c) \/ Unlock(c)
      PROVE  UNCHANGED Promise!vars
  <2>1. /\ \A b \in Callers : b # c => pc'[b] = pc[b]
        /\ res' = res /\ key' = key /\ file' = file
        /\ pc[c] \notin {"idle", "dirsync"} /\ pc'[c] \notin {"idle", "dirsync"}
    BY <1>0, <1>2 DEF Domains, Reserve, Enqueue, FetchOk, FetchErr, Unlock, Goto, diskVars
  <2>. QED
    BY <1>0, <2>1, SilentStep
<1>3. ASSUME NEW c \in Callers,
             Check(c) \/ Recheck(c) \/ CreateTmp(c) \/ Cleanup(c) \/ Sync(c)
      PROVE  Promise!Settle(c) \/ UNCHANGED Promise!vars
  <2>1. /\ \A b \in Callers : b # c => pc'[b] = pc[b] /\ res'[b] = res[b]
        /\ key' = key /\ file' = file
        /\ pc[c] \notin {"idle", "dirsync"} /\ pc'[c] # "dirsync"
        /\ \/ res'[c] \in {"ok", "err"} /\ (res'[c] = "ok" => Exists(Dig(c)))
           \/ res' = res /\ pc'[c] # "idle"
    BY <1>0, <1>3 DEF Domains, Settled, Check, Recheck, CreateTmp, Cleanup, Sync, Finish, Goto, diskVars
  <2>. QED
    BY <1>0, <2>1, SilentStep, SettleStep
<1>4. ASSUME NEW c \in Callers, Rename(c) PROVE Promise!Witness(c) \/ Promise!Settle(c)
  <2>1. CASE pc'[c] = "dirsync"
    <3>1. /\ pc[c] = "rename" /\ pc' = [pc EXCEPT ![c] = "dirsync"]
          /\ res' = res /\ key' = key
          /\ file' = [file EXCEPT ![Dig(c)] = "complete"]
      BY <1>0, <1>4, <2>1 DEF Domains, Disk, TmpSynced, Rename, Place, Goto, Finish
    <3>2. /\ Asked' = Asked /\ Waiting' = Waiting /\ c \in Waiting /\ Witnessed' = Witnessed \union {c}
      BY <1>0, <3>1 DEF Domains, Asked, Dig, Waiting, Witnessed
    <3>3. Outcome' = Outcome /\ Asked[c] = Dig(c)
      BY <3>1 DEF Outcome, Asked
    <3>4. file'[Asked[c]] = "complete"
      BY <1>0, <3>1, <3>3 DEF Domains
    <3>. QED
      BY <3>1, <3>2, <3>3, <3>4 DEF Promise!Witness
  <2>2. CASE pc'[c] # "dirsync"
    <3>1. /\ \A b \in Callers : b # c => pc'[b] = pc[b] /\ res'[b] = res[b]
          /\ key' = key /\ file' = file /\ pc[c] # "idle" /\ res'[c] = "err"
      BY <1>0, <1>4, <2>2 DEF Domains, Rename, Goto, Finish
    <3>. QED
      BY <1>0, <2>2, <3>1, SettleStep
  <2>. QED
    BY <2>1, <2>2
<1>5. ASSUME NEW c \in Callers, DirSync(c) \/ Cancel(c) PROVE Promise!Settle(c)
  <2>1. /\ \A b \in Callers : b # c => pc'[b] = pc[b] /\ res'[b] = res[b]
        /\ key' = key /\ file' = file /\ pc[c] # "idle" /\ pc'[c] # "dirsync"
        /\ res'[c] \in {"ok", "err", "dropped"}
        /\ res'[c] = "ok" => pc[c] = "dirsync"
    BY <1>0, <1>5 DEF Domains, DirSync, Cancel, Finish, Goto, diskVars
  <2>. QED
    BY <1>0, <2>1, SettleStep
<1>6. ASSUME NEW c \in Callers, Release(c) PROVE Promise!Answer(c)
  <2>1. /\ pc[c] = "release" /\ pc' = [pc EXCEPT ![c] = "idle"]
        /\ res' = res /\ key' = key /\ file' = file /\ res[c] # "none"
    BY <1>0, <1>6 DEF Domains, Settled, Release, Goto, diskVars
  <2>2. Asked' = Asked /\ Outcome' = Outcome /\ Outcome[c] # "none"
    BY <2>1 DEF Asked, Dig, Outcome
  <2>3. Waiting' = Waiting \ {c} /\ c \in Waiting /\ Witnessed' = Witnessed
    BY <1>0, <2>1 DEF Domains, Waiting, Witnessed
  <2>. QED
    BY <2>1, <2>2, <2>3 DEF Promise!Answer
<1>7. ASSUME NEW d \in Digests, UNCHANGED <<pc, key, res>>,
             file' \in {file, [file EXCEPT ![d] = "complete"], [file EXCEPT ![d] = "absent"]}
      PROVE  Promise!Put(d) \/ Promise!Drop(d) \/ UNCHANGED Promise!vars
  <2>1. UNCHANGED <<Asked, Waiting, Witnessed, Outcome>>
    BY <1>7 DEF Asked, Dig, Waiting, Witnessed, Outcome
  <2>. QED
    BY <1>7, <2>1 DEF Promise!Put, Promise!Drop, Promise!vars
<1>8. ASSUME NEW c \in Callers, LandOrphan(c)
      PROVE  Promise!Put(Dig(c)) \/ Promise!Drop(Dig(c)) \/ UNCHANGED Promise!vars
  <2>1. /\ file' \in {file, [file EXCEPT ![Dig(c)] = "complete"]}
        /\ UNCHANGED <<pc, key, res>>
    BY <1>8 DEF LandOrphan, Orphaned, Place, Disk, TmpSynced
  <2>. QED
    BY <1>0, <1>7, <2>1
<1>9. ASSUME NEW d \in Digests, Remove(d)
      PROVE  Promise!Put(d) \/ Promise!Drop(d) \/ UNCHANGED Promise!vars
  BY <1>7, <1>9 DEF Remove
<1>10. ASSUME Crash PROVE Promise!Crash
  <2>1. file' \in [Digests -> {"absent", "complete"}]
    BY DEF Domains, FilesComplete
  <2>2. Asked' = Asked /\ Waiting' = {} /\ Witnessed' = {} /\ Outcome' = [c \in Callers |-> "none"]
    BY <1>10 DEF Crash, Asked, Dig, Waiting, Witnessed, Outcome
  <2>. QED
    BY <2>1, <2>2 DEF Promise!Crash
<1>11. ASSUME UNCHANGED vars PROVE UNCHANGED Promise!vars
  BY <1>11 DEF vars, Promise!vars, Asked, Dig, Waiting, Witnessed, Outcome, diskVars
<1>. QED
  BY <1>0, <1>1, <1>2, <1>3, <1>4, <1>5, <1>6, <1>8, <1>9, <1>10, <1>11
     DEF Next, Advance, Promise!Next

(* The cache implements the promise of BlobStore to its callers.               *)
THEOREM Refinement == Spec => KeepsPromise
<1>1. Init => Promise!Init
  <2>. SUFFICES ASSUME Init PROVE Promise!Init
    OBVIOUS
  <2>1. Domains
    BY InitBase DEF Base
  <2>2. \A c \in Callers : Dig(c) \in Digests
    BY <2>1, KeyParts
  <2>3. file \in [Digests -> {"absent", "complete"}] /\ Asked \in [Callers -> Digests]
    BY <2>2 DEF Init, Asked
  <2>4. Waiting = {} /\ Witnessed = {} /\ Outcome = [c \in Callers |-> "none"]
    BY DEF Init, Waiting, Witnessed, Outcome
  <2>. QED
    BY <2>3, <2>4 DEF Promise!Init
<1>2. Init => Disk /\ Settled
  BY DEF Init, Disk, TmpSynced, FilesComplete, Settled
<1>3. Base => Domains
  BY DEF Base
<1>4. Disk => FilesComplete
  BY DEF Disk
<1>5. Spec => [](Base /\ Disk /\ Settled)
  BY <1>2, DiskStep, SettledStep, BaseInvariant, PTL DEF Spec
<1>. QED
  BY <1>1, <1>3, <1>4, <1>5, Simulation, PTL DEF Spec, KeepsPromise, Promise!Spec
=============================================================================
