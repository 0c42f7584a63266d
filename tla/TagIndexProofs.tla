---------------------------- MODULE TagIndexProofs ----------------------------
(* Proofs about TagIndex for every set of tasks, references and digests.       *)
EXTENDS TagIndex, TLAPS

(* As long as nobody has been dropped in the middle of a file operation, the   *)
(* lock is held by exactly the task between Lock and Unlock, what that task    *)
(* has read is still what index.json holds, and what it has written is that    *)
(* with its own change applied.                                                *)
LockHeld == \A t \in Tasks : pc[t] \in Locked <=> holder = t

CopyCurrent == \A t \in Tasks : pc[t] \in {"truncate", "write"} => copy[t] = index

WritesTemporary ==
    \A t \in Tasks :
        IF pc[t] = "write" THEN opened[t] = "temporary" /\ temporary = Empty
                           ELSE opened[t] = "unlinked"

TemporaryModified ==
    \A t \in Tasks : pc[t] = "rename" =>
        temporary = [index EXCEPT ![job[t].reference] = job[t].digest]

Orderly ==
    /\ detached = {}
    /\ index \in Indexes
    /\ LockHeld
    /\ CopyCurrent
    /\ WritesTemporary
    /\ TemporaryModified

IInv == TypeOK /\ (~interrupted => Orderly)

USE DEF PCs, Locked, Pool, Places, layout, tagVars, taskVars

-----------------------------------------------------------------------------
(* The parts of TypeOK: the domains of the variables, and who owns the lock.   *)
Domains ==
    /\ index \in Indexes \union {Empty, Torn}
    /\ temporary \in Indexes \union {Empty, Torn, Absent}
    /\ holder \in Tasks \union {Nobody}
    /\ pc \in [Tasks -> PCs]
    /\ job \in [Tasks -> [reference : References, digest : Digests \union {NoDigest}]]
    /\ copy \in [Tasks -> Indexes]
    /\ opened \in [Tasks -> Places]
    /\ detached \subseteq Tasks
    /\ interrupted \in BOOLEAN
    /\ dir \in BOOLEAN /\ marker \in {"absent", "empty", "whole"} /\ link \in BOOLEAN
    /\ stage \in [Processes -> Stages]
    /\ spoiled \in BOOLEAN

Owner ==
    \A t \in Tasks :
        /\ holder = t <=> pc[t] \in Locked /\ t \notin detached
        /\ t \in detached => pc[t] \in Pool

LEMMA TypeParts == (TypeOK <=> Domains /\ Owner) /\ (TypeOK' <=> Domains' /\ Owner')
BY DEF TypeOK, Domains, Owner

(* What a task makes of the index it has read is an index.                     *)
LEMMA ModifiedType ==
    ASSUME Domains, NEW t \in Tasks
    PROVE  Modified(t) \in Indexes
BY DEF Domains, Modified, Indexes

(* The empty index is an index.                                                *)
LEMMA EmptyIndexType == EmptyIndex \in Indexes
BY DEF EmptyIndex, Indexes

(* A step of ensure_upstream_layout, and one of catalog, is about the          *)
(* directory of the upstream alone.                                            *)
LayoutStep ==
    \/ \E p \in Processes : Ensure(p)
    \/ \E l \in Listers : Catalog(l) \/ Listed(l)

LEMMA LayoutApart == LayoutStep => UNCHANGED tagVars
BY DEF LayoutStep, Ensure, MakeDir, FindMarker, CreateMarker, FillMarker, FindLink,
       MakeLink, Catalog, Listed

LEMMA LayoutTypes == Domains /\ LayoutStep => Domains'
<1>. SUFFICES ASSUME Domains, LayoutStep PROVE Domains'
  OBVIOUS
<1>. USE DEF Stages
<1>1. UNCHANGED tagVars
  BY LayoutApart
<1>2. dir' \in BOOLEAN /\ link' \in BOOLEAN /\ spoiled' \in BOOLEAN
  BY DEF Domains, LayoutStep, Ensure, MakeDir, FindMarker, CreateMarker, FillMarker,
         FindLink, MakeLink, Catalog, Listed
<1>3. marker' \in {"absent", "empty", "whole"}
  BY DEF Domains, LayoutStep, Ensure, MakeDir, FindMarker, CreateMarker, FillMarker,
         FindLink, MakeLink, Catalog, Listed
<1>4. stage' \in [Processes -> Stages]
  BY DEF Domains, LayoutStep, Ensure, MakeDir, FindMarker, CreateMarker, FillMarker,
         FindLink, MakeLink, Catalog, Listed, Stage
<1>. QED
  BY <1>1, <1>2, <1>3, <1>4 DEF Domains

(* Every step keeps the variables in their domains.                            *)
LEMMA DomainsStep == Domains /\ [Next]_vars => Domains'
<1>. SUFFICES ASSUME Domains, [Next]_vars PROVE Domains'
  OBVIOUS
<1>1. ASSUME NEW t \in Tasks, NEW r \in References, NEW d \in Digests \union {NoDigest}, Call(t, r, d)
      PROVE  Domains'
  BY <1>1 DEF Domains, Call, Goto
<1>2. ASSUME NEW t \in Tasks, Lock(t) PROVE Domains'
  BY <1>2 DEF Domains, Lock, Goto, Stage, Stages, Processes
<1>3. ASSUME NEW t \in Tasks, Read(t) PROVE Domains'
  <2>1. CASE index \in {Empty, Torn} \/ index[job[t].reference] = job[t].digest
    BY <1>3, <2>1 DEF Domains, Read, Unlock, Goto
  <2>2. CASE ~(index \in {Empty, Torn} \/ index[job[t].reference] = job[t].digest)
    BY <1>3, <2>2 DEF Domains, Read, Goto
  <2>. QED
    BY <2>1, <2>2
<1>4. ASSUME NEW t \in Tasks, Truncate(t) PROVE Domains'
  BY <1>4 DEF Domains, Truncate, Goto
<1>5. ASSUME NEW t \in Tasks, Write(t) PROVE Domains'
  <2>1. index' \in Indexes \union {Empty, Torn} /\ temporary' \in Indexes \union {Empty, Torn, Absent}
    BY <1>5, ModifiedType DEF Domains, Write, Over
  <2>2. copy' \in [Tasks -> Indexes]
    BY <1>5, EmptyIndexType DEF Domains, Write
  <2>. QED
    BY <1>5, <2>1, <2>2 DEF Domains, Write, PoolDone, Goto
<1>6. ASSUME NEW t \in Tasks, Rename(t) PROVE Domains'
  <2>1. opened' \in [Tasks -> Places]
    BY <1>6 DEF Domains, Rename, Moved
  <2>. QED
    BY <1>6, <2>1 DEF Domains, Rename, PoolDone, Goto
<1>7. ASSUME NEW t \in Tasks, Collect(t) PROVE Domains'
  BY <1>7 DEF Domains, Collect, Unlock, Goto
<1>8. ASSUME NEW t \in Tasks, Cancel(t) PROVE Domains'
  BY <1>8 DEF Domains, Cancel, Goto
<1>9. ASSUME Crash PROVE Domains'
  BY <1>9, EmptyIndexType DEF Domains, Crash, Stages
<1>10. ASSUME UNCHANGED vars PROVE Domains'
  BY <1>10 DEF Domains, vars
<1>11. ASSUME NEW t \in Tasks, Ensured(t) PROVE Domains'
  BY <1>11 DEF Domains, Ensured, Unlock, Goto, Stage, Stages, Processes
<1>12. ASSUME LayoutStep PROVE Domains'
  BY <1>12, LayoutTypes
<1>. QED
  BY <1>1, <1>2, <1>3, <1>4, <1>5, <1>6, <1>7, <1>8, <1>9, <1>10, <1>11, <1>12
     DEF Next, Step, LayoutStep

(* The lock goes from Lock to Unlock, or to the drop of its holder.            *)
LEMMA OwnerStep == TypeOK /\ [Next]_vars => Owner'
<1>. SUFFICES ASSUME TypeOK, [Next]_vars PROVE Owner'
  OBVIOUS
<1>. USE NobodyFresh DEF Owner
<1>0. Owner
  BY TypeParts
<1>1. ASSUME NEW t \in Tasks, NEW r \in References, NEW d \in Digests \union {NoDigest}, Call(t, r, d)
      PROVE  Owner'
  BY <1>0, <1>1 DEF TypeOK, Call, Goto
<1>2. ASSUME NEW t \in Tasks, Lock(t) PROVE Owner'
  BY <1>0, <1>2 DEF TypeOK, Lock, Goto
<1>3. ASSUME NEW t \in Tasks, Read(t) \/ Ensured(t) \/ Collect(t) PROVE Owner'
  <2>1. pc[t] \in Locked \ Pool \/ pc[t] = "truncate"
    BY <1>3 DEF Read, Ensured, Collect
  <2>2. pc[t] \notin Pool /\ holder = t /\ t \notin detached /\ UNCHANGED detached
    BY <1>0, <1>3 DEF Read, Ensured, Collect
  <2>3. \/ UNCHANGED holder /\ \E l \in Locked : pc' = [pc EXCEPT ![t] = l]
        \/ holder' = Nobody /\ pc' = [pc EXCEPT ![t] = "idle"]
    BY <1>3 DEF Read, Ensured, Collect, Unlock, Goto
  <2>. QED
    BY <1>0, <2>2, <2>3 DEF TypeOK
<1>4. ASSUME NEW t \in Tasks, Truncate(t) PROVE Owner'
  BY <1>0, <1>4 DEF TypeOK, Truncate, Goto
<1>5. ASSUME NEW t \in Tasks, Write(t) \/ (Rename(t) /\ temporary # Absent) PROVE Owner'
  <2>1. pc[t] \in Pool /\ UNCHANGED holder /\ \E l \in {"rename", "collect"} : PoolDone(t, l)
    BY <1>5 DEF Write, Rename
  <2>. QED
    BY <1>0, <2>1 DEF TypeOK, PoolDone, Goto
<1>6. ASSUME NEW t \in Tasks, Rename(t), temporary = Absent PROVE Owner'
  BY <1>0, <1>6 DEF TypeOK, Rename, Goto
<1>7. ASSUME NEW t \in Tasks, Cancel(t) PROVE Owner'
  BY <1>0, <1>7 DEF TypeOK, Cancel, Goto
<1>8. ASSUME Crash PROVE Owner'
  BY <1>8 DEF Crash
<1>9. ASSUME UNCHANGED tagVars PROVE Owner'
  BY <1>0, <1>9
<1>. QED
  BY <1>1, <1>2, <1>3, <1>4, <1>5, <1>6, <1>7, <1>8, <1>9, LayoutApart
     DEF Next, Step, LayoutStep, vars

(* TypeOK is inductive.                                                        *)
LEMMA TypeStep == TypeOK /\ [Next]_vars => TypeOK'
BY DomainsStep, OwnerStep, TypeParts

(* The invariant holds of an empty index and idle tasks.                       *)
LEMMA InitInvariant == Init => IInv
<1>. SUFFICES ASSUME Init PROVE IInv
  OBVIOUS
<1>1. TypeOK
  <2>1. \A j \in {[reference |-> r, digest |-> NoDigest] : r \in References} :
           j \in [reference : References, digest : Digests \union {NoDigest}]
    OBVIOUS
  <2>2. job \in [Tasks -> [reference : References, digest : Digests \union {NoDigest}]]
    BY <2>1 DEF Init
  <2>3. Domains
    BY <2>2, EmptyIndexType DEF Init, Domains, Stages
  <2>4. Owner
    BY NobodyFresh DEF Init, Owner
  <2>. QED
    BY <2>3, <2>4, TypeParts
<1>2. Orderly
  BY EmptyIndexType, NobodyFresh
     DEF Init, Orderly, LockHeld, CopyCurrent, WritesTemporary, TemporaryModified
<1>. QED
  BY <1>1, <1>2 DEF IInv

-----------------------------------------------------------------------------
(* A task that holds the lock is the only one that does.                       *)
LEMMA OthersOutside ==
    ASSUME Orderly, NEW t \in Tasks, pc[t] \in Locked, NEW u \in Tasks, u # t
    PROVE  pc[u] \notin Locked
BY DEF Orderly, LockHeld

(* The steps of put and remove keep the order, each for the one task in it.    *)
LEMMA OrderlyStep == TypeOK /\ Orderly /\ [Next]_vars /\ ~interrupted' => Orderly'
<1>. SUFFICES ASSUME TypeOK, Orderly, [Next]_vars, ~interrupted' PROVE Orderly'
  OBVIOUS
<1>. USE DEF Orderly, LockHeld, CopyCurrent, WritesTemporary, TemporaryModified
<1>1. ASSUME NEW t \in Tasks, NEW r \in References, NEW d \in Digests \union {NoDigest}, Call(t, r, d)
      PROVE  Orderly'
  BY <1>1 DEF TypeOK, Call, Goto
<1>2. ASSUME NEW t \in Tasks, Lock(t) PROVE Orderly'
  BY <1>2, NobodyFresh DEF TypeOK, Lock, Goto
<1>3. ASSUME NEW t \in Tasks, Read(t) PROVE Orderly'
  <2>0. \A u \in Tasks : u # t => pc[u] \notin Locked
    BY <1>3, OthersOutside DEF Read
  <2>1. CASE index \in {Empty, Torn} \/ index[job[t].reference] = job[t].digest
    BY <1>3, <2>0, <2>1, NobodyFresh DEF TypeOK, Read, Unlock, Goto
  <2>2. CASE ~(index \in {Empty, Torn} \/ index[job[t].reference] = job[t].digest)
    BY <1>3, <2>0, <2>2 DEF TypeOK, Read, Goto
  <2>. QED
    BY <2>1, <2>2
<1>4. ASSUME NEW t \in Tasks, Truncate(t) PROVE Orderly'
  <2>0. \A u \in Tasks : u # t => pc[u] \notin Locked
    BY <1>4, OthersOutside DEF Truncate
  <2>. QED
    BY <1>4, <2>0 DEF TypeOK, Truncate, Goto
<1>5. ASSUME NEW t \in Tasks, Write(t) PROVE Orderly'
  <2>0. \A u \in Tasks : u # t => pc[u] \notin Locked
    BY <1>5, OthersOutside DEF Write
  <2>1. opened[t] = "temporary" /\ temporary = Empty /\ copy[t] = index
    BY <1>5 DEF Write
  <2>2. UNCHANGED index /\ temporary' = [index EXCEPT ![job[t].reference] = job[t].digest]
    BY <1>5, <2>1 DEF Write, Over, Modified
  <2>3. pc' = [pc EXCEPT ![t] = "rename"] /\ detached' = {}
    BY <1>5 DEF Write, PoolDone, Goto
  <2>4. opened' = [opened EXCEPT ![t] = "unlinked"] /\ UNCHANGED <<holder, job>>
    BY <1>5 DEF Write
  <2>5. \A u \in Tasks : pc'[u] \notin {"truncate", "write"}
    BY <2>0, <2>3 DEF TypeOK
  <2>6. LockHeld'
    BY <1>5, <2>3, <2>4 DEF Write, TypeOK
  <2>7. TemporaryModified'
    BY <2>0, <2>2, <2>3, <2>4 DEF TypeOK
  <2>. QED
    BY <2>2, <2>3, <2>4, <2>5, <2>6, <2>7 DEF TypeOK
<1>6. ASSUME NEW t \in Tasks, Rename(t) PROVE Orderly'
  <2>0. \A u \in Tasks : u # t => pc[u] \notin Locked
    BY <1>6, OthersOutside DEF Rename
  <2>1. temporary = [index EXCEPT ![job[t].reference] = job[t].digest]
    BY <1>6 DEF Rename
  <2>2. temporary \in Indexes
    BY <1>6 DEF Rename, TypeOK, Indexes
  <2>3. temporary # Absent
    BY <2>2, MarkersFresh
  <2>4. pc' = [pc EXCEPT ![t] = "collect"] /\ detached' = {} /\ index' = temporary
    BY <1>6, <2>3 DEF Rename, PoolDone, Goto
  <2>5. \A u \in Tasks : opened'[u] = "unlinked"
    BY <1>6, <2>0, <2>3 DEF Rename, Moved
  <2>6. \A u \in Tasks : pc'[u] \notin {"truncate", "write", "rename"}
    BY <2>0, <2>4 DEF TypeOK
  <2>7. LockHeld'
    BY <1>6, <2>3, <2>4 DEF Rename, TypeOK
  <2>. QED
    BY <2>2, <2>4, <2>5, <2>6, <2>7
<1>7. ASSUME NEW t \in Tasks, Collect(t) PROVE Orderly'
  <2>0. \A u \in Tasks : u # t => pc[u] \notin Locked
    BY <1>7, OthersOutside DEF Collect
  <2>. QED
    BY <1>7, <2>0, NobodyFresh DEF TypeOK, Collect, Unlock, Goto
<1>8. ASSUME NEW t \in Tasks, Cancel(t) PROVE Orderly'
  <2>1. pc[t] \notin Pool
    BY <1>8 DEF Cancel
  <2>2. pc' = [pc EXCEPT ![t] = "idle"] /\ detached' = detached
    BY <1>8, <2>1 DEF Cancel, Goto
  <2>3. LockHeld'
    BY <1>8, <2>2, NobodyFresh DEF Cancel, TypeOK
  <2>. QED
    BY <1>8, <2>1, <2>2, <2>3 DEF Cancel, TypeOK
<1>9. ASSUME Crash PROVE Orderly'
  BY <1>9, NobodyFresh DEF Crash
<1>10. ASSUME UNCHANGED tagVars PROVE Orderly'
  BY <1>10
<1>11. ASSUME NEW t \in Tasks, Ensured(t) PROVE Orderly'
  <2>0. \A u \in Tasks : u # t => pc[u] \notin Locked
    BY <1>11, OthersOutside DEF Ensured
  <2>1. CASE pc' = [pc EXCEPT ![t] = "read"] /\ UNCHANGED holder
    BY <1>11, <2>0, <2>1 DEF TypeOK, Ensured
  <2>2. CASE Unlock(t)
    BY <1>11, <2>0, <2>2, NobodyFresh DEF TypeOK, Ensured, Unlock, Goto
  <2>. QED
    BY <1>11, <2>1, <2>2 DEF Ensured, Goto
<1>. QED
  BY <1>1, <1>2, <1>3, <1>4, <1>5, <1>6, <1>7, <1>8, <1>9, <1>10, <1>11, LayoutApart
     DEF Next, Step, LayoutStep, vars

(* Once interrupted, always interrupted: the condition on it is no way out.    *)
LEMMA InterruptedStays == [Next]_vars /\ interrupted => interrupted'
BY LayoutApart
   DEF Next, Step, LayoutStep, Call, Lock, Ensured, Read, Truncate, Write, Rename, Collect,
       Cancel, Crash, vars

(* The invariant is inductive.                                                 *)
LEMMA InvariantStep == IInv /\ [Next]_vars => IInv'
BY TypeStep, OrderlyStep, InterruptedStays DEF IInv

(* It holds of every reachable state.                                          *)
LEMMA Invariant == Spec => []IInv
BY InitInvariant, InvariantStep, PTL DEF Spec

(* TypeOK of TagIndex for every instance.                                      *)
THEOREM TypeCorrect == Spec => []TypeOK
BY Invariant, PTL DEF IInv

(* A reader of index.json sees a whole index, whatever crashes happen: a       *)
(* write goes to index.json.tmp and is renamed when it is whole.               *)
THEOREM AlwaysReadable == Spec => []IndexReadable
<1>1. IInv => IndexReadable
  BY DEF IInv, Orderly, IndexReadable
<1>. QED
  BY <1>1, Invariant, PTL

(* tag_write_lock does what it is for as long as its holder is awaited: each   *)
(* change of index.json is one whole update of it.                             *)
THEOREM NoUpdateLost == Spec => NoLostUpdateWhileAwaited
<1>1. IInv /\ [Next]_vars => [~interrupted => OneUpdate]_index
  <2>. SUFFICES ASSUME IInv, [Next]_vars, ~interrupted, index' # index
                PROVE  \E t \in Tasks :
                          /\ pc[t] = "rename" /\ pc'[t] # "rename"
                          /\ index \in Indexes
                          /\ index' = [index EXCEPT ![job[t].reference] = job[t].digest]
    BY DEF OneUpdate
  <2>1. Orderly
    BY DEF IInv
  <2>2. ASSUME NEW t \in Tasks, Write(t) PROVE FALSE
    BY <2>1, <2>2 DEF Orderly, WritesTemporary, Write
  <2>3. PICK t \in Tasks : Rename(t)
    BY <2>2, LayoutApart
       DEF Next, Step, LayoutStep, Call, Lock, Ensured, Read, Truncate, Collect, Cancel,
           Crash, vars
  <2>4. index' = temporary /\ temporary = [index EXCEPT ![job[t].reference] = job[t].digest]
    BY <2>1, <2>3 DEF Rename, Orderly, TemporaryModified
  <2>5. pc[t] = "rename" /\ pc'[t] # "rename"
    BY <2>3 DEF Rename, PoolDone, Goto, IInv, TypeOK
  <2>. QED
    BY <2>1, <2>4, <2>5 DEF Orderly
<1>. QED
  BY <1>1, Invariant, PTL DEF Spec, NoLostUpdateWhileAwaited

-----------------------------------------------------------------------------
(* Why the directory is whole when its tags are read or written: no step of    *)
(* ensure_upstream_layout is passed before the piece it is about is there, the *)
(* pieces are never taken away, and the index stays empty until a task that    *)
(* has been through all of them writes it.                                     *)
PassedBy(p) ==
    /\ stage[p] \in {"marker", "create", "fill", "link", "symlink", "done"} => dir
    /\ stage[p] \in {"fill", "link", "symlink", "done"} => marker # "absent"
    /\ stage[p] = "done" => link

Passed == \A p \in Processes : PassedBy(p)

InUse == (\E t \in Tasks : pc[t] \in Locked \ {"ensure"}) \/ index # EmptyIndex

UseComplete == InUse => dir /\ link /\ marker # "absent"

EmptyExplained == marker = "empty" => spoiled \/ \E p \in Processes : stage[p] = "fill"

(* A task is inside ensure_upstream_layout nowhere else.                       *)
StagedInside == \A t \in Tasks : stage[t] # "none" => pc[t] = "ensure"

LInv == Passed /\ UseComplete /\ StagedInside /\ EmptyExplained

(* A step of ensure_upstream_layout takes no piece away.                       *)
LEMMA PiecesStay ==
    ASSUME TypeOK, [Next]_vars
    PROVE  (dir => dir') /\ (link => link') /\ (marker # "absent" => marker' # "absent")
BY DEF Next, Step, Call, Lock, Ensured, Read, Truncate, Write, Rename, Collect, Cancel,
       Crash, vars, Ensure, MakeDir, FindMarker, CreateMarker, FillMarker, FindLink,
       MakeLink, Catalog, Listed

(* The steps of one process through ensure_upstream_layout.                    *)
LEMMA PassedStep == TypeOK /\ Passed /\ [Next]_vars => Passed'
<1>. SUFFICES ASSUME TypeOK, Passed, [Next]_vars, NEW q \in Processes PROVE PassedBy(q)'
  BY DEF Passed
<1>0. ASSUME stage'[q] = stage[q] \/ stage'[q] \in {"none", "dir", "failed"} PROVE PassedBy(q)'
  BY <1>0, PiecesStay DEF Passed, PassedBy
<1>1. ASSUME NEW p \in Processes, Ensure(p) PROVE PassedBy(q)'
  <2>1. CASE p = q
    BY <1>1, <2>1 DEF Passed, PassedBy, TypeOK, Ensure, MakeDir, FindMarker, CreateMarker,
                      FillMarker, FindLink, MakeLink, Stage
  <2>2. CASE p # q
    BY <1>0, <1>1, <2>2 DEF TypeOK, Ensure, MakeDir, FindMarker, CreateMarker, FillMarker,
                            FindLink, MakeLink, Stage
  <2>. QED
    BY <2>1, <2>2
<1>2. CASE ~ \E p \in Processes : Ensure(p)
  <2>. stage'[q] = stage[q] \/ stage'[q] \in {"none", "dir"}
    BY <1>2 DEF TypeOK, Next, Step, Call, Lock, Ensured, Read, Truncate, Write, Rename,
                Collect, Cancel, Crash, vars, Catalog, Listed, Stage, Processes
  <2>. QED
    BY <1>0
<1>. QED
  BY <1>1, <1>2

(* What makes an index be in use is a task that has been through all of it.    *)
LEMMA UseStep == TypeOK /\ Passed /\ UseComplete /\ [Next]_vars => UseComplete'
<1>. SUFFICES ASSUME TypeOK, Passed, UseComplete, [Next]_vars, InUse'
              PROVE  dir' /\ link' /\ marker' # "absent"
  BY DEF UseComplete
<1>1. CASE InUse
  BY <1>1, PiecesStay DEF UseComplete
<1>2. CASE \E t \in Tasks : Ensured(t) /\ stage[t] = "done"
  BY <1>2 DEF Ensured, Passed, PassedBy, Processes
<1>3. CASE ~InUse /\ ~ \E t \in Tasks : Ensured(t) /\ stage[t] = "done"
  <2>1. ASSUME NEW t \in Tasks, Read(t) \/ Truncate(t) \/ Write(t) \/ Rename(t) \/ Collect(t)
        PROVE  FALSE
    BY <1>3, <2>1 DEF InUse, Read, Truncate, Write, Rename, Collect
  <2>2. UNCHANGED index
    BY <2>1, LayoutApart
       DEF Next, Step, LayoutStep, Call, Lock, Ensured, Cancel, Crash, vars
  <2>3. ASSUME NEW t \in Tasks PROVE pc'[t] \notin Locked \ {"ensure"}
    BY <1>3, <2>1, <2>3, LayoutApart
       DEF Next, Step, LayoutStep, Call, Lock, Ensured, Unlock, Cancel, Crash, vars, Goto,
           InUse, TypeOK
  <2>. QED
    BY <1>3, <2>2, <2>3 DEF InUse
<1>. QED
  BY <1>1, <1>2, <1>3

(* No other step of a task happens while it is inside, and it leaves it whole. *)
LEMMA StagedStep == TypeOK /\ StagedInside /\ [Next]_vars => StagedInside'
<1>. SUFFICES ASSUME TypeOK, StagedInside, [Next]_vars PROVE StagedInside'
  OBVIOUS
<1>. USE DEF StagedInside
<1>1. ASSUME NEW t \in Tasks, Step(t) \/ Cancel(t) PROVE StagedInside'
  <2>1. CASE Lock(t)
    BY <2>1 DEF TypeOK, Lock, Goto, Stage, Processes
  <2>2. CASE Ensured(t)
    BY <2>2 DEF TypeOK, Ensured, Unlock, Goto, Stage, Processes
  <2>3. CASE ~Lock(t) /\ ~Ensured(t)
    BY <1>1, <2>3
       DEF TypeOK, Step, Read, Truncate, Write, Rename, Collect, Cancel, Unlock, PoolDone, Goto
  <2>. QED
    BY <2>1, <2>2, <2>3
<1>2. ASSUME NEW t \in Tasks, NEW r \in References, NEW d \in Digests \union {NoDigest}, Call(t, r, d)
      PROVE  StagedInside'
  BY <1>2 DEF TypeOK, Call, Goto
<1>3. ASSUME NEW p \in Processes, Ensure(p) PROVE StagedInside'
  BY <1>3 DEF TypeOK, Ensure, MakeDir, FindMarker, CreateMarker, FillMarker, FindLink,
              MakeLink, Stage, Processes
<1>4. ASSUME NEW l \in Listers, Catalog(l) \/ Listed(l) PROVE StagedInside'
  BY <1>4, ListersFresh DEF TypeOK, Catalog, Listed, Stage, Processes
<1>5. ASSUME Crash PROVE StagedInside'
  BY <1>5 DEF Crash, Processes
<1>6. ASSUME UNCHANGED vars PROVE StagedInside'
  BY <1>6 DEF vars
<1>. QED
  BY <1>1, <1>2, <1>3, <1>4, <1>5, <1>6 DEF Next

(* An oci-layout is left empty by a process that still writes it, or for good. *)
LEMMA EmptyStep == TypeOK /\ StagedInside /\ EmptyExplained /\ [Next]_vars => EmptyExplained'
<1>. SUFFICES ASSUME TypeOK, StagedInside, EmptyExplained, [Next]_vars PROVE EmptyExplained'
  OBVIOUS
<1>. USE DEF EmptyExplained
<1>1. ASSUME NEW p \in Processes, CreateMarker(p) PROVE EmptyExplained'
  BY <1>1 DEF CreateMarker, Stage, TypeOK
<1>2. ASSUME NEW p \in Processes, FillMarker(p) PROVE EmptyExplained'
  BY <1>2 DEF FillMarker, Stage, TypeOK
<1>3. ASSUME Crash PROVE EmptyExplained'
  BY <1>3 DEF Crash, TypeOK
<1>4. ASSUME NEW p \in Processes,
             MakeDir(p) \/ FindMarker(p) \/ FindLink(p) \/ MakeLink(p)
      PROVE  EmptyExplained'
  BY <1>4 DEF MakeDir, FindMarker, FindLink, MakeLink, Stage, TypeOK
<1>5. ASSUME NEW t \in Tasks, Lock(t) \/ Ensured(t) PROVE EmptyExplained'
  <2>. stage[t] # "fill"
    BY <1>5 DEF Lock, Ensured, StagedInside
  <2>. QED
    BY <1>5 DEF Lock, Ensured, Stage, TypeOK, Processes
<1>6. ASSUME NEW l \in Listers, Catalog(l) \/ Listed(l) PROVE EmptyExplained'
  BY <1>6 DEF Catalog, Listed, Stage, TypeOK, Processes
<1>7. ASSUME UNCHANGED layout PROVE EmptyExplained'
  BY <1>7
<1>. QED
  BY <1>1, <1>2, <1>3, <1>4, <1>5, <1>6, <1>7
     DEF Next, Step, Call, Read, Truncate, Write, Rename, Collect, Cancel, vars, Ensure

(* The directory an index is in is a whole OCI Image Layout, whatever crashes, *)
(* fails or runs at the same time; what is excepted is an oci-layout whose     *)
(* write has not come to its end.                                              *)
THEOREM LayoutAlwaysComplete == Spec => []LayoutComplete
<1>1. Init => LInv
  BY DEF Init, LInv, Passed, PassedBy, UseComplete, InUse, StagedInside, EmptyExplained,
         Processes
<1>2. TypeOK /\ LInv /\ [Next]_vars => LInv'
  BY PassedStep, UseStep, StagedStep, EmptyStep DEF LInv
<1>3. TypeOK /\ LInv => LayoutComplete
  BY DEF TypeOK, LInv, UseComplete, InUse, EmptyExplained, LayoutComplete
<1>. QED
  BY <1>1, <1>2, <1>3, TypeCorrect, PTL DEF Spec
=============================================================================
