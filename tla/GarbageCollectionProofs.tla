------------------------ MODULE GarbageCollectionProofs ------------------------
(* Theorems about GarbageCollection, for every set of tasks, tags and digests, *)
(* and every content whose leaves are leaves.                                  *)
(*                                                                             *)
(* The marking and its result are compared with Reachable, the least closed    *)
(* set, from both sides: what is marked contains what the tags that were read  *)
(* reach by way of the files they reached then (Covers: nothing needed is      *)
(* removed), and is contained in what the tags reach now (Justified: nothing   *)
(* else is kept), unless something of a dropped call has landed meanwhile.     *)
EXTENDS GarbageCollection, TLAPS

(* What is marked and needs no further look names only what is marked, as far  *)
(* as the files go that the tags reached at the beginning.                     *)
Covers ==
    /\ Tagged(began) \subseteq live
    /\ (\E t \in Tasks : pc[t] = "mark") => reached \subseteq files
    /\ \A d \in (live \ queue) \cap reached : Edges(d) \subseteq live

(* What is marked is reached, and by way of files that are marked, which is    *)
(* why no removal takes it out of reach.                                       *)
Justified == ~disturbed => live \subseteq Reachable(index, files \cap live)

(* What is out of reach is still to be looked at, and only what is not marked  *)
(* is being unlinked.                                                          *)
SweepPending ==
    \A t \in Tasks : pc[t] \in {"sweep", "unlink"} =>
        /\ queue = {}
        /\ ~disturbed => untagged \subseteq live \union due \union {victim[t]}
        /\ victim[t] \notin live

(* tag_write_lock is held by the call that writes an index or collects, and a  *)
(* collection that runs has not ended.                                         *)
Collecting == {"collect", "mark", "sweep", "unlink"}
Holding == Collecting \union {"rename"}
OneCollection ==
    /\ \A t \in Tasks :
          /\ pc[t] \in Holding <=> holder = t
          /\ pc[t] \in Collecting => unfinished = "running"
    /\ (\A t \in Tasks : pc[t] \notin {"mark", "sweep", "unlink"}) => live = {}

(* Handlers know what they are to fetch, and which tag they are to put, and    *)
(* what they have read is what the tags are.                                   *)
JobsKnown ==
    \A t \in Tasks :
        /\ pc[t] = "fetch" => job[t].digest \in Digests
        /\ pc[t] \in {"put", "rename", "late rename"} => job[t].reference \in References
        /\ pc[t] = "rename" /\ ~disturbed => copy[t] = index

IInv ==
    /\ TypeOK
    /\ JobsKnown
    /\ OneCollection
    /\ Covers /\ Justified /\ SweepPending
    /\ ReplacedCollected

USE DEF gcVars, history, PCs, Reasons, Collecting, Holding

-----------------------------------------------------------------------------
(* Facts about what tags reach.                                                *)
LEMMA EdgesTyped == \A d \in Digests : Edges(d) \in SUBSET Digests
BY ContentsTyped DEF Edges

LEMMA TaggedTyped ==
    ASSUME NEW ix \in [References -> Digests \union {NoDigest}]
    PROVE  Tagged(ix) \subseteq Digests
BY DEF Tagged

(* More tags and more files reach more.                                        *)
LEMMA ReachesMore ==
    ASSUME NEW ix, NEW iy, NEW F, NEW G,
           Tagged(ix) \subseteq Tagged(iy), F \subseteq G
    PROVE  Reachable(ix, F) \subseteq Reachable(iy, G)
<1>1. \A S \in SUBSET Digests : Closed(S, iy, G) => Closed(S, ix, F)
  BY DEF Closed
<1>. QED
  BY <1>1 DEF Reachable

(* What is reached is closed ...                                               *)
LEMMA ReachableClosed ==
    ASSUME NEW ix \in [References -> Digests \union {NoDigest}], NEW F
    PROVE  /\ Reachable(ix, F) \subseteq Digests
           /\ Tagged(ix) \subseteq Reachable(ix, F)
           /\ \A d \in Reachable(ix, F) \cap F : Edges(d) \subseteq Reachable(ix, F)
<1>1. Reachable(ix, F) \subseteq Digests
  BY DEF Reachable
<1>2. Tagged(ix) \subseteq Reachable(ix, F)
  BY TaggedTyped DEF Reachable, Closed
<1>3. ASSUME NEW d \in Reachable(ix, F) \cap F PROVE Edges(d) \subseteq Reachable(ix, F)
  <2>1. Edges(d) \subseteq Digests
    BY <1>1, EdgesTyped
  <2>2. ASSUME NEW S \in SUBSET Digests, Closed(S, ix, F) PROVE Edges(d) \subseteq S
    BY <2>2 DEF Reachable, Closed
  <2>. QED
    BY <2>1, <2>2 DEF Reachable
<1>. QED
  BY <1>1, <1>2, <1>3

(* ... and contained in every closed set.                                      *)
LEMMA ReachableLeast ==
    ASSUME NEW ix, NEW F, NEW S \in SUBSET Digests, Closed(S, ix, F)
    PROVE  Reachable(ix, F) \subseteq S
BY DEF Reachable

(* A file that is not reached may go: what is reached stays reached.           *)
LEMMA ReachedWithout ==
    ASSUME NEW ix \in [References -> Digests \union {NoDigest}], NEW F, NEW v,
           v \notin Reachable(ix, F)
    PROVE  Reachable(ix, F) \subseteq Reachable(ix, F \ {v})
<1>. DEFINE S == Reachable(ix, F \ {v})
<1>1. /\ S \subseteq Digests /\ Tagged(ix) \subseteq S
      /\ \A d \in S \cap (F \ {v}) : Edges(d) \subseteq S
  BY ReachableClosed
<1>2. S \subseteq Reachable(ix, F)
  BY ReachesMore
<1>3. Closed(S, ix, F)
  BY <1>1, <1>2 DEF Closed
<1>. QED
  BY <1>1, <1>3, ReachableLeast

-----------------------------------------------------------------------------
(* When nothing is left to be looked at, what the tags that were read reach by *)
(* way of the files they reached is marked, and what is marked is reached.     *)
LEMMA MarkedAll ==
    ASSUME IInv, queue = {}
    PROVE  /\ Reachable(began, reached) \subseteq live
           /\ ~disturbed => live \subseteq Reachable(index, files)
<1>1. Closed(live, began, reached) /\ live \in SUBSET Digests
  BY DEF IInv, TypeOK, Covers, Closed
<1>2. Reachable(index, files \cap live) \subseteq Reachable(index, files)
  BY ReachesMore
<1>. QED
  BY <1>1, <1>2, ReachableLeast DEF IInv, Justified

(* While the tags stay, or more come, they leave nothing behind.               *)
LEMMA UntaggedKept ==
    ASSUME Untag, index' = index \/ (Tagged(index) \subseteq Tagged(index') /\ files' = files)
    PROVE  untagged' = files' \cap untagged
<1>1. CASE index' = index
  BY <1>1 DEF Untag
<1>2. CASE Tagged(index) \subseteq Tagged(index') /\ files' = files
  <2>1. Reachable(index, files) \subseteq Reachable(index', files')
    BY <1>2, ReachesMore
  <2>. QED
    BY <2>1 DEF Untag
<1>. QED
  BY <1>1, <1>2

(* The step of a handler that is not collecting.                               *)
HandlerStep(t) ==
    /\ UNCHANGED <<index, holder, live, queue, victim, history>>
    /\ files \subseteq files' /\ untagged' \subseteq untagged
    /\ due \cap Digests \subseteq due'
    /\ pc[t] \notin Holding /\ pc'[t] \notin Holding
    /\ \A u \in Tasks : u # t => pc'[u] = pc[u]

LEMMA HandlerKeeps ==
    ASSUME IInv, NEW t \in Tasks, HandlerStep(t), TypeOK', JobsKnown'
    PROVE  IInv'
<1>1. \A u \in Tasks, l \in Holding : pc'[u] = l <=> pc[u] = l
  BY DEF HandlerStep
<1>2. OneCollection'
  BY <1>1 DEF IInv, OneCollection, HandlerStep
<1>3. Covers'
  BY <1>1 DEF IInv, Covers, HandlerStep, Tagged
<1>4. Justified'
  <2>1. Reachable(index, files \cap live) \subseteq Reachable(index, files' \cap live)
    BY ReachesMore DEF HandlerStep
  <2>. QED
    BY <2>1 DEF IInv, Justified, HandlerStep
<1>5. SweepPending'
  BY <1>1 DEF IInv, TypeOK, SweepPending, HandlerStep
<1>6. ReplacedCollected'
  <2>1. Reachable(index, files) \subseteq Reachable(index, files')
    BY ReachesMore DEF HandlerStep
  <2>. QED
    BY <2>1 DEF IInv, ReplacedCollected, HandlerStep
<1>. QED
  BY <1>2, <1>3, <1>4, <1>5, <1>6 DEF IInv

(* Only the call that holds the lock writes the tags or collects.              *)
LEMMA OneHolds ==
    ASSUME IInv, NEW t \in Tasks, pc[t] \in Holding
    PROVE  holder = t /\ holder # Nobody /\ \A u \in Tasks : pc[u] \in Holding => u = t
BY MarkersFresh DEF IInv, OneCollection

(* The end of a collection: at the end of the directory, or before it, and     *)
(* perhaps with an unlink under way.                                           *)
LEMMA EndKeeps ==
    ASSUME IInv, Untag, NEW t \in Tasks, pc[t] \in Collecting,
           NEW why \in Reasons \ {"running"}, Finish(why), UNCHANGED <<index, files, temps>>,
           \/ Return(t) /\ victim' = [victim EXCEPT ![t] = NoDigest]
           \/ pc[t] = "unlink" /\ Leave(t, "late unlink") /\ UNCHANGED victim,
           why = "no" /\ ~disturbed => untagged \subseteq Reachable(index, files)
    PROVE  IInv'
<1>1. \A u \in Tasks : pc[u] \in Holding => u = t
  BY OneHolds
<1>2. PICK l \in {"idle", "late unlink"} :
         /\ pc' = [pc EXCEPT ![t] = l] /\ job' = [job EXCEPT ![t] = NoJob]
         /\ copy' = [copy EXCEPT ![t] = NoTags]
         /\ victim' = IF l = "idle" THEN [victim EXCEPT ![t] = NoDigest] ELSE victim
         /\ l = "late unlink" => pc[t] = "unlink"
  BY DEF Return, Leave, Goto
<1>3. untagged' \subseteq untagged
  BY UntaggedKept
<1>4. TypeOK'
  BY <1>2, <1>3 DEF IInv, TypeOK, Finish, NoJob, NoTags
<1>5. \A u \in Tasks : pc'[u] \notin Holding
  BY <1>1, <1>2 DEF IInv, TypeOK
<1>6. JobsKnown'
  BY <1>2, <1>5 DEF IInv, TypeOK, JobsKnown
<1>7. OneCollection'
  BY <1>5, MarkersFresh DEF OneCollection, Finish
<1>8. Covers' /\ Justified' /\ SweepPending'
  BY <1>5 DEF Covers, Justified, SweepPending, Finish, NoTags, Tagged
<1>9. ReplacedCollected'
  BY <1>3 DEF ReplacedCollected, Finish
<1>. QED
  BY <1>4, <1>6, <1>7, <1>8, <1>9 DEF IInv

-----------------------------------------------------------------------------
LEMMA InitInv == Init => IInv
<1>. SUFFICES ASSUME Init PROVE IInv
  OBVIOUS
<1>1. TypeOK /\ JobsKnown
  BY DEF Init, TypeOK, JobsKnown, NoJob, NoTags
<1>2. OneCollection
  BY MarkersFresh DEF Init, OneCollection
<1>3. Covers /\ Justified /\ SweepPending
  BY DEF Init, Covers, Justified, SweepPending, NoTags, Tagged
<1>4. ReplacedCollected
  BY DEF Init, ReplacedCollected
<1>. QED
  BY <1>1, <1>2, <1>3, <1>4 DEF IInv

(* put_tag takes the lock; nothing else of it is new to the others.            *)
LEMMA LockKeeps == ASSUME IInv, Untag, NEW t \in Tasks, Lock(t) PROVE IInv'
<1>0. /\ TypeOK /\ pc[t] = "put" /\ holder = Nobody /\ job[t].reference \in References
      /\ UNCHANGED <<index, files, temps, live, queue, due, victim, history>>
  BY DEF IInv, JobsKnown, Lock
<1>1. untagged' \subseteq untagged
  BY <1>0, UntaggedKept
<1>2. CASE index[job[t].reference] = job[t].digest
  <2>1. Return(t) /\ holder' = holder
    BY <1>2 DEF Lock
  <2>2. TypeOK'
    BY <1>0, <1>1, <2>1 DEF TypeOK, Return, Leave, Goto, NoJob, NoTags
  <2>3. JobsKnown'
    BY <1>0, <2>1 DEF IInv, TypeOK, JobsKnown, Return, Leave, Goto
  <2>4. HandlerStep(t)
    BY <1>0, <1>1, <2>1 DEF HandlerStep, TypeOK, Return, Leave, Goto
  <2>. QED
    BY <2>2, <2>3, <2>4, HandlerKeeps
<1>3. CASE index[job[t].reference] # job[t].digest
  <2>1. /\ pc' = [pc EXCEPT ![t] = "rename"] /\ holder' = t /\ job' = job
        /\ copy' = [copy EXCEPT ![t] = index]
    BY <1>3 DEF Lock, Goto
  <2>2. TypeOK'
    BY <1>0, <1>1, <2>1 DEF TypeOK
  <2>3. JobsKnown'
    BY <1>0, <2>1 DEF IInv, TypeOK, JobsKnown
  <2>5. \A u \in Tasks, l \in Collecting : pc'[u] = l <=> pc[u] = l
    BY <1>0, <2>1 DEF TypeOK
  <2>6. OneCollection'
    BY <1>0, <2>1, <2>5, MarkersFresh DEF IInv, TypeOK, OneCollection
  <2>7. Covers' /\ Justified' /\ ReplacedCollected'
    BY <1>0, <1>1, <2>5 DEF IInv, Covers, Justified, ReplacedCollected, Tagged
  <2>8. SweepPending'
    BY <1>0, <1>1, <2>5 DEF IInv, SweepPending
  <2>. QED
    BY <2>2, <2>3, <2>6, <2>7, <2>8 DEF IInv
<1>. QED
  BY <1>2, <1>3

(* A call ends before it has changed the tags, with the rename under way or    *)
(* without.                                                                    *)
LEMMA AbandonKeeps ==
    ASSUME IInv, Untag, NEW t \in Tasks, pc[t] = "rename", holder' = Nobody,
           Return(t) \/ (Goto(t, "late rename") /\ UNCHANGED <<job, copy>>),
           UNCHANGED <<index, files, temps, gcVars, victim, history>>
    PROVE  IInv'
<1>1. holder = t /\ \A u \in Tasks : pc[u] \in Holding => u = t
  BY OneHolds
<1>2. untagged' \subseteq untagged
  BY UntaggedKept
<1>3. PICK l \in {"idle", "late rename"} :
         /\ pc' = [pc EXCEPT ![t] = l]
         /\ \/ l = "late rename" /\ UNCHANGED <<job, copy>>
            \/ l = "idle" /\ job' = [job EXCEPT ![t] = NoJob] /\ copy' = [copy EXCEPT ![t] = NoTags]
  BY DEF Return, Leave, Goto
<1>4. TypeOK'
  <2>1. /\ pc' \in [Tasks -> PCs] /\ NoTags \in [References -> Digests \union {NoDigest}]
        /\ \A u \in Tasks : pc'[u] \in {"unlink", "late unlink"} <=> pc[u] \in {"unlink", "late unlink"}
    BY <1>3 DEF IInv, TypeOK, NoTags
  <2>2. CASE l = "late rename"
    BY <1>2, <1>3, <2>1, <2>2 DEF IInv, TypeOK
  <2>3. CASE l = "idle"
    <3>1. /\ job' \in [Tasks -> [reference : References \union {NoReference},
                                digest : Digests \union {NoDigest}]]
          /\ copy' \in [Tasks -> [References -> Digests \union {NoDigest}]]
      <4>1. job' = [job EXCEPT ![t] = NoJob] /\ copy' = [copy EXCEPT ![t] = NoTags]
        BY <1>3, <2>3
      <4>2. /\ NoJob \in [reference : References \union {NoReference},
                          digest : Digests \union {NoDigest}]
            /\ job \in [Tasks -> [reference : References \union {NoReference},
                                  digest : Digests \union {NoDigest}]]
            /\ copy \in [Tasks -> [References -> Digests \union {NoDigest}]]
        BY DEF IInv, TypeOK, NoJob
      <4>. QED
        BY <2>1, <4>1, <4>2
    <3>. QED
      BY <1>2, <2>1, <3>1 DEF IInv, TypeOK
  <2>. QED
    BY <2>2, <2>3
<1>5. JobsKnown'
  BY <1>3 DEF IInv, TypeOK, JobsKnown
<1>6. \A u \in Tasks : pc[u] \notin Collecting /\ pc'[u] \notin Holding
  BY <1>1, <1>3 DEF IInv, TypeOK
<1>7. OneCollection'
  BY <1>6, MarkersFresh DEF IInv, OneCollection
<1>8. Covers' /\ Justified' /\ ReplacedCollected' /\ SweepPending'
  BY <1>2, <1>6 DEF IInv, Covers, Justified, ReplacedCollected, Tagged, SweepPending
<1>. QED
  BY <1>4, <1>5, <1>7, <1>8 DEF IInv

(* The tags change, outside of a collection.                                   *)
LEMMA RenameKeeps == ASSUME IInv, Untag, NEW t \in Tasks, Rename(t) PROVE IInv'
<1>. DEFINE r == job[t].reference
            d == job[t].digest
<1>0. /\ TypeOK /\ pc[t] = "rename" /\ r \in References /\ d \in Digests \union {NoDigest}
      /\ index' = [copy[t] EXCEPT ![r] = d]
      /\ UNCHANGED <<files, temps, live, queue, due, victim, began, reached, disturbed>>
  BY DEF IInv, TypeOK, JobsKnown, Rename, Modified
<1>1. holder = t /\ \A u \in Tasks : pc[u] \in Holding => u = t
  BY <1>0, OneHolds
<1>2. index' \in [References -> Digests \union {NoDigest}] /\ untagged' \subseteq files'
  BY <1>0 DEF TypeOK, Untag
<1>3. PICK l \in {"idle", "collect"} :
         /\ pc' = [pc EXCEPT ![t] = l] /\ job' = [job EXCEPT ![t] = NoJob]
         /\ copy' = [copy EXCEPT ![t] = NoTags]
         /\ l = "idle" => holder' = Nobody /\ unfinished' = unfinished /\ copy[t][r] = NoDigest
         /\ l = "collect" => holder' = holder /\ unfinished' = "running"
  BY DEF Rename, Return, Leave, Goto
<1>4. \A u \in Tasks : /\ pc[u] \notin Collecting /\ pc'[u] # "rename"
                       /\ pc'[u] \in Collecting => u = t /\ l = "collect" /\ pc'[u] = "collect"
  BY <1>0, <1>1, <1>3 DEF TypeOK
<1>5. live = {}
  BY <1>4 DEF IInv, OneCollection
<1>6. TypeOK'
  BY <1>0, <1>2, <1>3 DEF TypeOK, NoJob, NoTags
<1>7. JobsKnown'
  BY <1>0, <1>3, <1>4 DEF IInv, TypeOK, JobsKnown
<1>8. OneCollection'
  <2>1. \A u \in Tasks : pc'[u] \in Collecting => holder' = u /\ unfinished' = "running"
    BY <1>1, <1>3, <1>4
  <2>2. ASSUME NEW u \in Tasks, holder' = u PROVE pc'[u] \in Collecting
    BY <1>0, <1>1, <1>3, <2>2, MarkersFresh DEF TypeOK
  <2>. QED
    BY <1>0, <1>4, <1>5, <2>1, <2>2 DEF OneCollection
<1>9. Covers' /\ Justified' /\ SweepPending'
  BY <1>0, <1>4, <1>5 DEF IInv, Covers, Justified, SweepPending, Tagged
<1>10. ReplacedCollected'
  <2>1. CASE disturbed \/ unfinished' # "no"
    BY <1>0, <2>1 DEF ReplacedCollected
  <2>2. CASE ~disturbed /\ unfinished' = "no"
    <3>1. copy[t] = index /\ index[r] = NoDigest /\ unfinished = "no"
      BY <1>0, <1>3, <2>2 DEF IInv, JobsKnown
    <3>2. Tagged(index) \subseteq Tagged(index')
      BY <1>0, <3>1 DEF Tagged, TypeOK
    <3>3. untagged' \subseteq untagged /\ Reachable(index, files) \subseteq Reachable(index', files')
      BY <1>0, <3>2, UntaggedKept, ReachesMore
    <3>. QED
      BY <2>2, <3>1, <3>3 DEF IInv, ReplacedCollected
  <2>. QED
    BY <2>1, <2>2 DEF Reasons
<1>. QED
  BY <1>6, <1>7, <1>8, <1>9, <1>10 DEF IInv

LEMMA BeginKeeps == ASSUME IInv, Untag, NEW t \in Tasks, Begin(t) PROVE IInv'
<1>0. /\ TypeOK /\ pc[t] = "collect" /\ pc' = [pc EXCEPT ![t] = "mark"]
      /\ live' = Tagged(index) /\ queue' = live' /\ disturbed' = FALSE
      /\ began' = index /\ reached' = files \cap Reachable(index, files)
      /\ UNCHANGED <<index, files, temps, holder, job, copy, due, victim, unfinished>>
  BY DEF IInv, Begin, Goto
<1>1. holder = t /\ unfinished = "running" /\ \A u \in Tasks : pc[u] \in Holding => u = t
  BY <1>0, OneHolds DEF IInv, OneCollection
<1>2. untagged' \subseteq untagged
  BY <1>0, UntaggedKept
<1>3. live' \subseteq Digests /\ reached' \subseteq Digests
  BY <1>0, TaggedTyped, ReachableClosed DEF TypeOK
<1>4. TypeOK'
  BY <1>0, <1>2, <1>3 DEF TypeOK
<1>5. \A u \in Tasks : pc'[u] \notin {"sweep", "unlink", "rename"}
  BY <1>0, <1>1 DEF TypeOK
<1>6. JobsKnown' /\ OneCollection'
  BY <1>0, <1>1, <1>5 DEF IInv, TypeOK, JobsKnown, OneCollection
<1>7. Covers' /\ SweepPending' /\ ReplacedCollected'
  BY <1>0, <1>1, <1>5 DEF Covers, SweepPending, ReplacedCollected
<1>8. Justified'
  BY <1>0, ReachableClosed DEF TypeOK, Justified
<1>. QED
  BY <1>4, <1>6, <1>7, <1>8 DEF IInv

LEMMA TraceKeeps ==
    ASSUME IInv, Untag, NEW t \in Tasks, NEW d \in Digests, Trace(t, d)
    PROVE  IInv'
<1>. DEFINE leaves == IF d \in files THEN Leaves[d] ELSE {}
            children == IF d \in files THEN Children[d] ELSE {}
<1>0. /\ TypeOK /\ pc[t] = "mark" /\ d \in queue /\ d \in live
      /\ live' = (live \union leaves) \union children
      /\ queue' = (queue \ {d}) \union (children \ (live \union leaves))
      /\ UNCHANGED <<index, files, temps, holder, pc, job, copy, due, victim, history>>
  BY DEF IInv, TypeOK, Trace
<1>1. unfinished = "running" /\ \A u \in Tasks : pc[u] \in Holding => u = t
  BY <1>0, OneHolds DEF IInv, OneCollection
<1>2. leaves \subseteq Digests /\ children \subseteq Digests
  BY ContentsTyped
<1>3. untagged' \subseteq untagged
  BY <1>0, UntaggedKept
<1>4. TypeOK'
  BY <1>0, <1>2, <1>3 DEF TypeOK
<1>5. JobsKnown' /\ OneCollection'
  BY <1>0 DEF IInv, JobsKnown, OneCollection
<1>6. Covers'
  <2>1. Covers /\ reached \subseteq files
    BY <1>0 DEF IInv, Covers
  <2>2. ASSUME NEW e \in live' \ queue', e \in reached PROVE Edges(e) \subseteq live'
    <3>1. CASE e \in live \ queue
      BY <1>0, <2>1, <2>2, <3>1 DEF Covers
    <3>2. CASE e = d
      BY <1>0, <2>1, <2>2, <3>2 DEF Edges
    <3>3. CASE e \in leaves
      BY <3>3, LeavesAreLeaves
    <3>. QED
      BY <1>0, <2>2, <3>1, <3>2, <3>3
  <2>. QED
    BY <1>0, <2>1, <2>2 DEF Covers, Tagged
<1>7. Justified'
  <2>. SUFFICES ASSUME ~disturbed PROVE Justified'
    BY <1>0 DEF Justified
  <2>. DEFINE R == Reachable(index, files \cap live)
  <2>1. d \in R /\ (d \in files => Edges(d) \subseteq R)
    BY <1>0, ReachableClosed DEF IInv, TypeOK, Justified
  <2>2. live' \subseteq R
    BY <1>0, <2>1 DEF IInv, Justified, Edges
  <2>3. R \subseteq Reachable(index, files \cap live')
    BY <1>0, ReachesMore
  <2>. QED
    BY <1>0, <2>2, <2>3 DEF Justified
<1>8. SweepPending'
  BY <1>0, <1>1 DEF SweepPending
<1>9. ReplacedCollected'
  BY <1>0, <1>1 DEF ReplacedCollected
<1>. QED
  BY <1>4, <1>5, <1>6, <1>7, <1>8, <1>9 DEF IInv

LEMMA OpenDirKeeps == ASSUME IInv, Untag, NEW t \in Tasks, OpenDir(t) PROVE IInv'
<1>0. /\ TypeOK /\ pc[t] = "mark" /\ queue = {}
      /\ due' = Entries /\ pc' = [pc EXCEPT ![t] = "sweep"]
      /\ UNCHANGED <<index, files, temps, holder, job, copy, live, queue, victim, history>>
  BY DEF IInv, OpenDir, Goto
<1>1. holder = t /\ unfinished = "running" /\ \A u \in Tasks : pc[u] \in Holding => u = t
  BY <1>0, OneHolds DEF IInv, OneCollection
<1>2. untagged' \subseteq untagged
  BY <1>0, UntaggedKept
<1>3. TypeOK'
  BY <1>0, <1>2 DEF TypeOK, Entries
<1>4. \A u \in Tasks : pc'[u] # "mark" /\ (pc'[u] \in Holding => u = t)
  BY <1>0, <1>1 DEF TypeOK
<1>5. JobsKnown' /\ OneCollection'
  BY <1>0, <1>1, <1>4 DEF IInv, TypeOK, JobsKnown, OneCollection
<1>6. Covers' /\ Justified'
  BY <1>0, <1>4 DEF IInv, Covers, Justified, Tagged
<1>7. SweepPending'
  <2>1. victim'[t] \notin live'
    BY <1>0, MarkersFresh DEF TypeOK
  <2>. QED
    BY <1>0, <1>2, <1>4, <2>1 DEF TypeOK, SweepPending, Entries
<1>8. ReplacedCollected'
  BY <1>0, <1>1 DEF ReplacedCollected
<1>. QED
  BY <1>3, <1>5, <1>6, <1>7, <1>8 DEF IInv

(* An entry is kept, or given to remove_blob and unlinked.                     *)
LEMMA EntryKeeps ==
    ASSUME IInv, Untag, NEW t \in Tasks,
           (\E d \in Digests : Keep(t, d) \/ Discard(t, d)) \/ Unlink(t)
    PROVE  IInv'
<1>0. /\ TypeOK /\ pc[t] \in {"sweep", "unlink"}
      /\ UNCHANGED <<index, temps, holder, job, copy, live, queue, history>>
      /\ pc' \in {[pc EXCEPT ![t] = "sweep"], [pc EXCEPT ![t] = "unlink"]}
      /\ due' \subseteq due /\ files' \subseteq files
  <2>1. TypeOK /\ pc \in [Tasks -> PCs] /\ pc[t] \in {"sweep", "unlink"}
    BY DEF IInv, TypeOK, Keep, Discard, Unlink
  <2>2. ASSUME NEW d \in Digests, Keep(t, d)
        PROVE  pc' = [pc EXCEPT ![t] = "sweep"]
    BY <2>1, <2>2 DEF Keep
  <2>. QED
    BY <2>1, <2>2 DEF Keep, Discard, Unlink, Goto
<1>1. holder = t /\ unfinished = "running" /\ \A u \in Tasks : pc[u] \in Holding => u = t
  BY <1>0, OneHolds DEF IInv, OneCollection
<1>2. untagged' = files' \cap untagged
  BY <1>0, UntaggedKept
<1>3. \A u \in Tasks : pc'[u] # "mark" /\ (pc'[u] \in Holding => u = t)
  BY <1>0, <1>1 DEF TypeOK
<1>4. JobsKnown' /\ OneCollection'
  <2>1. \A u \in Tasks : pc'[u] \in {"sweep", "unlink"} <=> u = t
    BY <1>0, <1>1, <1>3 DEF TypeOK
  <2>2. \A u \in Tasks : pc'[u] = pc[u] \/ (u = t /\ pc'[u] \in {"sweep", "unlink"})
    BY <1>0 DEF TypeOK
  <2>3. JobsKnown'
    BY <1>0, <2>2 DEF IInv, JobsKnown
  <2>4. OneCollection'
    BY <1>0, <1>1, <1>3, <2>1 DEF OneCollection
  <2>. QED
    BY <2>3, <2>4
<1>5. Covers'
  BY <1>0, <1>3 DEF IInv, Covers, Tagged
<1>6. SweepPending
  BY DEF IInv
<1>7. ReplacedCollected'
  BY <1>0, <1>1 DEF ReplacedCollected
<1>8. ASSUME NEW d \in Digests, Keep(t, d) PROVE TypeOK' /\ Justified' /\ SweepPending'
  <2>1. TypeOK' /\ Justified'
    <3>1. due' \subseteq due /\ UNCHANGED <<files, pc, victim>>
      BY <1>8 DEF Keep
    <3>. QED
      BY <1>0, <1>2, <3>1 DEF IInv, TypeOK, Justified
  <2>2. SweepPending'
    BY <1>0, <1>2, <1>3, <1>6, <1>8 DEF Keep, SweepPending
  <2>. QED
    BY <2>1, <2>2
<1>9. ASSUME NEW d \in Digests, Discard(t, d) PROVE TypeOK' /\ Justified' /\ SweepPending'
  <2>1. TypeOK'
    BY <1>0, <1>2, <1>9, MarkersFresh DEF Discard, Goto, TypeOK
  <2>2. Justified'
    BY <1>0, <1>9 DEF Discard, IInv, Justified
  <2>3. victim'[t] = d /\ d \notin live /\ due' = due \ {d} /\ pc[t] = "sweep"
    BY <1>0, <1>9 DEF Discard, TypeOK
  <2>4. ~disturbed => untagged \subseteq live \union due
    <3>1. victim[t] = NoDigest /\ NoDigest \notin untagged
      BY <1>0, <2>3, MarkersFresh DEF TypeOK
    <3>. QED
      BY <1>0, <1>6, <3>1 DEF SweepPending
  <2>5. SweepPending'
    BY <1>0, <1>2, <1>3, <1>6, <2>3, <2>4 DEF SweepPending
  <2>. QED
    BY <2>1, <2>2, <2>5
<1>10. ASSUME Unlink(t) PROVE TypeOK' /\ Justified' /\ SweepPending'
  <2>0. victim[t] \notin live /\ files' = files \ {victim[t]}
    BY <1>0, <1>6, <1>10 DEF Unlink, SweepPending
  <2>1. TypeOK'
    BY <1>0, <1>2, <1>10 DEF Unlink, Goto, TypeOK
  <2>2. Justified'
    <3>1. files' \cap live = files \cap live
      BY <2>0
    <3>. QED
      BY <1>0, <3>1 DEF IInv, Justified
  <2>3. victim'[t] = NoDigest /\ due' = due /\ pc[t] = "unlink" /\ NoDigest \notin live
    BY <1>0, <1>10, MarkersFresh DEF Unlink, TypeOK
  <2>4. ~disturbed => untagged' \subseteq live \union due
    BY <1>0, <1>2, <1>6, <2>0, <2>3 DEF SweepPending
  <2>5. SweepPending'
    BY <1>0, <1>3, <1>6, <2>3, <2>4 DEF SweepPending
  <2>. QED
    BY <2>1, <2>2, <2>5
<1>. QED
  BY <1>0, <1>4, <1>5, <1>7, <1>8, <1>9, <1>10 DEF IInv

(* The late rename leaves the tags as they are, or disturbs.                   *)
LEMMA LateRenameKeeps == ASSUME IInv, Untag, NEW t \in Tasks, LateRename(t) PROVE IInv'
<1>0. /\ TypeOK /\ pc[t] = "late rename" /\ pc' = [pc EXCEPT ![t] = "idle"]
      /\ job' = [job EXCEPT ![t] = NoJob] /\ copy' = [copy EXCEPT ![t] = NoTags]
      /\ index' = Modified(t) /\ disturbed' = (disturbed \/ index' # index)
      /\ UNCHANGED <<files, temps, holder, live, queue, due, victim, began, reached, unfinished>>
  BY DEF IInv, LateRename, Return, Leave, Goto
<1>1. index' \in [References -> Digests \union {NoDigest}] /\ untagged' \subseteq files'
  BY <1>0 DEF IInv, TypeOK, JobsKnown, Modified, Untag
<1>2. ~disturbed' => ~disturbed /\ index' = index /\ untagged' \subseteq untagged
  BY <1>0, UntaggedKept
<1>3. TypeOK'
  BY <1>0, <1>1 DEF TypeOK, NoJob, NoTags
<1>4. JobsKnown'
  BY <1>0, <1>2 DEF IInv, TypeOK, JobsKnown
<1>5. \A u \in Tasks, l \in Holding : pc'[u] = l <=> pc[u] = l
  BY <1>0 DEF TypeOK
<1>6. OneCollection'
  BY <1>0, <1>5 DEF IInv, OneCollection
<1>7. Covers' /\ Justified'
  BY <1>0, <1>2, <1>5 DEF IInv, Covers, Justified, Tagged
<1>8. SweepPending'
  BY <1>0, <1>2, <1>5 DEF IInv, SweepPending
<1>9. ReplacedCollected'
  BY <1>0, <1>2 DEF IInv, ReplacedCollected
<1>. QED
  BY <1>3, <1>4, <1>6, <1>7, <1>8, <1>9 DEF IInv

(* The late unlink takes a file that is out of reach, or disturbs.             *)
LEMMA LateUnlinkKeeps == ASSUME IInv, Untag, NEW t \in Tasks, LateUnlink(t) PROVE IInv'
<1>. DEFINE v == victim[t]
<1>0. /\ TypeOK /\ pc[t] = "late unlink" /\ pc' = [pc EXCEPT ![t] = "idle"]
      /\ files' = files \ {v} /\ due' = due \ {v} /\ reached' = reached \ {v}
      /\ disturbed' = (disturbed \/ v \in files \cap Reachable(index, files))
      /\ victim' = [victim EXCEPT ![t] = NoDigest]
      /\ UNCHANGED <<index, temps, holder, job, copy, live, queue, began, unfinished>>
  BY DEF IInv, LateUnlink, Goto
<1>1. untagged' = files' \cap untagged
  BY <1>0, UntaggedKept
<1>2. disturbed' \in BOOLEAN /\ (~disturbed' => ~disturbed /\ v \notin files \cap Reachable(index, files))
  BY <1>0 DEF TypeOK
<1>3. TypeOK'
  BY <1>0, <1>1, <1>2 DEF TypeOK
<1>4. JobsKnown'
  BY <1>0, <1>2 DEF IInv, TypeOK, JobsKnown
<1>5. \A u \in Tasks : /\ \A l \in Holding : pc'[u] = l <=> pc[u] = l
                       /\ pc'[u] \in Holding => victim'[u] = victim[u]
  BY <1>0 DEF TypeOK
<1>6. OneCollection'
  BY <1>0, <1>5 DEF IInv, OneCollection
<1>7. ASSUME ~disturbed' PROVE Reachable(index, files) \subseteq Reachable(index, files')
  <2>1. CASE v \in files
    <3>1. v \notin Reachable(index, files)
      BY <1>2, <1>7, <2>1
    <3>. QED
      BY <1>0, <3>1, ReachedWithout DEF TypeOK
  <2>2. CASE v \notin files
    <3>1. files' = files
      BY <1>0, <2>2
    <3>. QED
      BY <3>1
  <2>. QED
    BY <2>1, <2>2
<1>8. Covers'
  BY <1>0, <1>5 DEF IInv, Covers, Tagged
<1>9. Justified'
  <2>. SUFFICES ASSUME ~disturbed' PROVE live \subseteq Reachable(index, files' \cap live)
    BY <1>0 DEF Justified
  <2>1. live \subseteq Reachable(index, files \cap live)
    BY <1>2 DEF IInv, Justified
  <2>2. Reachable(index, files \cap live) \subseteq Reachable(index, files)
    BY ReachesMore
  <2>3. files' \cap live = files \cap live
    BY <1>0, <1>2, <2>1, <2>2
  <2>. QED
    BY <2>1, <2>3
<1>10. SweepPending'
  <2>. SUFFICES ASSUME NEW u \in Tasks, pc'[u] \in {"sweep", "unlink"}
       PROVE  /\ queue' = {} /\ victim'[u] \notin live'
              /\ ~disturbed' => untagged' \subseteq live' \union due' \union {victim'[u]}
    BY DEF SweepPending
  <2>1. pc[u] \in {"sweep", "unlink"} /\ victim'[u] = victim[u]
    BY <1>5
  <2>2. /\ queue = {} /\ victim[u] \notin live
        /\ ~disturbed => untagged \subseteq live \union due \union {victim[u]}
    BY <2>1 DEF IInv, SweepPending
  <2>3. /\ live' = live /\ queue' = queue /\ due' = due \ {v}
        /\ untagged' \subseteq untagged \ {v}
    BY <1>0, <1>1
  <2>4. ~disturbed' => ~disturbed
    BY <1>2
  <2>. QED
    BY <2>1, <2>2, <2>3, <2>4
<1>11. ReplacedCollected'
  BY <1>0, <1>1, <1>2, <1>7 DEF IInv, ReplacedCollected
<1>. QED
  BY <1>3, <1>4, <1>6, <1>8, <1>9, <1>10, <1>11 DEF IInv

LEMMA NextInv == IInv /\ [Next]_vars => IInv'
<1>. SUFFICES ASSUME IInv, [Next]_vars PROVE IInv'
  OBVIOUS
<1>. TypeOK /\ JobsKnown /\ OneCollection
  BY DEF IInv
<1>1. CASE UNCHANGED vars
  <2>1. TypeOK' /\ JobsKnown' /\ OneCollection' /\ ReplacedCollected'
    BY <1>1 DEF vars, IInv, TypeOK, JobsKnown, OneCollection, ReplacedCollected
  <2>2. Covers' /\ Justified' /\ SweepPending'
    BY <1>1 DEF vars, IInv, Covers, Justified, SweepPending, Tagged
  <2>. QED
    BY <2>1, <2>2 DEF IInv
<1>2. CASE Next
  <2>0. Untag
    BY <1>2 DEF Next
  <2>a. ASSUME UNCHANGED index PROVE untagged' \subseteq untagged
    BY <2>0, <2>a, UntaggedKept
  <2>b. untagged' \subseteq files'
    BY <2>0 DEF Untag
  <2>1. ASSUME NEW t \in Tasks, NEW r \in References \union {NoReference}, NEW d \in Digests,
               Pull(t, r, d)
        PROVE  IInv'
    <3>1. TypeOK'
      <4>1. PICK l \in {"put", "fetch"} :
               pc' = [pc EXCEPT ![t] = l] /\ pc[t] = "idle" /\ temps' \subseteq temps \union {t}
        BY <2>1 DEF Pull, Goto
      <4>2. /\ pc' \in [Tasks -> PCs]
            /\ \A u \in Tasks : pc'[u] \in {"unlink", "late unlink"} <=> pc[u] \in {"unlink", "late unlink"}
        BY <4>1 DEF TypeOK
      <4>. QED
        BY <2>1, <2>b, <4>1, <4>2 DEF Pull, TypeOK
    <3>2. JobsKnown'
      BY <2>1 DEF Pull, TypeOK, JobsKnown, Goto
    <3>3. HandlerStep(t)
      BY <2>1, <2>a DEF Pull, HandlerStep, TypeOK, Goto
    <3>. QED
      BY <3>1, <3>2, <3>3, HandlerKeeps
  <2>2. ASSUME NEW t \in Tasks, Fetched(t) PROVE IInv'
    <3>0. /\ pc[t] = "fetch" /\ job[t].digest \in Digests
          /\ temps' = temps \ {t} /\ due' = due \ {t}
          /\ files' \in {files, files \union {job[t].digest}}
          /\ UNCHANGED <<index, holder, live, queue, victim, history>>
      BY <2>2 DEF Fetched, JobsKnown
    <3>1. CASE Goto(t, "put") /\ UNCHANGED <<job, copy>> /\ job[t].reference # NoReference
      <4>1. TypeOK'
        BY <3>0, <3>1, <2>b DEF TypeOK, Goto
      <4>2. JobsKnown'
        BY <3>0, <3>1 DEF TypeOK, JobsKnown, Goto
      <4>3. HandlerStep(t)
        <5>1. due \cap Digests \subseteq due' /\ files \subseteq files'
          BY <3>0, MarkersFresh
        <5>. QED
          BY <3>0, <3>1, <2>a, <5>1 DEF HandlerStep, TypeOK, Goto
      <4>. QED
        BY <4>1, <4>2, <4>3, HandlerKeeps
    <3>2. CASE Return(t)
      <4>1. TypeOK'
        BY <3>0, <3>2, <2>b DEF TypeOK, Return, Leave, Goto, NoJob, NoTags
      <4>2. JobsKnown'
        BY <3>0, <3>2 DEF TypeOK, JobsKnown, Return, Leave, Goto
      <4>3. HandlerStep(t)
        <5>1. due \cap Digests \subseteq due' /\ files \subseteq files'
          BY <3>0, MarkersFresh
        <5>. QED
          BY <3>0, <3>2, <2>a, <5>1 DEF HandlerStep, TypeOK, Return, Leave, Goto
      <4>. QED
        BY <4>1, <4>2, <4>3, HandlerKeeps
    <3>. QED
      BY <2>2, <3>1, <3>2 DEF Fetched
  <2>3. ASSUME NEW t \in Tasks, NEW l \in {"fetch", "put"}, pc[t] = l, Leak(t), Return(t),
               UNCHANGED <<index, files, holder, live, queue, victim, history>>
        PROVE  IInv'
    <3>1. TypeOK'
      BY <2>3, <2>b DEF Leak, TypeOK, Return, Leave, Goto, NoJob, NoTags
    <3>2. JobsKnown'
      BY <2>3 DEF TypeOK, JobsKnown, Return, Leave, Goto
    <3>3. HandlerStep(t)
      <4>1. due \cap Digests \subseteq due'
        BY <2>3, MarkersFresh DEF Leak
      <4>. QED
        BY <2>3, <2>a, <4>1 DEF HandlerStep, TypeOK, Return, Leave, Goto
    <3>. QED
      BY <3>1, <3>2, <3>3, HandlerKeeps
  <2>4. ASSUME NEW t \in Tasks, FinalizeErr(t) PROVE IInv'
    BY <2>4, <2>3 DEF FinalizeErr
  <2>5. ASSUME NEW t \in Tasks, NEW r \in References, RemoveTag(t, r) PROVE IInv'
    <3>1. TypeOK'
      BY <2>5, <2>b DEF RemoveTag, TypeOK, Goto
    <3>2. JobsKnown'
      BY <2>5 DEF RemoveTag, TypeOK, JobsKnown, Goto
    <3>3. HandlerStep(t)
      BY <2>5, <2>a DEF RemoveTag, HandlerStep, TypeOK, Goto
    <3>. QED
      BY <3>1, <3>2, <3>3, HandlerKeeps
  <2>6. ASSUME NEW t \in Tasks, Lock(t) \/ Rename(t) PROVE IInv'
    BY <2>0, <2>6, LockKeeps, RenameKeeps
  <2>7. ASSUME NEW t \in Tasks, Collect(t) PROVE IInv'
    <3>0. CASE Begin(t)
      BY <2>0, <3>0, BeginKeeps
    <3>1. ASSUME NEW d \in Digests, Trace(t, d) PROVE IInv'
      BY <2>0, <3>1, TraceKeeps
    <3>2. CASE (\E d \in Digests : Keep(t, d) \/ Discard(t, d)) \/ Unlink(t)
      BY <2>0, <3>2, EntryKeeps
    <3>3. CASE OpenDir(t)
      BY <2>0, <3>3, OpenDirKeeps
    <3>4. ASSUME NEW e \in Tasks \union {Leftover}, RefuseEntry(t, e) PROVE IInv'
      BY <2>0, <3>4, EndKeeps DEF RefuseEntry, End
    <3>5. CASE IoError(t)
      <4>1. CASE Abandon(t)
        BY <2>0, <4>1, AbandonKeeps DEF Abandon
      <4>2. CASE pc[t] \in Collecting /\ End(t, "io error")
        BY <2>0, <4>2, EndKeeps DEF End
      <4>. QED
        BY <3>5, <4>1, <4>2 DEF IoError
    <3>6. CASE Swept(t)
      <4>1. pc[t] = "sweep" /\ due = {} /\ End(t, "no")
        BY <3>6 DEF Swept
      <4>2. queue = {} /\ (~disturbed => untagged \subseteq live)
        <5>1. victim[t] = NoDigest /\ NoDigest \notin untagged
          BY <4>1, MarkersFresh DEF TypeOK
        <5>. QED
          BY <4>1, <5>1 DEF IInv, SweepPending
      <4>3. ~disturbed => untagged \subseteq Reachable(index, files)
        BY <4>1, <4>2, MarkedAll
      <4>. QED
        BY <2>0, <4>1, <4>3, EndKeeps DEF End
    <3>. QED
      BY <2>7, <3>0, <3>1, <3>2, <3>3, <3>4, <3>5, <3>6 DEF Collect
  <2>8. ASSUME NEW t \in Tasks, Cancel(t) PROVE IInv'
    <3>1. CASE Abandon(t)
      BY <2>0, <3>1, AbandonKeeps DEF Abandon
    <3>2. CASE pc[t] \in {"collect", "mark", "sweep"} /\ End(t, "dropped")
      BY <2>0, <3>2, EndKeeps DEF End
    <3>3. CASE /\ pc[t] = "rename" /\ Goto(t, "late rename") /\ holder' = Nobody
               /\ UNCHANGED <<index, files, temps, job, copy, gcVars, victim, history>>
      BY <2>0, <3>3, AbandonKeeps
    <3>4. CASE /\ pc[t] = "unlink" /\ Leave(t, "late unlink") /\ Finish("dropped")
               /\ UNCHANGED <<index, files, temps, victim>>
      BY <2>0, <3>4, EndKeeps
    <3>5. CASE /\ pc[t] \in {"fetch", "put"} /\ Return(t) /\ Leak(t)
               /\ UNCHANGED <<index, files, holder, live, queue, victim, history>>
      BY <2>3, <3>5
    <3>. QED
      BY <2>8, <3>1, <3>2, <3>3, <3>4, <3>5 DEF Cancel
  <2>9. ASSUME NEW t \in Tasks, LateRename(t) \/ LateUnlink(t) PROVE IInv'
    BY <2>0, <2>9, LateRenameKeeps, LateUnlinkKeeps
  <2>. QED
    BY <1>2, <2>1, <2>2, <2>4, <2>5, <2>6, <2>7, <2>8, <2>9 DEF Next
<1>. QED
  BY <1>1, <1>2

LEMMA Invariant == Spec => []IInv
BY InitInv, NextInv, PTL DEF Spec

(* Every variable stays in its domain; what waits to be looked at is marked.   *)
THEOREM TypeCorrect == Spec => []TypeOK
<1>1. IInv => TypeOK
  BY DEF IInv
<1>. QED
  BY <1>1, Invariant, PTL

(* compute_live_set misses nothing: what the tags, as it has read them, reach  *)
(* by way of files that were there when the collection began and still are is  *)
(* removed by no collection, however handlers fill the directory meanwhile,    *)
(* however deep lists of manifests are nested, and whatever the late renames   *)
(* and unlinks of dropped calls do.  Nothing removes it but such an unlink.    *)
THEOREM NothingReachedRemoved == Spec => KeepsReached
<1>. DEFINE Kept == \A d \in files \cap Reachable(began, reached) : d \in files' \/ TakenLate(d)
<1>1. ASSUME IInv, [Next]_vars PROVE [Kept]_files
  <2>1. ASSUME NEW t \in Tasks, Unlink(t) PROVE Kept
    <3>1. queue = {} /\ victim[t] \notin live
      BY <1>1, <2>1 DEF IInv, SweepPending, Unlink
    <3>2. Reachable(began, reached) \subseteq live
      BY <1>1, <3>1, MarkedAll
    <3>. QED
      BY <2>1, <3>1, <3>2 DEF Unlink
  <2>2. ASSUME NEW t \in Tasks, LateUnlink(t) PROVE Kept
    <3>1. pc[t] = "late unlink" /\ pc'[t] = "idle"
      BY <1>1, <2>2 DEF IInv, TypeOK, LateUnlink, Goto
    <3>. QED
      BY <2>2, <3>1 DEF LateUnlink, TakenLate
  <2>3. ASSUME Next, ~(\E t \in Tasks : Unlink(t) \/ LateUnlink(t)) PROVE files \subseteq files'
    BY <2>3 DEF Next, Pull, Fetched, FinalizeErr, RemoveTag, Lock, Rename, Collect, Begin,
                Trace, Keep, Discard, RefuseEntry, OpenDir, Swept, IoError, Cancel, Abandon,
                LateRename, End
  <2>. QED
    BY <1>1, <2>1, <2>2, <2>3 DEF vars
<1>. QED
  BY <1>1, Invariant, PTL DEF Spec, KeepsReached

(* REQ-0025: what a change of tags made unreachable is gone, or reached again, *)
(* when the last collection has come to its end, whatever collections were     *)
(* dropped before it, unless something of a dropped call has landed since.     *)
THEOREM ReplacedAreCollected == Spec => []ReplacedCollected
<1>1. IInv => ReplacedCollected
  BY DEF IInv
<1>. QED
  BY <1>1, Invariant, PTL
=============================================================================
