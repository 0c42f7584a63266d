-------------------------- MODULE DigestRequestsProofs --------------------------
(* Theorems about DigestRequests, for every set of tasks, all sizes of blobs   *)
(* and all bounds of ranges.                                                   *)
(*                                                                             *)
(* Ranges are a matter of arithmetic, for each request alone (ServeFile).      *)
(* Files and counters are a matter of what has happened to the file since a    *)
(* request has looked: what it knows is still so, or the history says what has *)
(* changed it (Traced).                                                        *)
EXTENDS DigestRequests, FiniteSetTheorems, TLAPS

(* There is no answer before it is given.                                      *)
Unanswered(t) == pc[t] # "answer" => response[t] = NoReply /\ range[t] = NoRange

(* The file was there when t looked, and it has been removed or is there still;*)
(* or it was not there, and came to be there or is missing still.  A path that *)
(* get has returned names a file unless that has been removed.                 *)
Traced(t) ==
    /\ pc[t] \in {"idle", "look", "get", "lock"} => t \notin askedUpstream
    /\ pc[t] \in {"get", "lock"} /\ hit[t] => stored \/ t \in removed
    /\ t \in askedUpstream /\ hit[t] => t \in removed
    /\ pc[t] \in {"get", "lock", "fetch"} /\ ~hit[t] /\ stored => t \in landed
    /\ pc[t] = "read" /\ ~hit[t] => t \in landed
    /\ pc[t] \in {"open", "read"} => stored \/ t \in lost

IInv ==
    /\ TypeOK
    /\ RangesServed
    /\ \A t \in Tasks : Unanswered(t) /\ Traced(t)

USE DEF file, counters, request, history, Kinds, Awaiting, PCs

-----------------------------------------------------------------------------
(* The answers of serve_file, for any size and any range.                      *)
LEMMA RangeBounds ==
    ASSUME NEW r \in ByteRange
    PROVE  /\ r.start # None => r.start \in Nat
           /\ r.end # None => r.end \in Nat
           /\ r.start = None /\ r.end = None => r = NoRange
           /\ NoRange \in ByteRange
BY SizesType DEF ByteRange, NoRange

(* ByteRange::resolve gives positions of the file, or nothing where the range  *)
(* wants nothing.                                                              *)
LEMMA Resolves ==
    ASSUME size \in Nat, NEW r \in ByteRange, r # NoRange
    PROVE  \/ resolve(r) = {} /\ Wanted(r) = {}
           \/ \E first, last \in Nat :
                 /\ resolve(r) = {[first |-> first, last |-> last]}
                 /\ first <= last /\ last < size
                 /\ Wanted(r) = first .. last
<1>0. /\ r.start # None => r.start \in Nat
      /\ r.end # None => r.end \in Nat
      /\ r.start = None => r.end # None
  BY RangeBounds
<1>1. CASE Unsatisfiable(r)
  <2>1. resolve(r) = {}
    BY <1>1 DEF resolve
  <2>2. Wanted(r) = {}
    <3>1. CASE size = 0
      BY <3>1 DEF Wanted
    <3>2. CASE r.start # None /\ r.start >= size
      BY <1>0, <3>2 DEF Wanted
    <3>3. CASE r.start # None /\ r.end # None /\ r.start > r.end
      BY <1>0, <3>3 DEF Wanted
    <3>4. CASE r.start = None /\ r.end = 0
      BY <1>0, <3>4 DEF Wanted
    <3>. QED
      BY <1>1, <3>1, <3>2, <3>3, <3>4 DEF Unsatisfiable
  <2>. QED
    BY <2>1, <2>2
<1>2. CASE ~Unsatisfiable(r) /\ r.start = None
  <2>. DEFINE first == size - Lowest(r.end, size)
              last == size - 1
  <2>1. r.end \in Nat /\ r.end > 0 /\ size > 0
    BY <1>0, <1>2 DEF Unsatisfiable
  <2>2. first \in Nat /\ last \in Nat /\ first <= last /\ last < size
    BY <2>1 DEF Lowest
  <2>3. Wanted(r) = first .. last
    BY <1>2, <2>1 DEF Wanted, Lowest
  <2>4. resolve(r) = {[first |-> first, last |-> last]}
    BY <1>2 DEF resolve, Between
  <2>. HIDE DEF first, last
  <2>. QED
    BY <2>2, <2>3, <2>4
<1>3. CASE ~Unsatisfiable(r) /\ r.start # None
  <2>. DEFINE last == IF r.end = None THEN size - 1 ELSE Lowest(r.end, size - 1)
  <2>1. r.start \in Nat /\ size > 0 /\ r.start < size /\ (r.end # None => r.end >= r.start)
    BY <1>0, <1>3 DEF Unsatisfiable
  <2>2. last \in Nat /\ r.start <= last /\ last < size
    BY <1>0, <2>1 DEF Lowest
  <2>3. Wanted(r) = r.start .. last
    BY <1>0, <1>3, <2>1 DEF Wanted, Lowest
  <2>4. resolve(r) = {[first |-> r.start, last |-> last]}
    BY <1>3 DEF resolve, Between
  <2>. HIDE DEF last
  <2>. QED
    BY <2>1, <2>2, <2>3, <2>4
<1>. QED
  BY <1>1, <1>2, <1>3

LEMMA ServeFile ==
    ASSUME size \in Nat, NEW r \in ByteRange
    PROVE  serve_file(r) \in Replies /\ Serves(serve_file(r), r)
<1>1. CASE r = NoRange
  <2>1. serve_file(r) = Reply(200, 0, 0, 0 .. size - 1, size)
    BY <1>1 DEF serve_file
  <2>. QED
    BY <1>1, <2>1 DEF Reply, Replies, Statuses, Serves
<1>2. CASE r # NoRange /\ resolve(r) = {} /\ Wanted(r) = {}
  <2>1. serve_file(r) = Status(416)
    BY <1>2 DEF serve_file
  <2>. QED
    BY <1>2, <2>1 DEF Status, Reply, Replies, Statuses, Serves
<1>3. ASSUME NEW first \in Nat, NEW last \in Nat, r # NoRange,
             resolve(r) = {[first |-> first, last |-> last]},
             first <= last, last < size, Wanted(r) = first .. last
      PROVE  serve_file(r) \in Replies /\ Serves(serve_file(r), r)
  <2>. DEFINE p == CHOOSE q \in resolve(r) : TRUE
              len == last - first + 1
              body == {i \in 0 .. size - 1 : i - first \in 0 .. len - 1}
  <2>1. p = [first |-> first, last |-> last]
    BY <1>3
  <2>2. p.first = first /\ p.last = last
    <3>. HIDE DEF p
    <3>. QED
      BY <2>1
  <2>3. serve_file(r) = Reply(206, first, last, body, len)
    <3>1. resolve(r) # {}
      BY <1>3
    <3>. QED
      BY <1>3, <2>2, <3>1 DEF serve_file
  <2>4. body = first .. last /\ body # {} /\ body \subseteq Nat
    BY <1>3
  <2>5. Cardinality(first .. last) = len /\ len \in Nat
    BY <1>3, FS_Interval
  <2>. HIDE DEF p, body, len
  <2>. QED
    BY <1>3, <2>3, <2>4, <2>5 DEF Reply, Replies, Statuses, Serves
<1>. QED
  BY <1>1, <1>2, <1>3, Resolves

-----------------------------------------------------------------------------
(* What is said of a request does not depend on the others.                    *)
Local(t) ==
    /\ \A k \in Kinds : fetching[k] = t <=> pc[t] = "fetch" /\ kind[t] = k
    /\ t \in landed \union askedUpstream \union removed \union lost => pc[t] # "idle"
    /\ Serves(response[t], range[t])
    /\ Unanswered(t)
    /\ Traced(t)

Domains ==
    /\ size \in Sizes /\ stored \in BOOLEAN
    /\ pc \in [Tasks -> PCs] /\ kind \in [Tasks -> Kinds]
    /\ fetching \in [Kinds -> Tasks \union {NoTask}]
    /\ hit \in [Tasks -> BOOLEAN] /\ range \in [Tasks -> ByteRange]
    /\ response \in [Tasks -> Replies]
    /\ hits \in [Kinds -> Nat] /\ misses \in [Kinds -> Nat]
    /\ landed \subseteq Tasks /\ askedUpstream \subseteq Tasks
    /\ removed \subseteq Tasks /\ lost \subseteq Tasks

LEMMA Parts == IInv <=> Domains /\ \A t \in Tasks : Local(t)
BY DEF IInv, TypeOK, RangesServed, Domains, Local, Busy

LEMMA PartsPrime == IInv' <=> Domains' /\ \A t \in Tasks : Local(t)'
BY DEF IInv, TypeOK, RangesServed, Domains, Local, Busy

(* A step of t, while the file may come to be there but does not go.           *)
StepOf(t) ==
    /\ size' = size /\ (stored => stored')
    /\ Domains'
    /\ \A u \in Tasks \ {t} :
          /\ pc'[u] = pc[u] /\ kind'[u] = kind[u] /\ hit'[u] = hit[u]
          /\ range'[u] = range[u] /\ response'[u] = response[u]
          /\ \A k \in Kinds : fetching'[k] = u <=> fetching[k] = u
          /\ u \in askedUpstream' <=> u \in askedUpstream
          /\ u \in removed' <=> u \in removed
          /\ u \in lost' <=> u \in lost
          /\ u \in landed => u \in landed'
          /\ u \in landed' /\ u \notin landed => pc[u] \in Awaiting
          /\ stored' /\ ~stored /\ pc[u] \in Awaiting => u \in landed'

LEMMA Others ==
    ASSUME IInv, NEW t \in Tasks, StepOf(t), Local(t)'
    PROVE  IInv'
<1>1. ASSUME NEW u \in Tasks, u # t PROVE Local(u)'
  <2>1. /\ pc'[u] = pc[u] /\ kind'[u] = kind[u] /\ hit'[u] = hit[u]
        /\ range'[u] = range[u] /\ response'[u] = response[u]
        /\ \A k \in Kinds : fetching'[k] = u <=> fetching[k] = u
        /\ u \in askedUpstream' <=> u \in askedUpstream
        /\ u \in removed' <=> u \in removed
        /\ u \in lost' <=> u \in lost
        /\ u \in landed => u \in landed'
        /\ u \in landed' /\ u \notin landed => pc[u] \in Awaiting
        /\ stored' /\ ~stored /\ pc[u] \in Awaiting => u \in landed'
        /\ size' = size /\ (stored => stored')
    BY <1>1 DEF StepOf
  <2>2. Local(u)
    BY Parts
  <2>3. Unanswered(u)'
    BY <2>1, <2>2 DEF Local, Unanswered
  <2>4. Traced(u)'
    BY <2>1, <2>2 DEF Local, Traced
  <2>5. Serves(response[u], range[u])'
    BY <2>1, <2>2 DEF Local, Serves, Wanted
  <2>. QED
    BY <2>1, <2>2, <2>3, <2>4, <2>5 DEF Local
<1>. QED
  BY <1>1, PartsPrime DEF StepOf

(* An answer without a body is a right one to whom asks for no range.          *)
LEMMA Statuses0 ==
    \A status \in {0, 400, 404, 406, 500, 502} :
        /\ Status(status) \in Replies
        /\ \A r : Serves(Status(status), r)
        /\ Status(status).status = status
BY DEF Status, Reply, Replies, Statuses, Serves

LEMMA NoneAsked == NoRange \in ByteRange /\ NoReply \in Replies /\ Serves(NoReply, NoRange)
BY Statuses0 DEF NoReply, ByteRange, NoRange

(* What refusing, counting and ending do.                                      *)
LEMMA Refused ==
    ASSUME Domains, NEW t \in Tasks, NEW status \in {400, 404, 406, 500, 502}, Refuse(t, status)
    PROVE  /\ pc' \in [Tasks -> PCs] /\ response' \in [Tasks -> Replies]
           /\ UNCHANGED <<kind, hit, range>>
           /\ pc'[t] = "answer" /\ response'[t] = Status(status)
           /\ \A u \in Tasks \ {t} : pc'[u] = pc[u] /\ response'[u] = response[u]
BY Statuses0 DEF Domains, Refuse, Goto

LEMMA Recorded ==
    ASSUME Domains, NEW t \in Tasks, Record(t)
    PROVE  /\ hits' \in [Kinds -> Nat] /\ misses' \in [Kinds -> Nat]
           /\ Counted' = Counted + 1
           /\ hits' # hits <=> hit[t]
<1>0. /\ hits \in [Kinds -> Nat] /\ misses \in [Kinds -> Nat]
      /\ kind[t] = "blob" \/ kind[t] = "manifest"
  BY DEF Domains
<1>1. CASE hit[t]
  <2>1. hits' = [hits EXCEPT ![kind[t]] = hits[kind[t]] + 1] /\ misses' = misses
    BY <1>1 DEF Record
  <2>2. hits'[kind[t]] = hits[kind[t]] + 1
    BY <1>0, <2>1
  <2>3. hits' # hits
    BY <1>0, <2>2
  <2>. QED
    BY <1>0, <1>1, <2>1, <2>3 DEF Counted
<1>2. CASE ~hit[t]
  <2>1. misses' = [misses EXCEPT ![kind[t]] = misses[kind[t]] + 1] /\ hits' = hits
    BY <1>2 DEF Record
  <2>. QED
    BY <1>0, <1>2, <2>1 DEF Counted
<1>. QED
  BY <1>1, <1>2

LEMMA Got ==
    ASSUME Domains, NEW t \in Tasks, GetOk(t)
    PROVE  /\ pc' \in [Tasks -> PCs] /\ UNCHANGED request
           /\ hits' \in [Kinds -> Nat] /\ misses' \in [Kinds -> Nat]
           /\ pc'[t] = "open" \/ pc'[t] = "read"
           /\ \A u \in Tasks \ {t} : pc'[u] = pc[u]
BY Recorded DEF Domains, GetOk, Goto

LEMMA Ended ==
    ASSUME Domains, NEW t \in Tasks, End(t)
    PROVE  /\ pc' \in [Tasks -> PCs] /\ kind' \in [Tasks -> Kinds] /\ hit' \in [Tasks -> BOOLEAN]
           /\ range' \in [Tasks -> ByteRange] /\ response' \in [Tasks -> Replies]
           /\ pc'[t] = "idle" /\ range'[t] = NoRange /\ response'[t] = NoReply
           /\ t \notin landed' \union askedUpstream' \union removed' \union lost'
           /\ landed' \subseteq Tasks /\ askedUpstream' \subseteq Tasks
           /\ removed' \subseteq Tasks /\ lost' \subseteq Tasks
           /\ \A u \in Tasks \ {t} :
                 /\ pc'[u] = pc[u] /\ kind'[u] = kind[u] /\ hit'[u] = hit[u]
                 /\ range'[u] = range[u] /\ response'[u] = response[u]
                 /\ u \in landed' <=> u \in landed
                 /\ u \in askedUpstream' <=> u \in askedUpstream
                 /\ u \in removed' <=> u \in removed
                 /\ u \in lost' <=> u \in lost
BY NoneAsked DEF Domains, End, Goto

LEMMA EndKeeps ==
    ASSUME IInv, NEW t \in Tasks, End(t), UNCHANGED <<file, counters>>,
           fetching' \in [Kinds -> Tasks \union {NoTask}],
           \A k \in Kinds : fetching'[k] # t,
           \A k \in Kinds, u \in Tasks \ {t} : fetching'[k] = u <=> fetching[k] = u
    PROVE  IInv'
<1>0. Domains /\ Local(t)
  BY Parts
<1>1. Domains'
  BY <1>0, Ended DEF Domains
<1>2. StepOf(t)
  BY <1>0, <1>1, Ended DEF StepOf
<1>3. Local(t)'
  <2>1. pc'[t] = "idle" /\ range'[t] = NoRange /\ response'[t] = NoReply
        /\ t \notin landed' \union askedUpstream' \union removed' \union lost'
    BY <1>0, Ended
  <2>2. Serves(response[t], range[t])'
    BY <2>1, Statuses0 DEF NoReply, Status, Reply, Serves
  <2>. QED
    BY <2>1, <2>2 DEF Local, Unanswered, Traced
<1>. QED
  BY <1>2, <1>3, Others

LEMMA RefuseKeeps ==
    ASSUME IInv, NEW t \in Tasks, NEW status \in {400, 404, 406, 500, 502}, Refuse(t, status),
           pc[t] # "answer", UNCHANGED <<file, counters, history>>,
           fetching' \in [Kinds -> Tasks \union {NoTask}],
           \A k \in Kinds : fetching'[k] # t,
           \A k \in Kinds, u \in Tasks \ {t} : fetching'[k] = u <=> fetching[k] = u
    PROVE  IInv'
<1>0. Domains /\ Local(t)
  BY Parts
<1>1. Domains'
  BY <1>0, Refused DEF Domains
<1>2. StepOf(t)
  BY <1>0, <1>1, Refused DEF StepOf
<1>3. Local(t)'
  <2>1. pc'[t] = "answer" /\ response'[t] = Status(status) /\ range' = range /\ hit' = hit
    BY <1>0, Refused
  <2>2. Serves(response[t], range[t])'
    BY <2>1, Statuses0 DEF Status, Reply, Serves
  <2>. QED
    BY <1>0, <2>1, <2>2 DEF Local, Unanswered, Traced
<1>. QED
  BY <1>2, <1>3, Others

(* get returns the path of the file, which is there.                           *)
LEMMA GetKeeps ==
    ASSUME IInv, NEW t \in Tasks, GetOk(t), pc[t] \in {"get", "lock", "fetch"},
           stored' = TRUE, size' = size, UNCHANGED <<askedUpstream, removed, lost>>,
           ~hit[t] => t \in landed',
           \/ stored /\ landed' = landed
           \/ landed' = landed \union {u \in Tasks : pc[u] \in Awaiting},
           fetching' \in [Kinds -> Tasks \union {NoTask}],
           \A k \in Kinds : fetching'[k] # t,
           \A k \in Kinds, u \in Tasks \ {t} : fetching'[k] = u <=> fetching[k] = u
    PROVE  IInv'
<1>0. Domains /\ Local(t)
  BY Parts
<1>1. Domains'
  BY <1>0, Got DEF Domains
<1>2. StepOf(t)
  BY <1>0, <1>1, Got DEF StepOf
<1>3. Local(t)'
  <2>1. (pc'[t] = "open" \/ pc'[t] = "read") /\ UNCHANGED request
    BY <1>0, Got
  <2>2. Serves(response[t], range[t])'
    BY <1>0, <2>1 DEF Local, Serves, Wanted
  <2>. QED
    BY <1>0, <2>1, <2>2 DEF Local, Unanswered, Traced
<1>. QED
  BY <1>2, <1>3, Others

LEMMA InitInv == Init => IInv
<1>. SUFFICES ASSUME Init PROVE IInv
  OBVIOUS
<1>1. Domains
  BY NoneAsked DEF Init, Domains
<1>2. ASSUME NEW t \in Tasks PROVE Local(t)
  BY NoneAsked, MarkersFresh DEF Init, Local, Unanswered, Traced
<1>. QED
  BY <1>1, <1>2, Parts

LEMMA NextInv == IInv /\ [Next]_vars => IInv'
<1>. SUFFICES ASSUME IInv, [Next]_vars PROVE IInv'
  OBVIOUS
<1>. Domains /\ \A t \in Tasks : Local(t)
  BY Parts
<1>a. size \in Nat
  BY SizesType DEF Domains
<1>1. ASSUME NEW t \in Tasks, NEW k \in Kinds, Request(t, k) PROVE IInv'
  <2>0. pc[t] = "idle" /\ UNCHANGED <<file, fetching, counters, history>>
        /\ \A j \in Kinds : fetching[j] # t
    BY <1>1 DEF Request, Local
  <2>1. CASE Goto(t, "look") /\ kind' = [kind EXCEPT ![t] = k] /\ UNCHANGED <<hit, range, response>>
    <3>1. Domains'
      BY <2>0, <2>1 DEF Domains, Goto
    <3>2. pc'[t] = "look" /\ \A u \in Tasks \ {t} : pc'[u] = pc[u] /\ kind'[u] = kind[u]
      BY <2>1 DEF Domains, Goto
    <3>3. StepOf(t)
      BY <2>0, <2>1, <3>1, <3>2 DEF StepOf
    <3>4. Serves(response[t], range[t])'
      BY <2>0, <2>1 DEF Local, Serves, Wanted
    <3>5. Local(t)'
      BY <2>0, <2>1, <3>2, <3>4 DEF Local, Unanswered, Traced
    <3>. QED
      BY <3>3, <3>5, Others
  <2>2. ASSUME NEW status \in {404, 400, 502}, Refuse(t, status) PROVE IInv'
    BY <2>0, <2>2, RefuseKeeps DEF Domains
  <2>. QED
    BY <1>1, <2>1, <2>2 DEF Request
<1>2. ASSUME NEW t \in Tasks, Look(t) PROVE IInv'
  <2>0. pc[t] = "look" /\ UNCHANGED <<file, fetching, kind, range, response, counters, history>>
    BY <1>2 DEF Look
  <2>1. Domains'
    BY <1>2 DEF Look, Domains, Goto
  <2>2. pc'[t] = "get" /\ hit'[t] = stored /\ \A u \in Tasks \ {t} : pc'[u] = pc[u] /\ hit'[u] = hit[u]
    BY <1>2 DEF Look, Domains, Goto
  <2>3. StepOf(t)
    BY <2>0, <2>1, <2>2 DEF StepOf
  <2>4. Serves(response[t], range[t])'
    BY <2>0 DEF Local, Serves, Wanted
  <2>5. Local(t)'
    BY <2>0, <2>2, <2>4 DEF Local, Unanswered, Traced
  <2>. QED
    BY <2>3, <2>5, Others
<1>3. ASSUME NEW t \in Tasks, Get(t) PROVE IInv'
  <2>0. pc[t] = "get" /\ UNCHANGED <<file, fetching, history>>
        /\ \A k \in Kinds : fetching[k] # t
    BY <1>3 DEF Get, Local
  <2>1. CASE stored /\ GetOk(t)
    BY <2>0, <2>1, GetKeeps DEF Local, Traced, Domains
  <2>2. CASE ~stored /\ Goto(t, "lock") /\ UNCHANGED <<counters, request>>
    <3>1. Domains'
      BY <2>0, <2>2 DEF Domains, Goto
    <3>2. pc'[t] = "lock" /\ \A u \in Tasks \ {t} : pc'[u] = pc[u]
      BY <2>2 DEF Domains, Goto
    <3>3. StepOf(t)
      BY <2>0, <2>2, <3>1, <3>2 DEF StepOf
    <3>4. Serves(response[t], range[t])'
      BY <2>0, <2>2 DEF Local, Serves, Wanted
    <3>5. Local(t)'
      BY <2>0, <2>2, <3>2, <3>4 DEF Local, Unanswered, Traced
    <3>. QED
      BY <3>3, <3>5, Others
  <2>. QED
    BY <1>3, <2>1, <2>2 DEF Get
<1>4. ASSUME NEW t \in Tasks, GetInvalid(t) PROVE IInv'
  <2>. pc[t] = "get" /\ UNCHANGED <<file, fetching, counters, history>>
       /\ \A k \in Kinds : fetching[k] # t
    BY <1>4 DEF GetInvalid, Local
  <2>. QED
    BY <1>4, RefuseKeeps DEF GetInvalid, Domains
<1>5. ASSUME NEW t \in Tasks, Recheck(t) PROVE IInv'
  <2>0. pc[t] = "lock" /\ fetching[kind[t]] = NoTask /\ UNCHANGED <<file, landed, removed, lost>>
        /\ kind[t] \in Kinds /\ \A k \in Kinds : fetching[k] # t
    BY <1>5 DEF Recheck, Local, Domains
  <2>1. CASE stored /\ GetOk(t) /\ UNCHANGED <<fetching, askedUpstream>>
    BY <2>0, <2>1, GetKeeps DEF Local, Traced, Domains
  <2>2. CASE /\ ~stored /\ Goto(t, "fetch") /\ fetching' = [fetching EXCEPT ![kind[t]] = t]
             /\ askedUpstream' = askedUpstream \union {t} /\ UNCHANGED <<counters, request>>
    <3>1. Domains'
      BY <2>0, <2>2 DEF Domains, Goto
    <3>2. pc'[t] = "fetch" /\ \A u \in Tasks \ {t} : pc'[u] = pc[u]
      BY <2>2 DEF Domains, Goto
    <3>3. \A k \in Kinds : fetching'[k] = IF k = kind[t] THEN t ELSE fetching[k]
      BY <2>0, <2>2 DEF Domains
    <3>4. \A k \in Kinds, u \in Tasks \ {t} : fetching'[k] = u <=> fetching[k] = u
      BY <2>0, <3>3, MarkersFresh
    <3>5. StepOf(t)
      BY <2>0, <2>2, <3>1, <3>2, <3>4 DEF StepOf
    <3>6. Serves(response[t], range[t])'
      BY <2>0, <2>2 DEF Local, Serves, Wanted
    <3>7. Local(t)'
      BY <2>0, <2>2, <3>2, <3>3, <3>6 DEF Local, Unanswered, Traced
    <3>. QED
      BY <3>5, <3>7, Others
  <2>. QED
    BY <1>5, <2>1, <2>2 DEF Recheck
<1>6. ASSUME NEW t \in Tasks, pc[t] = "fetch", fetching' = [fetching EXCEPT ![kind[t]] = NoTask]
      PROVE  /\ fetching' \in [Kinds -> Tasks \union {NoTask}]
             /\ \A k \in Kinds : fetching'[k] # t
             /\ \A k \in Kinds, u \in Tasks \ {t} : fetching'[k] = u <=> fetching[k] = u
  <2>1. \A k \in Kinds : fetching'[k] = IF k = kind[t] THEN NoTask ELSE fetching[k]
    BY <1>6 DEF Domains
  <2>2. kind[t] \in Kinds /\ \A k \in Kinds : fetching[k] = t <=> k = kind[t]
    BY <1>6 DEF Domains, Local
  <2>. QED
    BY <1>6, <2>1, <2>2, MarkersFresh DEF Domains
<1>7. ASSUME NEW t \in Tasks, FetchOk(t) PROVE IInv'
  <2>0. /\ pc[t] = "fetch" /\ fetching' = [fetching EXCEPT ![kind[t]] = NoTask] /\ GetOk(t)
        /\ stored' = TRUE /\ size' = size /\ UNCHANGED <<askedUpstream, removed, lost>>
        /\ landed' = landed \union {u \in Tasks : pc[u] \in Awaiting}
    BY <1>7 DEF FetchOk, Land
  <2>. QED
    BY <1>6, <2>0, GetKeeps
<1>8. ASSUME NEW t \in Tasks, FetchErr(t) PROVE IInv'
  <2>0. pc[t] = "fetch" /\ fetching' = [fetching EXCEPT ![kind[t]] = NoTask]
        /\ UNCHANGED <<file, counters, history>>
    BY <1>8 DEF FetchErr
  <2>1. /\ fetching' \in [Kinds -> Tasks \union {NoTask}]
        /\ \A k \in Kinds : fetching'[k] # t
        /\ \A k \in Kinds, u \in Tasks \ {t} : fetching'[k] = u <=> fetching[k] = u
    BY <1>6, <2>0
  <2>2. PICK status \in {404, 502} : Refuse(t, status)
    BY <1>8 DEF FetchErr
  <2>. QED
    BY <2>0, <2>1, <2>2, RefuseKeeps
<1>9. ASSUME NEW t \in Tasks, Open(t) PROVE IInv'
  <2>0. pc[t] = "open" /\ UNCHANGED <<file, fetching, counters, history>>
        /\ \A k \in Kinds : fetching[k] # t
    BY <1>9 DEF Open, Local
  <2>1. CASE Goto(t, "serve") /\ UNCHANGED request
    <3>1. Domains'
      BY <2>0, <2>1 DEF Domains, Goto
    <3>2. pc'[t] = "serve" /\ \A u \in Tasks \ {t} : pc'[u] = pc[u]
      BY <2>1 DEF Domains, Goto
    <3>3. StepOf(t)
      BY <2>0, <2>1, <3>1, <3>2 DEF StepOf
    <3>4. Serves(response[t], range[t])'
      BY <2>0, <2>1 DEF Local, Serves, Wanted
    <3>5. Local(t)'
      BY <2>0, <2>1, <3>2, <3>4 DEF Local, Unanswered, Traced
    <3>. QED
      BY <3>3, <3>5, Others
  <2>2. CASE Refuse(t, 500)
    BY <2>0, <2>2, RefuseKeeps DEF Domains
  <2>. QED
    BY <1>9, <2>1, <2>2 DEF Open
<1>10. ASSUME NEW t \in Tasks, Serve(t) PROVE IInv'
  <2>0. pc[t] = "serve" /\ UNCHANGED <<file, fetching, kind, hit, counters, history>>
    BY <1>10 DEF Serve
  <2>1. PICK r \in ByteRange :
           /\ range' = [range EXCEPT ![t] = r]
           /\ response' = [response EXCEPT ![t] = serve_file(r)]
    BY <1>10 DEF Serve
  <2>2. serve_file(r) \in Replies /\ Serves(serve_file(r), r)
    BY <1>a, ServeFile
  <2>3. pc' = [pc EXCEPT ![t] = "answer"]
    BY <1>10 DEF Serve, Goto
  <2>4. /\ pc'[t] = "answer" /\ range'[t] = r /\ response'[t] = serve_file(r)
        /\ \A u \in Tasks \ {t} : pc'[u] = pc[u] /\ range'[u] = range[u] /\ response'[u] = response[u]
    <3>. HIDE DEF serve_file
    <3>. QED
      BY <2>1, <2>3 DEF Domains
  <2>5. Domains'
    BY <2>0, <2>1, <2>2, <2>3 DEF Domains
  <2>6. StepOf(t)
    BY <2>0, <2>4, <2>5 DEF StepOf
  <2>7. Serves(response[t], range[t])'
    BY <2>0, <2>2, <2>4 DEF Serves, Wanted
  <2>8. Local(t)'
    BY <2>0, <2>4, <2>7 DEF Local, Unanswered, Traced
  <2>. QED
    BY <2>6, <2>8, Others
<1>11. ASSUME NEW t \in Tasks, Read(t) PROVE IInv'
  <2>0. pc[t] = "read" /\ UNCHANGED <<file, fetching, history>>
        /\ \A k \in Kinds : fetching[k] # t
    BY <1>11 DEF Read, Local
  <2>1. ASSUME NEW status \in {406, 502}, Refuse(t, status), UNCHANGED counters PROVE IInv'
    BY <2>0, <2>1, RefuseKeeps DEF Domains
  <2>. DEFINE whole == Reply(200, 0, 0, 0 .. size - 1, size)
  <2>2. ASSUME Goto(t, "answer"), response' = [response EXCEPT ![t] = whole],
               Record(t), UNCHANGED <<kind, hit, range>>
        PROVE  IInv'
    <3>1. whole \in Replies /\ whole.status = 200 /\ whole.body = 0 .. size - 1 /\ whole.length = size
      BY <1>a DEF Reply, Replies, Statuses
    <3>. HIDE DEF whole
    <3>2. Domains'
      BY <2>0, <2>2, <3>1, Recorded DEF Domains, Goto
    <3>3. /\ pc'[t] = "answer" /\ response'[t] = whole
          /\ \A u \in Tasks \ {t} : pc'[u] = pc[u] /\ response'[u] = response[u]
      BY <2>2 DEF Domains, Goto
    <3>4. StepOf(t)
      BY <2>0, <2>2, <3>2, <3>3 DEF StepOf
    <3>5. range'[t] = NoRange
      BY <2>0, <2>2 DEF Local, Unanswered
    <3>6. Serves(response[t], range[t])'
      BY <2>0, <3>1, <3>3, <3>5 DEF Serves
    <3>7. Local(t)'
      BY <2>0, <2>2, <3>3, <3>6 DEF Local, Unanswered, Traced
    <3>. QED
      BY <3>4, <3>7, Others
  <2>. QED
    BY <1>11, <2>1, <2>2 DEF Read
<1>12. ASSUME NEW t \in Tasks, Respond(t) PROVE IInv'
  <2>. pc[t] = "answer" /\ UNCHANGED <<file, fetching, counters>> /\ \A k \in Kinds : fetching[k] # t
    BY <1>12 DEF Respond, Local
  <2>. QED
    BY <1>12, EndKeeps DEF Respond, Domains
<1>13. ASSUME NEW t \in Tasks, Cancel(t) PROVE IInv'
  <2>1. fetching' = [k \in Kinds |-> IF fetching[k] = t THEN NoTask ELSE fetching[k]]
    BY <1>13 DEF Cancel
  <2>2. /\ fetching' \in [Kinds -> Tasks \union {NoTask}]
        /\ \A k \in Kinds : fetching'[k] # t
        /\ \A k \in Kinds, u \in Tasks \ {t} : fetching'[k] = u <=> fetching[k] = u
    BY <2>1, MarkersFresh DEF Domains
  <2>. QED
    BY <1>13, <2>2, EndKeeps DEF Cancel
<1>14. CASE Store
  <2>0. /\ ~stored /\ stored' = TRUE /\ size' = size
        /\ landed' = landed \union {t \in Tasks : pc[t] \in Awaiting}
        /\ UNCHANGED <<fetching, pc, request, counters, askedUpstream, removed, lost>>
    BY <1>14 DEF Store, Land
  <2>1. Domains'
    BY <2>0 DEF Domains
  <2>2. ASSUME NEW t \in Tasks PROVE Local(t)'
    <3>1. Serves(response[t], range[t])'
      BY <2>0 DEF Local, Serves, Wanted
    <3>. QED
      BY <2>0, <3>1 DEF Local, Unanswered, Traced
  <2>. QED
    BY <2>1, <2>2, PartsPrime
<1>15. CASE Remove
  <2>0. /\ stored /\ stored' = FALSE /\ size' = size
        /\ removed' = removed \union {t \in Tasks : pc[t] \in Awaiting \ {"look"}}
        /\ lost' = lost \union {t \in Tasks : pc[t] \in {"open", "read"}}
        /\ UNCHANGED <<fetching, pc, request, counters, askedUpstream, landed>>
    BY <1>15 DEF Remove
  <2>1. Domains'
    BY <2>0 DEF Domains
  <2>2. ASSUME NEW t \in Tasks PROVE Local(t)'
    <3>1. Serves(response[t], range[t])'
      BY <2>0 DEF Local, Serves, Wanted
    <3>. QED
      BY <2>0, <3>1 DEF Local, Unanswered, Traced
  <2>. QED
    BY <2>1, <2>2, PartsPrime
<1>16. CASE UNCHANGED vars
  <2>0. UNCHANGED <<size, stored, fetching, pc, kind, hit, range, response, hits, misses,
                    askedUpstream, landed, removed, lost>>
    BY <1>16 DEF vars
  <2>1. Domains'
    BY <2>0 DEF Domains
  <2>2. ASSUME NEW t \in Tasks PROVE Local(t)'
    <3>1. Serves(response[t], range[t])'
      BY <2>0 DEF Local, Serves, Wanted
    <3>. QED
      BY <2>0, <3>1 DEF Local, Unanswered, Traced
  <2>. QED
    BY <2>1, <2>2, PartsPrime
<1>. QED
  BY <1>1, <1>2, <1>3, <1>4, <1>5, <1>7, <1>8, <1>9, <1>10, <1>11, <1>12, <1>13, <1>14, <1>15,
     <1>16 DEF Next

LEMMA Invariant == Spec => []IInv
BY InitInv, NextInv, PTL DEF Spec

-----------------------------------------------------------------------------
(* Every request has a legal state of its own, and the lock of an entry is     *)
(* held by exactly the request that fetches.                                   *)
THEOREM TypeCorrect == Spec => []TypeOK
<1>1. IInv => TypeOK
  BY DEF IInv
<1>. QED
  BY <1>1, Invariant, PTL

(* REQ-0035, for blobs of every size and every range: the bytes asked for are  *)
(* the bytes sent, named and counted so (ByteRange::resolve, serve_file).      *)
THEOREM RangesAreServed == Spec => []RangesServed
<1>1. IInv => RangesServed
  BY DEF IInv
<1>. QED
  BY <1>1, Invariant, PTL

-----------------------------------------------------------------------------
(* A task answers its own request and no other.                                *)
Step(t) ==
    \/ \E k \in Kinds : Request(t, k)
    \/ Look(t) \/ Get(t) \/ GetInvalid(t) \/ Recheck(t) \/ FetchOk(t)
    \/ FetchErr(t) \/ Open(t) \/ Serve(t) \/ Read(t) \/ Respond(t)
    \/ Cancel(t)

LEMMA Alone ==
    ASSUME IInv, NEW t \in Tasks, Step(t), NEW u \in Tasks, u # t
    PROVE  pc'[u] = pc[u]
<1>0. Domains
  BY Parts
<1>1. \/ \E l \in PCs : Goto(t, l)
      \/ \E status \in Statuses : Refuse(t, status)
      \/ GetOk(t)
      \/ End(t)
  BY DEF Step, Request, Look, Get, GetInvalid, Recheck, FetchOk, FetchErr, Open, Serve, Read,
         Respond, Cancel, Statuses
<1>2. \E l \in PCs : Goto(t, l)
  BY <1>1 DEF Refuse, GetOk, End
<1>. QED
  BY <1>0, <1>2 DEF Goto, Domains

(* A path that get has returned is readable unless the file has been removed   *)
(* since: eviction or a collection is all that breaks a request that is served *)
(* (BlobCache::get, then File::open or read).                                  *)
THEOREM BrokenByRemoval == Spec => BrokenOnlyIfRemoved
<1>1. ASSUME IInv, Next, NEW t \in Tasks, Broken(t) PROVE t \in lost
  <2>0. Domains /\ Traced(t)
    BY <1>1, Parts DEF Local
  <2>1. pc[t] \in {"open", "read"} /\ pc'[t] = "answer" /\ response'[t].status \in {500, 502}
    BY <1>1 DEF Broken
  <2>2. Step(t)
    <3>1. ~Store /\ ~Remove
      BY <2>1 DEF Store, Remove
    <3>. QED
      BY <1>1, <2>1, <3>1, Alone DEF Next, Step
  <2>3. CASE pc[t] = "open"
    <3>1. Open(t) \/ Cancel(t)
      BY <2>2, <2>3 DEF Step, Request, Look, Get, GetInvalid, Recheck, FetchOk, FetchErr, Serve,
                        Read, Respond
    <3>2. ~Cancel(t)
      BY <2>0, <2>1, Ended DEF Cancel
    <3>3. ~stored
      BY <2>0, <2>1, <3>1, <3>2 DEF Open, Goto, Domains
    <3>. QED
      BY <2>0, <2>3, <3>3 DEF Traced
  <2>4. CASE pc[t] = "read"
    <3>1. Read(t) \/ Cancel(t)
      BY <2>2, <2>4 DEF Step, Request, Look, Get, GetInvalid, Recheck, FetchOk, FetchErr, Serve,
                        Open, Respond
    <3>2. ~Cancel(t)
      BY <2>0, <2>1, Ended DEF Cancel
    <3>3. ~stored
      <4>1. SUFFICES ASSUME stored PROVE FALSE
        OBVIOUS
      <4>2. CASE Refuse(t, 406)
        BY <2>0, <2>1, <4>2, Refused, Statuses0
      <4>3. CASE response' = [response EXCEPT ![t] = Reply(200, 0, 0, 0 .. size - 1, size)]
        <5>1. response'[t].status = 200
          BY <2>0, <4>3 DEF Domains, Reply
        <5>. QED
          BY <2>1, <5>1
      <4>. QED
        BY <3>1, <3>2, <4>1, <4>2, <4>3 DEF Read
    <3>. QED
      BY <2>0, <2>4, <3>3 DEF Traced
  <2>. QED
    BY <2>1, <2>3, <2>4
<1>2. ASSUME UNCHANGED vars, NEW t \in Tasks PROVE ~Broken(t)
  BY <1>2 DEF vars, Broken
<1>3. IInv /\ [Next]_vars => [\A t \in Tasks : Broken(t) => t \in lost]_vars
  BY <1>1, <1>2
<1>. QED
  BY <1>3, Invariant, PTL DEF Spec, BrokenOnlyIfRemoved

-----------------------------------------------------------------------------
(* What CountedAsLooked says of a step.                                           *)
LookOf(t) ==
    IF hits' # hits THEN t \in askedUpstream => t \in removed
                    ELSE t \notin askedUpstream => t \in landed'

CountsAsLooked ==
    /\ Counted' - Counted = Cardinality({t \in Tasks : Answered(t)})
    /\ \A t \in Tasks : Answered(t) => LookOf(t)

LEMMA CountedNat == Domains => Counted \in Nat
BY DEF Domains, Counted

LEMMA NobodyCounted ==
    ASSUME Domains, UNCHANGED counters, \A t \in Tasks : ~Answered(t)
    PROVE  CountsAsLooked
<1>1. {t \in Tasks : Answered(t)} = {}
  OBVIOUS
<1>2. Counted' = Counted
  BY DEF Counted
<1>. QED
  BY <1>1, <1>2, CountedNat, FS_EmptySet DEF CountsAsLooked

LEMMA OneCounted ==
    ASSUME Domains, NEW t \in Tasks, Record(t), Answered(t),
           \A u \in Tasks \ {t} : ~Answered(u),
           hit[t] /\ t \in askedUpstream => t \in removed,
           ~hit[t] => t \in landed'
    PROVE  CountsAsLooked
<1>1. {u \in Tasks : Answered(u)} = {t}
  OBVIOUS
<1>2. Counted' = Counted + 1 /\ (hits' # hits <=> hit[t])
  BY Recorded
<1>3. Cardinality({t}) = 1
  BY FS_Singleton
<1>4. Counted' - Counted = 1
  BY <1>2, CountedNat
<1>5. LookOf(t)
  BY <1>2 DEF LookOf
<1>. QED
  BY <1>1, <1>3, <1>4, <1>5 DEF CountsAsLooked

(* get returns a path: a blob is counted now, a manifest when it is sent.      *)
LEMMA GotCounted ==
    ASSUME IInv, NEW t \in Tasks, GetOk(t), pc[t] \in {"get", "lock", "fetch"},
           \A u \in Tasks \ {t} : pc'[u] = pc[u],
           ~hit[t] => t \in landed'
    PROVE  CountsAsLooked
<1>0. Domains /\ Traced(t)
  BY Parts DEF Local
<1>1. \A u \in Tasks \ {t} : ~Answered(u)
  BY DEF Answered
<1>2. CASE kind[t] = "blob"
  <2>1. Goto(t, "open") /\ Record(t)
    BY <1>2 DEF GetOk
  <2>2. Answered(t)
    BY <1>0, <2>1 DEF Answered, Goto, Domains
  <2>. QED
    BY <1>0, <1>1, <2>1, <2>2, OneCounted DEF Traced
<1>3. CASE kind[t] # "blob"
  <2>1. Goto(t, "read") /\ UNCHANGED counters
    BY <1>3 DEF GetOk
  <2>2. ~Answered(t)
    BY <1>0, <2>1 DEF Answered, Goto, Domains
  <2>. QED
    BY <1>0, <1>1, <2>1, <2>2, NobodyCounted
<1>. QED
  BY <1>2, <1>3

LEMMA StepCounted == ASSUME IInv, NEW t \in Tasks, Step(t) PROVE CountsAsLooked
<1>0. Domains /\ Traced(t)
  BY Parts DEF Local
<1>1. \A u \in Tasks \ {t} : pc'[u] = pc[u] /\ ~Answered(u)
  BY Alone DEF Answered
<1>2. ASSUME UNCHANGED counters, ~Answered(t) PROVE CountsAsLooked
  BY <1>0, <1>1, <1>2, NobodyCounted
<1>3. ASSUME NEW status \in {400, 404, 406, 500, 502}, Refuse(t, status), UNCHANGED counters
      PROVE  CountsAsLooked
  <2>1. pc'[t] = "answer" /\ response'[t].status # 200
    BY <1>0, <1>3, Refused, Statuses0
  <2>. QED
    BY <1>2, <1>3, <2>1 DEF Answered
<1>4. ASSUME NEW l \in {"look", "get", "lock", "fetch", "serve"}, Goto(t, l), UNCHANGED counters
      PROVE  CountsAsLooked
  <2>1. pc'[t] = l
    BY <1>0, <1>4 DEF Goto, Domains
  <2>. QED
    BY <1>2, <1>4, <2>1 DEF Answered
<1>5. ASSUME NEW k \in Kinds, Request(t, k) PROVE CountsAsLooked
  BY <1>3, <1>4, <1>5 DEF Request
<1>6. CASE Look(t)
  BY <1>4, <1>6 DEF Look
<1>7. CASE Get(t)
  <2>1. CASE stored /\ GetOk(t)
    BY <1>0, <1>1, <1>7, <2>1, GotCounted DEF Get, Traced
  <2>2. CASE Goto(t, "lock") /\ UNCHANGED counters
    BY <1>4, <2>2
  <2>. QED
    BY <1>7, <2>1, <2>2 DEF Get
<1>8. CASE GetInvalid(t)
  BY <1>3, <1>8 DEF GetInvalid
<1>9. CASE Recheck(t)
  <2>1. CASE stored /\ GetOk(t)
    BY <1>0, <1>1, <1>9, <2>1, GotCounted DEF Recheck, Traced
  <2>2. CASE Goto(t, "fetch") /\ UNCHANGED counters
    BY <1>4, <2>2
  <2>. QED
    BY <1>9, <2>1, <2>2 DEF Recheck
<1>10. CASE FetchOk(t)
  <2>1. pc[t] = "fetch" /\ GetOk(t) /\ t \in landed'
    BY <1>10 DEF FetchOk, Land
  <2>. QED
    BY <1>1, <2>1, GotCounted
<1>11. CASE FetchErr(t)
  BY <1>3, <1>11 DEF FetchErr
<1>12. CASE Open(t)
  BY <1>3, <1>4, <1>12 DEF Open
<1>13. CASE Serve(t)
  <2>1. pc[t] = "serve" /\ UNCHANGED counters
    BY <1>13 DEF Serve
  <2>. QED
    BY <1>2, <2>1 DEF Answered
<1>14. CASE Read(t)
  <2>0. pc[t] = "read" /\ landed' = landed
    BY <1>14 DEF Read
  <2>1. CASE \E status \in {406, 502} : Refuse(t, status) /\ UNCHANGED counters
    BY <1>3, <2>1
  <2>2. CASE /\ Goto(t, "answer") /\ Record(t)
             /\ response' = [response EXCEPT ![t] = Reply(200, 0, 0, 0 .. size - 1, size)]
    <3>1. pc'[t] = "answer" /\ response'[t].status = 200
      BY <1>0, <2>2 DEF Goto, Domains, Reply
    <3>2. Answered(t)
      BY <2>0, <3>1 DEF Answered
    <3>. QED
      BY <1>0, <1>1, <2>0, <2>2, <3>2, OneCounted DEF Traced
  <2>. QED
    BY <1>14, <2>1, <2>2 DEF Read
<1>15. CASE Respond(t) \/ Cancel(t)
  <2>1. pc'[t] = "idle" /\ UNCHANGED counters
    BY <1>0, <1>15, Ended DEF Respond, Cancel
  <2>. QED
    BY <1>2, <2>1 DEF Answered
<1>. QED
  BY <1>5, <1>6, <1>7, <1>8, <1>9, <1>10, <1>11, <1>12, <1>13, <1>14, <1>15 DEF Step

(* Every blob that get gives and every manifest that is sent is counted once   *)
(* (record_blob, record_manifest); a hit has asked the upstream only if the    *)
(* file was removed under it, and a miss has not asked only if somebody else   *)
(* put the file there.                                                         *)
THEOREM CountersFollowLooks == Spec => CountedAsLooked
<1>1. ASSUME IInv, Next PROVE CountsAsLooked
  <2>0. Domains
    BY <1>1, Parts
  <2>1. CASE Store \/ Remove
    BY <2>0, <2>1, NobodyCounted DEF Store, Remove, Answered
  <2>2. CASE \E t \in Tasks : Step(t)
    BY <1>1, <2>2, StepCounted
  <2>. QED
    BY <1>1, <2>1, <2>2 DEF Next, Step
<1>2. IInv /\ [Next]_vars => [CountsAsLooked]_vars
  BY <1>1
<1>3. IInv /\ [Next]_vars =>
        [/\ Counted' - Counted = Cardinality({t \in Tasks : Answered(t)})
         /\ \A t \in Tasks : Answered(t) =>
               IF hits' # hits THEN t \in askedUpstream => t \in removed
                               ELSE t \notin askedUpstream => t \in landed']_vars
  BY <1>2 DEF CountsAsLooked, LookOf
<1>. QED
  BY <1>3, Invariant, PTL DEF Spec, CountedAsLooked
=============================================================================
