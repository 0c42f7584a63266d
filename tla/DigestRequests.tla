---------------------------- MODULE DigestRequests ----------------------------
(* handle_v2_request for blobs, and for manifests by digest                    *)
(* (src/src/server/mod.rs): the look-up that makes a request a hit or a miss,  *)
(* BlobCache::get, the counters of CacheStats (src/src/ui/mod.rs), and the     *)
(* answer from the file: serve_file with its ranges, or the manifest if it is  *)
(* of a type the client accepts.                                               *)
(*                                                                             *)
(* Requests for one digest run side by side, while others store and remove it. *)
(* Blobs and manifests have a BlobCache each over the one directory.  Of       *)
(* BlobCache::get, the module keeps what its callers can tell apart: the look  *)
(* at the file, the lock, the second look, the fetch (BlobCache has the rest). *)
(* The headers of a request are first read when they are needed, and chosen    *)
(* then.  Files can be read and written as long as they are there.             *)
EXTENDS Integers, FiniteSets

CONSTANTS
    Tasks,
    NoTask,
    Sizes,          \* the sizes a blob may have, in bytes
    Bounds,         \* the numbers a Range header may hold
    None,           \* Option::None
    MaxRequests     \* bounds the requests counted

ASSUME SizesType == Sizes \subseteq Nat /\ Bounds \subseteq Nat /\ MaxRequests \in Nat
ASSUME MarkersFresh == None \notin Bounds /\ NoTask \notin Tasks

VARIABLES
    size,           \* the size of the blob
    stored,         \* its file is there
    fetching,       \* fetching[k]: the task that holds the lock of the entry, or NoTask
    pc,
    kind,           \* kind[t]: "blob" or "manifest"
    hit,            \* hit[t]: what the look-up found
    range,          \* range[t]: the ByteRange t asked for
    response,       \* response[t]: status, positions named and sent, length
    hits, misses,   \* hits[k], misses[k]: CacheStats
    \* history
    askedUpstream,  \* requests that went to the upstream
    landed,         \* requests during which the file came to be there
    removed,        \* requests during which the file was removed, since the look-up
    lost            \* ... and since get has returned its path

file == <<size, stored>>
counters == <<hits, misses>>
request == <<kind, hit, range, response>>
history == <<askedUpstream, landed, removed, lost>>
vars == <<file, fetching, pc, request, counters, history>>

Kinds == {"blob", "manifest"}

(* Both bounds None: no header, or one that parse_range_header does not take.  *)
ByteRange == [start : Bounds \union {None}, end : Bounds \union {None}]
NoRange == [start |-> None, end |-> None]

(* Positions from and to, the positions of the bytes in the body, and what     *)
(* Content-Length says.                                                        *)
Reply(status, start, end, body, length) ==
    [status |-> status, start |-> start, end |-> end, body |-> body, length |-> length]
Status(status) == Reply(status, 0, 0, {}, 0)
NoReply == Status(0)

Lowest(a, b) == IF a < b THEN a ELSE b

(* ByteRange::resolve: the first and the last position, or none.               *)
Unsatisfiable(r) ==
    \/ size = 0
    \/ r.start # None /\ r.start >= size
    \/ r.start # None /\ r.end # None /\ r.start > r.end
    \/ r.start = None /\ r.end = 0

Between(first, last) == {[first |-> first, last |-> last]}

resolve_unclamped(r) ==
    IF Unsatisfiable(r) THEN {}
    ELSE IF r.start = None THEN Between(size - Lowest(r.end, size), size - 1)
    ELSE Between(r.start, IF r.end = None THEN size - 1 ELSE Lowest(r.end, size))

resolve(r) ==
    IF Unsatisfiable(r) THEN {}
    ELSE IF r.start = None THEN Between(size - Lowest(r.end, size), size - 1)
    ELSE Between(r.start, IF r.end = None THEN size - 1 ELSE Lowest(r.end, size - 1))

(* serve_file, once the file is open: seek to the first, and take as many.     *)
serve_file(r) ==
    IF r = NoRange THEN Reply(200, 0, 0, 0 .. size - 1, size)
    ELSE IF resolve(r) = {} THEN Status(416)
    ELSE LET p == CHOOSE q \in resolve(r) : TRUE
             len == p.last - p.first + 1
         IN  Reply(206, p.first, p.last, {i \in 0 .. size - 1 : i - p.first \in 0 .. len - 1}, len)

Init ==
    /\ size \in Sizes
    /\ stored \in BOOLEAN
    /\ fetching = [k \in Kinds |-> NoTask]
    /\ pc = [t \in Tasks |-> "idle"]
    /\ kind = [t \in Tasks |-> "blob"]
    /\ hit = [t \in Tasks |-> FALSE]
    /\ range = [t \in Tasks |-> NoRange]
    /\ response = [t \in Tasks |-> NoReply]
    /\ hits = [k \in Kinds |-> 0] /\ misses = [k \in Kinds |-> 0]
    /\ askedUpstream = {} /\ landed = {} /\ removed = {} /\ lost = {}

Goto(t, l) == pc' = [pc EXCEPT ![t] = l]

(* The handler returns a status and nothing else.                              *)
Refuse(t, status) ==
    /\ Goto(t, "answer")
    /\ response' = [response EXCEPT ![t] = Status(status)]
    /\ UNCHANGED <<kind, hit, range>>

RecordLate(t) ==
    /\ hits' = [hits EXCEPT ![kind[t]] = @ + 1]
    /\ UNCHANGED misses

(* record_blob and record_manifest: as the request has looked.                 *)
Record(t) ==
    /\ hits' = IF hit[t] THEN [hits EXCEPT ![kind[t]] = @ + 1] ELSE hits
    /\ misses' = IF hit[t] THEN misses ELSE [misses EXCEPT ![kind[t]] = @ + 1]

(* get returns the path.  A blob is counted, a manifest is read first.         *)
GetOk(t) ==
    /\ IF kind[t] = "blob"
       THEN Goto(t, "open") /\ Record(t)
       ELSE Goto(t, "read") /\ UNCHANGED counters
    /\ UNCHANGED request

-----------------------------------------------------------------------------
Busy == {t \in Tasks : pc[t] # "idle"}

Counted == hits["blob"] + misses["blob"] + hits["manifest"] + misses["manifest"]

(* The router gives an upstream that is configured, or the request ends: no    *)
(* such repository or path, unknown upstream, upstreams out of reach.          *)
Request(t, k) ==
    /\ pc[t] = "idle"
    /\ Counted + Cardinality(Busy) < MaxRequests
    /\ \/ /\ Goto(t, "look")
          /\ kind' = [kind EXCEPT ![t] = k]
          /\ UNCHANGED <<hit, range, response>>
       \/ \E status \in {404, 400, 502} : Refuse(t, status)
    /\ UNCHANGED <<file, fetching, counters, history>>

Look(t) ==
    /\ pc[t] = "look"
    /\ hit' = [hit EXCEPT ![t] = stored]
    /\ Goto(t, "get")
    /\ UNCHANGED <<file, fetching, kind, range, response, counters, history>>

GetTrustingLook(t) ==
    /\ pc[t] = "get"
    /\ IF hit[t] THEN GetOk(t) ELSE Goto(t, "lock") /\ UNCHANGED <<counters, request>>
    /\ UNCHANGED <<file, fetching, history>>

(* BlobCache::get: the file is there, or its turn must come.                   *)
Get(t) ==
    /\ pc[t] = "get"
    /\ IF stored THEN GetOk(t) ELSE Goto(t, "lock") /\ UNCHANGED <<counters, request>>
    /\ UNCHANGED <<file, fetching, history>>

(* A reference that is no digest is an error of get.                           *)
GetInvalid(t) ==
    /\ pc[t] = "get" /\ ~hit[t]
    /\ Refuse(t, 502)
    /\ UNCHANGED <<file, fetching, counters, history>>

(* The lock is there to be taken: a second look, then the upstream.            *)
Recheck(t) ==
    /\ pc[t] = "lock"
    /\ fetching[kind[t]] = NoTask
    /\ IF stored
       THEN GetOk(t) /\ UNCHANGED <<fetching, askedUpstream>>
       ELSE /\ Goto(t, "fetch")
            /\ fetching' = [fetching EXCEPT ![kind[t]] = t]
            /\ askedUpstream' = askedUpstream \union {t}
            /\ UNCHANGED <<counters, request>>
    /\ UNCHANGED <<file, landed, removed, lost>>

(* The file comes to be there.                                                 *)
Awaiting == {"look", "get", "lock", "fetch"}
Land ==
    /\ stored' = TRUE
    /\ landed' = landed \union {t \in Tasks : pc[t] \in Awaiting}
    /\ UNCHANGED <<size, askedUpstream, removed, lost>>

FetchOk(t) ==
    /\ pc[t] = "fetch"
    /\ fetching' = [fetching EXCEPT ![kind[t]] = NoTask]
    /\ Land
    /\ GetOk(t)

FetchErrKeepsLock(t) ==
    /\ pc[t] = "fetch"
    /\ \E status \in {404, 502} : Refuse(t, status)
    /\ UNCHANGED <<file, fetching, counters, history>>

(* upstream_error_status: the upstream has no such blob, or something failed.  *)
FetchErr(t) ==
    /\ pc[t] = "fetch"
    /\ fetching' = [fetching EXCEPT ![kind[t]] = NoTask]
    /\ \E status \in {404, 502} : Refuse(t, status)
    /\ UNCHANGED <<file, counters, history>>

(* serve_file: File::open ...                                                  *)
Open(t) ==
    /\ pc[t] = "open"
    /\ IF stored THEN Goto(t, "serve") /\ UNCHANGED request ELSE Refuse(t, 500)
    /\ UNCHANGED <<file, fetching, counters, history>>

(* ... and the rest, which has the open file and needs no name for it.         *)
Serve(t) ==
    /\ pc[t] = "serve"
    /\ \E r \in ByteRange :
          /\ range' = [range EXCEPT ![t] = r]
          /\ response' = [response EXCEPT ![t] = serve_file(r)]
    /\ Goto(t, "answer")
    /\ UNCHANGED <<file, fetching, kind, hit, counters, history>>

(* get_filtered by digest: the file is read, a manifest of a type the client   *)
(* does not accept is refused and not counted.                                 *)
Read(t) ==
    /\ pc[t] = "read"
    /\ \/ ~stored /\ Refuse(t, 502) /\ UNCHANGED counters
       \/ stored /\ Refuse(t, 406) /\ UNCHANGED counters
       \/ /\ stored
          /\ Goto(t, "answer")
          /\ response' = [response EXCEPT ![t] = Reply(200, 0, 0, 0 .. size - 1, size)]
          /\ Record(t)
          /\ UNCHANGED <<kind, hit, range>>
    /\ UNCHANGED <<file, fetching, history>>

(* The request is over: answered, or dropped with its client.                  *)
End(t) ==
    /\ Goto(t, "idle")
    /\ kind' = [kind EXCEPT ![t] = "blob"]
    /\ hit' = [hit EXCEPT ![t] = FALSE]
    /\ range' = [range EXCEPT ![t] = NoRange]
    /\ response' = [response EXCEPT ![t] = NoReply]
    /\ askedUpstream' = askedUpstream \ {t}
    /\ landed' = landed \ {t}
    /\ removed' = removed \ {t}
    /\ lost' = lost \ {t}

Respond(t) ==
    /\ pc[t] = "answer"
    /\ End(t)
    /\ UNCHANGED <<file, fetching, counters>>

Cancel(t) ==
    /\ pc[t] \in Awaiting \union {"open", "serve", "read"}
    /\ fetching' = [k \in Kinds |-> IF fetching[k] = t THEN NoTask ELSE fetching[k]]
    /\ End(t)
    /\ UNCHANGED <<file, counters>>

(* The file comes and goes by others: a pull by tag that stores the manifest,  *)
(* eviction, a collection.                                                     *)
Store ==
    /\ ~stored
    /\ Land
    /\ UNCHANGED <<fetching, pc, request, counters>>

Remove ==
    /\ stored
    /\ stored' = FALSE
    /\ removed' = removed \union {t \in Tasks : pc[t] \in Awaiting \ {"look"}}
    /\ lost' = lost \union {t \in Tasks : pc[t] \in {"open", "read"}}
    /\ UNCHANGED <<size, fetching, pc, request, counters, askedUpstream, landed>>

Next ==
    \/ \E t \in Tasks :
          \/ \E k \in Kinds : Request(t, k)
          \/ Look(t) \/ Get(t) \/ GetInvalid(t) \/ Recheck(t) \/ FetchOk(t)
          \/ FetchErr(t) \/ Open(t) \/ Serve(t) \/ Read(t) \/ Respond(t)
          \/ Cancel(t)
    \/ Store
    \/ Remove

Spec == Init /\ [][Next]_vars

-----------------------------------------------------------------------------
Statuses == {0, 200, 206, 400, 404, 406, 416, 500, 502}
Replies ==
    [status : Statuses, start : Nat, end : Nat, body : SUBSET Nat, length : Nat]
PCs == Awaiting \union {"idle", "open", "serve", "read", "answer"}

TypeOK ==
    /\ size \in Sizes /\ stored \in BOOLEAN
    /\ pc \in [Tasks -> PCs]
    /\ kind \in [Tasks -> Kinds]
    /\ fetching \in [Kinds -> Tasks \union {NoTask}]
    /\ \A k \in Kinds, t \in Tasks : fetching[k] = t <=> pc[t] = "fetch" /\ kind[t] = k
    /\ hit \in [Tasks -> BOOLEAN]
    /\ range \in [Tasks -> ByteRange]
    /\ response \in [Tasks -> Replies]
    /\ hits \in [Kinds -> Nat] /\ misses \in [Kinds -> Nat]
    /\ landed \union askedUpstream \union removed \union lost \subseteq Busy

(* What a Range header asks for, position by position.                         *)
Wanted(r) ==
    {i \in 0 .. size - 1 :
        IF r.start = None THEN i >= size - r.end
        ELSE i >= r.start /\ (r.end # None => i <= r.end)}

(* The answer to a request with range r.                                       *)
Serves(answer, r) ==
    CASE answer.status = 200 ->
            r = NoRange /\ answer.body = 0 .. size - 1 /\ answer.length = size
      [] answer.status = 206 ->
            /\ r # NoRange
            /\ answer.body = Wanted(r) /\ answer.body # {}
            /\ answer.body = answer.start .. answer.end
            /\ answer.length = Cardinality(answer.body)
      [] answer.status = 416 -> r # NoRange /\ Wanted(r) = {}
      [] OTHER -> answer.body = {}

(* REQ-0035: a range is answered by exactly the bytes it asks for, named and   *)
(* counted so; 416 says that there are none; without a range, or with one that *)
(* cannot be read, all of the blob is sent.                                    *)
RangesServed == \A t \in Tasks : Serves(response[t], range[t])

(* A path that get returns can be read, unless the file is removed in the      *)
(* moment between: nothing else makes a request fail that get has served.      *)
Broken(t) == pc[t] \in {"open", "read"} /\ pc'[t] = "answer" /\ response'[t].status \in {500, 502}

BrokenOnlyIfRemoved == [][\A t \in Tasks : Broken(t) => t \in lost]_vars

(* REQ-0042, as far as the code goes: every blob that get gives and every      *)
(* manifest that is sent is counted, once, and by what the look-up found.      *)
(* This is less than record_blob (ui/mod.rs:58) and hit (manifest.rs:61) say,  *)
(* where a hit was answered without asking the upstream and a miss had to ask: *)
(* a hit has asked if the file was removed after the look-up, and a miss has   *)
(* not if another request or a pull by tag stored it first.  Nothing else      *)
(* makes the counters differ from what was asked of the upstream.              *)
Answered(t) ==
    \/ pc[t] \in Awaiting /\ pc'[t] = "open"
    \/ pc[t] = "read" /\ pc'[t] = "answer" /\ response'[t].status = 200

CountedAsLooked ==
    [][/\ Counted' - Counted = Cardinality({t \in Tasks : Answered(t)})
       /\ \A t \in Tasks : Answered(t) =>
             IF hits' # hits THEN t \in askedUpstream => t \in removed
                             ELSE t \notin askedUpstream => t \in landed']_vars
=============================================================================
