------------------------------- MODULE Eviction -------------------------------
(* Layout::get_blob and store_blob (src/src/storage/mod.rs) over AccessIndex   *)
(* (src/src/storage/access_index.rs): each call has the blob stored, records   *)
(* its size and its place in the order of use, and evicts from the least       *)
(* recently used end until the recorded total fits.                            *)
(*                                                                             *)
(* The steps of concurrent calls interleave: only the single transactions of   *)
(* the index are atomic, and `touch` draws its sequence number before its      *)
(* transaction begins.  The request handlers of the server do not go through   *)
(* Layout: they put files in the same directory through BlobCache (Serve).     *)
EXTENDS Integers, FiniteSets, FiniteSetsExt

CONSTANTS
    Tasks,
    Digests,
    NoDigest,
    Size,           \* Size[d]: bytes of the blob
    Capacity,       \* capacity_bytes
    MaxSeq          \* bound: touches explored between two restarts

ASSUME DigestsType == Digests # {} /\ NoDigest \notin Digests
ASSUME SizesPositive == Size \in [Digests -> Nat \ {0}] /\ Capacity \in Nat
ASSUME MaxSeqType == MaxSeq \in Nat

VARIABLES
    files,      \* the blobs stored
    record,     \* record[d]: sequence number of the last use, 0 if not recorded
    next_seq,
    pc,
    protect,    \* protect[t]: the digest t was called for; none for a collection
    seq,        \* seq[t]: the number t has drawn
    victim,     \* victim[t]: the blob t is removing
    disordered, \* history: a touch was committed after a later-numbered one
    cut         \* history: an eviction was dropped, failed, or lost in a crash

index == <<record, next_seq>>
locals == <<protect, seq, victim>>
vars == <<files, index, pc, locals, disordered, cut>>

Recorded == {d \in Digests : record[d] # 0}
TotalSize == MapThenSumSet(LAMBDA d : Size[d], Recorded)

LeastRecentlyUsed == {d \in Recorded : \A e \in Recorded : record[d] <= record[e]}

Init ==
    /\ files = {}
    /\ record = [d \in Digests |-> 0]
    /\ next_seq = 1
    /\ pc = [t \in Tasks |-> "idle"]
    /\ protect = [t \in Tasks |-> NoDigest]
    /\ seq = [t \in Tasks |-> 0]
    /\ victim = [t \in Tasks |-> NoDigest]
    /\ disordered = FALSE /\ cut = FALSE

Goto(t, l) == pc' = [pc EXCEPT ![t] = l]

(* The call is over and its locals are out of scope.                           *)
Return(t) ==
    /\ Goto(t, "idle")
    /\ protect' = [protect EXCEPT ![t] = NoDigest]
    /\ seq' = [seq EXCEPT ![t] = 0]
    /\ victim' = [victim EXCEPT ![t] = NoDigest]

-----------------------------------------------------------------------------
(* get_blob or store_blob: BlobCache has the blob, found or fetched.           *)
Get(t, d) ==
    /\ pc[t] = "idle" /\ next_seq <= MaxSeq
    /\ files' = files \union {d}
    /\ Goto(t, "stat")
    /\ protect' = [protect EXCEPT ![t] = d]
    /\ UNCHANGED <<index, seq, victim, disordered, cut>>

(* A request handler, or the manifest cache: BlobCache alone.                  *)
Serve(d) ==
    /\ files' = files \union {d}
    /\ UNCHANGED <<index, pc, locals, disordered, cut>>

(* metadata: an error when the file is gone again.                             *)
Stat(t) ==
    /\ pc[t] = "stat"
    /\ IF protect[t] \in files
       THEN Goto(t, "draw") /\ UNCHANGED locals
       ELSE Return(t)
    /\ UNCHANGED <<files, index, disordered, cut>>

(* touch: fetch_add ...                                                        *)
Draw(t) ==
    /\ pc[t] = "draw"
    /\ seq' = [seq EXCEPT ![t] = next_seq]
    /\ next_seq' = next_seq + 1
    /\ Goto(t, "touch")
    /\ UNCHANGED <<files, record, protect, victim, disordered, cut>>

(* ... and then the write transaction.                                         *)
Touch(t) ==
    /\ pc[t] = "touch"
    /\ record' = [record EXCEPT ![protect[t]] = seq[t]]
    /\ disordered' = (disordered \/ \E d \in Digests : record[d] > seq[t])
    /\ Goto(t, "total")
    /\ UNCHANGED <<files, next_seq, locals, cut>>

(* evict_if_needed: total_size, one read transaction.  Within the capacity     *)
(* nothing is left over of earlier calls.                                      *)
CheckTotal(t) ==
    /\ pc[t] = "total"
    /\ IF TotalSize <= Capacity
       THEN Return(t) /\ disordered' = FALSE /\ cut' = FALSE
       ELSE Goto(t, "lru") /\ UNCHANGED <<locals, disordered, cut>>
    /\ UNCHANGED <<files, index>>

(* least_recently_used, another one: nothing recorded, or the caller's own     *)
(* blob, ends the loop; anything else is the victim.                           *)
ChooseVictim(t) ==
    /\ pc[t] = "lru"
    /\ \/ Recorded = {} /\ Return(t)
       \/ \E d \in LeastRecentlyUsed :
             IF d = protect[t]
             THEN Return(t)
             ELSE /\ victim' = [victim EXCEPT ![t] = d]
                  /\ Goto(t, "unlink")
                  /\ UNCHANGED <<protect, seq>>
    /\ UNCHANGED <<files, index, disordered, cut>>

(* remove_blob for collect_garbage, which protects nothing.                    *)
CollectBlob(t, d) ==
    /\ pc[t] = "idle" /\ d \in files
    /\ victim' = [victim EXCEPT ![t] = d]
    /\ Goto(t, "unlink")
    /\ UNCHANGED <<files, index, protect, seq, disordered, cut>>

(* remove_blob: remove_file, a missing file being no error ...                 *)
Unlink(t) ==
    /\ pc[t] = "unlink"
    /\ files' = files \ {victim[t]}
    /\ Goto(t, "forget")
    /\ UNCHANGED <<index, locals, disordered, cut>>

ForgetOnce(t) ==
    /\ pc[t] = "forget"
    /\ record' = [record EXCEPT ![victim[t]] = 0]
    /\ Return(t)
    /\ UNCHANGED <<files, next_seq, disordered, cut>>

(* ... and AccessIndex::remove.  An eviction looks at the total again.         *)
Forget(t) ==
    /\ pc[t] = "forget"
    /\ record' = [record EXCEPT ![victim[t]] = 0]
    /\ IF protect[t] = NoDigest
       THEN Return(t)
       ELSE /\ Goto(t, "total")
            /\ victim' = [victim EXCEPT ![t] = NoDigest]
            /\ UNCHANGED <<protect, seq>>
    /\ UNCHANGED <<files, next_seq, disordered, cut>>

(* metadata or remove_file fails, and with it the call.                        *)
IoError(t) ==
    /\ pc[t] \in {"stat", "unlink"}
    /\ Return(t)
    /\ cut' = TRUE
    /\ UNCHANGED <<files, index, disordered>>

(* The call is dropped at an await.  The blocking pool still removes the file. *)
Cancel(t) ==
    /\ \/ pc[t] = "stat" /\ Return(t)
       \/ pc[t] = "unlink" /\ Goto(t, "late") /\ UNCHANGED locals
    /\ cut' = TRUE
    /\ UNCHANGED <<files, index, disordered>>

LateUnlink(t) ==
    /\ pc[t] = "late"
    /\ files' = files \ {victim[t]}
    /\ Return(t)
    /\ UNCHANGED <<index, disordered, cut>>

RestartAtLast ==
    /\ pc' = [t \in Tasks |-> "idle"]
    /\ next_seq' = Max({record[d] : d \in Digests})
    /\ protect' = [t \in Tasks |-> NoDigest]
    /\ seq' = [t \in Tasks |-> 0]
    /\ victim' = [t \in Tasks |-> NoDigest]
    /\ cut' = TRUE
    /\ UNCHANGED <<files, record, disordered>>

(* The process ends, and AccessIndex::open finds the last number in use.       *)
Restart ==
    /\ pc' = [t \in Tasks |-> "idle"]
    /\ next_seq' = Max({record[d] : d \in Digests}) + 1
    /\ protect' = [t \in Tasks |-> NoDigest]
    /\ seq' = [t \in Tasks |-> 0]
    /\ victim' = [t \in Tasks |-> NoDigest]
    /\ cut' = TRUE
    /\ UNCHANGED <<files, record, disordered>>

Advance(t) ==
    \/ Stat(t) \/ Draw(t) \/ Touch(t) \/ CheckTotal(t) \/ ChooseVictim(t)
    \/ Unlink(t) \/ Forget(t) \/ IoError(t) \/ LateUnlink(t)

Next ==
    \/ \E t \in Tasks :
          \/ \E d \in Digests : Get(t, d) \/ CollectBlob(t, d)
          \/ Advance(t) \/ Cancel(t)
    \/ \E d \in Digests : Serve(d)
    \/ Restart

Spec == Init /\ [][Next]_vars

-----------------------------------------------------------------------------
PCs == {"idle", "stat", "draw", "touch", "total", "lru", "unlink", "forget", "late"}

TypeOK ==
    /\ files \subseteq Digests
    /\ record \in [Digests -> 0..(next_seq - 1)]
    /\ next_seq \in Nat \ {0}
    /\ pc \in [Tasks -> PCs]
    /\ protect \in [Tasks -> Digests \union {NoDigest}]
    /\ seq \in [Tasks -> 0..(next_seq - 1)]
    /\ victim \in [Tasks -> Digests \union {NoDigest}]
    /\ disordered \in BOOLEAN /\ cut \in BOOLEAN

Quiet == \A t \in Tasks : pc[t] = "idle"

(* REQ-0023 for what the index records: once no call is working the recorded   *)
(* total fits the capacity, or a single blob is left that is alone too large,  *)
(* whichever calls ran at once.  It takes touches committed in the order of    *)
(* their numbers, and evictions that were not cut short.                       *)
RecordedFits ==
    Quiet /\ ~disordered /\ ~cut => TotalSize <= Capacity \/ Cardinality(Recorded) = 1

(* The order of use survives a restart: no two blobs share a place in it, and  *)
(* the next touch is later than all before.                                    *)
OrderOfUse ==
    /\ \A d \in Digests : record[d] < next_seq
    /\ \A d, e \in Recorded : record[d] = record[e] => d = e
=============================================================================
