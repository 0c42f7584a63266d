------------------------------ MODULE BlobCache ------------------------------
(* BlobCache (src/src/cache/blob.rs): `get` and `store` of blobs keyed by      *)
(* digest, several BlobCache instances over one root directory.  The two       *)
(* operations differ only in who produces the bytes (the upstream stream of    *)
(* fetch_into, or a buffer the caller already holds), so one life cycle        *)
(* stands for both and FetchOk / FetchErr is where the bytes are written.      *)
(*                                                                             *)
(* An async call is a task: it may be dropped at each of its awaits            *)
(* (Cancel), which runs the destructors of the guard and of the reservation.   *)
(* tokio::fs hands each file operation to a blocking thread that runs to its   *)
(* end even when the task that awaits it is gone: the rename of a dropped      *)
(* task may still land later (LandOrphan).                                     *)
EXTENDS Integers, Sequences, FiniteSets

CONSTANTS
    Callers,    \* task slots: each serves one call at a time
    Instances,  \* the BlobCache values that share the root directory
    Digests,
    Entries,    \* addresses of InFlightEntry allocations
    NoEntry

ASSUME CallersFinite == IsFiniteSet(Callers)
ASSUME NoEntryFresh == NoEntry \notin Entries

Keys == Instances \X Digests

VARIABLES
    pc,         \* pc[c]: the await or the synchronous section c is at
    key,        \* key[c]: the instance called and the digest asked for
    ent,        \* ent[c]: the entry c's InFlightReservation holds
    res,        \* res[c]: the result of c's current or last call
    tmp,        \* tmp[c]: the temporary file of c's call
    in_flight,  \* in_flight[k]: the map of each instance
    waiters,    \* waiters[e]
    queue,      \* queue[e]: entry lock; its head owns it, the rest wait in order
    file,       \* file[d]: what readers see at blobs/<algorithm>/<hex>
    durable,    \* durable[d]: what a power loss would leave there
    storedBy    \* history: instances whose live call put file[d] in place

lockVars == <<in_flight, waiters, queue>>
diskVars == <<file, durable, storedBy>>
vars == <<pc, key, ent, res, tmp, lockVars, diskVars>>

Section  == {"create", "fetch", "cleanup", "sync", "rename", "dirsync"}
Queued   == Section \union {"recheck", "unlock"}
Reserved == Queued \union {"lock", "release"}
Awaits   == Section \union {"check", "recheck"}
PCs      == Reserved \union {"idle", "check", "reserve"}
Results  == {"none", "ok", "err", "dropped"}
TmpData  == {"none", "partial", "flushed", "synced"}
FileData == {"absent", "torn", "volatile", "complete"}

Inst(c) == key[c][1]
Dig(c)  == key[c][2]
Holds(c) == queue[ent[c]] # <<>> /\ Head(queue[ent[c]]) = c
Exists(d) == file[d] # "absent"
Orphaned(c) == pc[c] \in {"unlock", "release", "idle"} /\ tmp[c] # "none"

Init ==
    /\ pc = [c \in Callers |-> "idle"]
    /\ key \in [Callers -> Keys]
    /\ ent = [c \in Callers |-> NoEntry]
    /\ res = [c \in Callers |-> "none"]
    /\ tmp = [c \in Callers |-> "none"]
    /\ in_flight = [k \in Keys |-> NoEntry]
    /\ waiters = [e \in Entries |-> 0]
    /\ queue = [e \in Entries |-> <<>>]
    /\ file = [d \in Digests |-> "absent"]
    /\ durable = file
    /\ storedBy = [d \in Digests |-> {}]

Goto(c, l) == pc' = [pc EXCEPT ![c] = l]

(* Leave the section, or the call, with result r.                              *)
Finish(c, l, r) == Goto(c, l) /\ res' = [res EXCEPT ![c] = r]

-----------------------------------------------------------------------------
(* A slot whose last call left a rename behind is not reused before it lands.  *)
Request(c, k) ==
    /\ pc[c] = "idle" /\ tmp[c] = "none"
    /\ key' = [key EXCEPT ![c] = k]
    /\ Finish(c, "check", "none")
    /\ UNCHANGED <<ent, tmp, lockVars, diskVars>>

(* The first try_exists, taken without the lock.                               *)
Check(c) ==
    /\ pc[c] = "check"
    /\ \/ Exists(Dig(c)) /\ Finish(c, "idle", "ok")
       \/ ~Exists(Dig(c)) /\ Finish(c, "reserve", "none")
       \/ Finish(c, "idle", "err")
    /\ UNCHANGED <<key, ent, tmp, lockVars, diskVars>>

(* acquire_in_flight, one critical section of the map's std mutex.             *)
Reserve(c) ==
    /\ pc[c] = "reserve"
    /\ \E e \in Entries :
          /\ \/ e = in_flight[key[c]]
             \/ /\ in_flight[key[c]] = NoEntry
                /\ \A b \in Callers : ent[b] # e
                /\ \A k \in Keys : in_flight[k] # e
          /\ in_flight' = [in_flight EXCEPT ![key[c]] = e]
          /\ ent' = [ent EXCEPT ![c] = e]
          /\ waiters' = [waiters EXCEPT ![e] = @ + 1]
    /\ Goto(c, "lock")
    /\ UNCHANGED <<key, res, tmp, queue, diskVars>>

(* entry.lock.lock(): a tokio Mutex serves its waiters in arrival order.       *)
Enqueue(c) ==
    /\ pc[c] = "lock"
    /\ queue' = [queue EXCEPT ![ent[c]] = Append(@, c)]
    /\ Goto(c, "recheck")
    /\ UNCHANGED <<key, ent, res, tmp, in_flight, waiters, diskVars>>

RecheckNothing(c) ==
    /\ pc[c] = "recheck" /\ Holds(c)
    /\ \/ Finish(c, "create", "none")
       \/ Finish(c, "unlock", "err")
    /\ UNCHANGED <<key, ent, tmp, lockVars, diskVars>>

TrustLeader(c) ==
    /\ pc[c] = "recheck" /\ Holds(c)
    /\ IF waiters[ent[c]] = 1 THEN Finish(c, "create", "none") ELSE Finish(c, "unlock", "ok")
    /\ UNCHANGED <<key, ent, tmp, lockVars, diskVars>>

(* The second try_exists, under the entry lock.                                *)
Recheck(c) ==
    /\ pc[c] = "recheck" /\ Holds(c)
    /\ \/ Exists(Dig(c)) /\ Finish(c, "unlock", "ok")
       \/ ~Exists(Dig(c)) /\ Finish(c, "create", "none")
       \/ Finish(c, "unlock", "err")
    /\ UNCHANGED <<key, ent, tmp, lockVars, diskVars>>

(* create_dir_all and create_unique_tmp_file; create_new makes the name ours.  *)
CreateTmp(c) ==
    /\ pc[c] = "create"
    /\ \/ Goto(c, "fetch") /\ tmp' = [tmp EXCEPT ![c] = "partial"] /\ UNCHANGED res
       \/ Finish(c, "unlock", "err") /\ UNCHANGED tmp
    /\ UNCHANGED <<key, ent, lockVars, diskVars>>

(* fetch_into, or write_all_and_flush: all bytes written and flushed.          *)
FetchOk(c) ==
    /\ pc[c] = "fetch"
    /\ Goto(c, "sync")
    /\ tmp' = [tmp EXCEPT ![c] = "flushed"]
    /\ UNCHANGED <<key, ent, res, lockVars, diskVars>>

FetchErr(c) ==
    /\ pc[c] = "fetch"
    /\ Goto(c, "cleanup")
    /\ UNCHANGED <<key, ent, res, tmp, lockVars, diskVars>>

LeaveLocked(c) ==
    /\ pc[c] = "cleanup"
    /\ Finish(c, "idle", "err")
    /\ ent' = [ent EXCEPT ![c] = NoEntry]
    /\ tmp' = [tmp EXCEPT ![c] = "none"]
    /\ UNCHANGED <<key, lockVars, diskVars>>

(* remove_file of the temporary file, its own result ignored.                  *)
Cleanup(c) ==
    /\ pc[c] = "cleanup"
    /\ Finish(c, "unlock", "err")
    /\ tmp' = [tmp EXCEPT ![c] = "none"]
    /\ UNCHANGED <<key, ent, lockVars, diskVars>>

NoSync(c) ==
    /\ pc[c] = "sync"
    /\ Goto(c, "rename")
    /\ UNCHANGED <<key, ent, res, tmp, lockVars, diskVars>>

(* sync_all of the temporary file.  When it fails the file stays behind, and   *)
(* nothing of this component ever looks at it again.                           *)
Sync(c) ==
    /\ pc[c] = "sync"
    /\ \/ Goto(c, "rename") /\ tmp' = [tmp EXCEPT ![c] = "synced"] /\ UNCHANGED res
       \/ Finish(c, "unlock", "err") /\ tmp' = [tmp EXCEPT ![c] = "none"]
    /\ UNCHANGED <<key, ent, lockVars, diskVars>>

(* The rename: what the temporary file holds is now at the final path.         *)
Place(c) ==
    /\ file' = [file EXCEPT ![Dig(c)] = CASE tmp[c] = "synced" -> "complete"
                                          [] tmp[c] = "flushed" -> "volatile"
                                          [] OTHER -> "torn"]
    /\ tmp' = [tmp EXCEPT ![c] = "none"]

Rename(c) ==
    /\ pc[c] = "rename"
    /\ \/ /\ Place(c)
          /\ Goto(c, "dirsync")
          /\ storedBy' = [storedBy EXCEPT ![Dig(c)] = @ \union {Inst(c)}]
          /\ UNCHANGED res
       \/ /\ Finish(c, "unlock", "err")
          /\ tmp' = [tmp EXCEPT ![c] = "none"]
          /\ UNCHANGED <<file, storedBy>>
    /\ UNCHANGED <<key, ent, lockVars, durable>>

(* The rename of a call dropped while it awaited it: it lands, or fails.       *)
LandOrphan(c) ==
    /\ Orphaned(c)
    /\ \/ Place(c)
       \/ tmp' = [tmp EXCEPT ![c] = "none"] /\ UNCHANGED file
    /\ UNCHANGED <<pc, key, ent, res, lockVars, durable, storedBy>>

(* Open and sync the parent directory: its entries, all of them, are durable.  *)
DirSync(c) ==
    /\ pc[c] = "dirsync"
    /\ \/ Finish(c, "unlock", "ok") /\ durable' = file
       \/ Finish(c, "unlock", "err") /\ UNCHANGED durable
    /\ UNCHANGED <<key, ent, tmp, lockVars, file, storedBy>>

Without(q, c) ==
    LET i == CHOOSE i \in 1..Len(q) : q[i] = c
    IN  [j \in 1..(Len(q) - 1) |-> IF j < i THEN q[j] ELSE q[j + 1]]

(* drop(guard), or the guard's or the pending lock future's destructor.        *)
Unlock(c) ==
    /\ pc[c] = "unlock"
    /\ queue' = [queue EXCEPT ![ent[c]] = Without(@, c)]
    /\ Goto(c, "release")
    /\ UNCHANGED <<key, ent, res, tmp, in_flight, waiters, diskVars>>

RemoveAlways(c) ==
    /\ pc[c] = "release"
    /\ waiters' = [waiters EXCEPT ![ent[c]] = @ - 1]
    /\ in_flight' = [in_flight EXCEPT ![key[c]] = NoEntry]
    /\ ent' = [ent EXCEPT ![c] = NoEntry]
    /\ Goto(c, "idle")
    /\ UNCHANGED <<key, res, tmp, queue, diskVars>>

(* release_in_flight, one critical section of the map's std mutex: the last    *)
(* waiter removes the entry, provided the map still holds that very entry.     *)
Release(c) ==
    /\ pc[c] = "release"
    /\ waiters' = [waiters EXCEPT ![ent[c]] = @ - 1]
    /\ in_flight' = IF waiters[ent[c]] = 1 /\ in_flight[key[c]] = ent[c]
                      THEN [in_flight EXCEPT ![key[c]] = NoEntry]
                      ELSE in_flight
    /\ ent' = [ent EXCEPT ![c] = NoEntry]
    /\ Goto(c, "idle")
    /\ UNCHANGED <<key, res, tmp, queue, diskVars>>

ReleaseTwice(c) ==
    /\ pc[c] \in Awaits
    /\ Finish(c, IF pc[c] = "check" THEN "idle" ELSE "unlock", "dropped")
    /\ tmp' = [tmp EXCEPT ![c] = "none"]
    /\ waiters' = IF pc[c] = "check" THEN waiters ELSE [waiters EXCEPT ![ent[c]] = @ - 1]
    /\ UNCHANGED <<key, ent, in_flight, queue, diskVars>>

(* The task is dropped at an await: the client went away, or a sibling failed. *)
(* A rename in progress is left to the blocking thread.                        *)
Cancel(c) ==
    /\ pc[c] \in Awaits
    /\ Finish(c, IF pc[c] = "check" THEN "idle" ELSE "unlock", "dropped")
    /\ tmp' = IF pc[c] = "rename" THEN tmp ELSE [tmp EXCEPT ![c] = "none"]
    /\ UNCHANGED <<key, ent, lockVars, diskVars>>

-----------------------------------------------------------------------------
(* Layout::remove_blob of an eviction or of the garbage collector: the file    *)
(* goes away under the callers, without a directory sync.                      *)
Remove(d) ==
    /\ Exists(d)
    /\ file' = [file EXCEPT ![d] = "absent"]
    /\ storedBy' = [storedBy EXCEPT ![d] = {}]
    /\ UNCHANGED <<pc, key, ent, res, tmp, lockVars, durable>>

(* What a power loss may leave of the data last visible as x.                  *)
Survives(x) == IF x = "volatile" THEN {"complete", "torn"} ELSE {x}

(* The process dies, or the machine does: each directory entry is the visible  *)
(* or the durable one.  The tasks, the map and the locks are gone.             *)
Crash ==
    /\ file' \in [Digests -> FileData]
    /\ \A d \in Digests : file'[d] \in Survives(file[d]) \union Survives(durable[d])
    /\ durable' = file'
    /\ storedBy' = [d \in Digests |-> {}]
    /\ pc' = [c \in Callers |-> "idle"]
    /\ ent' = [c \in Callers |-> NoEntry]
    /\ res' = [c \in Callers |-> "none"]
    /\ tmp' = [c \in Callers |-> "none"]
    /\ in_flight' = [k \in Keys |-> NoEntry]
    /\ waiters' = [e \in Entries |-> 0]
    /\ queue' = [e \in Entries |-> <<>>]
    /\ UNCHANGED key

-----------------------------------------------------------------------------
(* What the runtime owes a task: its next step, once it can be taken.          *)
Advance(c) ==
    \/ Check(c) \/ Reserve(c) \/ Enqueue(c) \/ Recheck(c) \/ CreateTmp(c)
    \/ FetchOk(c) \/ FetchErr(c) \/ Cleanup(c) \/ Sync(c) \/ Rename(c)
    \/ DirSync(c) \/ Unlock(c) \/ Release(c)

Next ==
    \/ \E c \in Callers :
          \/ \E k \in Keys : Request(c, k)
          \/ Advance(c)
          \/ LandOrphan(c)
          \/ Cancel(c)
    \/ \E d \in Digests : Remove(d)
    \/ Crash

Spec == Init /\ [][Next]_vars

(* The runtime polls every woken task and runs every blocking operation; the   *)
(* upstream ends every transfer, with success or an error (the code sets no    *)
(* time limit of its own on a transfer).                                       *)
Fairness == \A c \in Callers : WF_vars(Advance(c)) /\ WF_vars(LandOrphan(c))

FairSpec == Spec /\ Fairness
-----------------------------------------------------------------------------
(* Every variable stays in its domain; in particular no reservation is given   *)
(* back twice (waiters would leave Nat), although a dropped task releases      *)
(* through a destructor and a finished one at the end of `get`.                *)
TypeOK ==
    /\ pc \in [Callers -> PCs]
    /\ key \in [Callers -> Keys]
    /\ ent \in [Callers -> Entries \union {NoEntry}]
    /\ res \in [Callers -> Results]
    /\ tmp \in [Callers -> TmpData]
    /\ in_flight \in [Keys -> Entries \union {NoEntry}]
    /\ waiters \in [Entries -> Nat]
    /\ queue \in [Entries -> Seq(Callers)]
    /\ file \in [Digests -> FileData]
    /\ durable \in [Digests -> FileData]
    /\ storedBy \in [Digests -> SUBSET Instances]

Holders(e) == {c \in Callers : ent[c] = e}

(* The in-flight map holds exactly the entries somebody has reserved, under    *)
(* the key they were reserved for, and `waiters` counts them: dropped and      *)
(* failed calls leave nothing behind, and no call holds an entry that the map  *)
(* has replaced, so the Arc::ptr_eq test of release_in_flight never fails.     *)
EntriesMatchReservations ==
    /\ \A e \in Entries : waiters[e] = Cardinality(Holders(e))
    /\ \A c \in Callers :
          /\ pc[c] \in Reserved <=> ent[c] # NoEntry
          /\ ent[c] # NoEntry => in_flight[key[c]] = ent[c]
    /\ \A k \in Keys : in_flight[k] # NoEntry =>
          \E c \in Callers : ent[c] = in_flight[k] /\ key[c] = k

(* Of the concurrent calls for one digest of one instance at most one is past  *)
(* the second existence check, fetching or storing (REQ-0010: the others wait).*)
OneFetchPerKey ==
    \A c1, c2 \in Callers :
        pc[c1] \in Section /\ pc[c2] \in Section /\ key[c1] = key[c2] => c1 = c2

(* A blob is visible at its final path, now and after any power loss, entirely *)
(* or not at all: fsync before rename, and no write to the final path.         *)
FilesComplete ==
    \A d \in Digests : {file[d], durable[d]} \subseteq {"absent", "complete"}

(* An instance whose live call stored a blob does not store it again while it  *)
(* stays there: every waiter finds it at the second existence check.  (The     *)
(* renames of dropped calls are not live, and other instances do not wait.)    *)
StoredOnce ==
    [][\A c \in Callers :
          pc[c] = "rename" /\ pc'[c] = "dirsync" => Inst(c) \notin storedBy[Dig(c)]]_vars

(* Every call comes to an end, whatever fails and whoever is dropped: a failed *)
(* or dropped leader hands the entry lock to the next waiter.                  *)
CallsEnd == \A c \in Callers : pc[c] = "check" ~> pc[c] = "idle"

(* What callers are promised, independent of all of the above.                 *)
Asked     == [c \in Callers |-> Dig(c)]
Waiting   == {c \in Callers : pc[c] # "idle"}
Witnessed == {c \in Callers : pc[c] = "dirsync" \/ res[c] = "ok"}
Outcome   == [c \in Callers |-> IF res[c] = "dropped" THEN "err" ELSE res[c]]

Promise == INSTANCE BlobStore WITH
    store <- file, asked <- Asked, waiting <- Waiting,
    witnessed <- Witnessed, outcome <- Outcome

(* A call answers "ok" only if its blob was there, entirely, since it started; *)
(* blobs come and go whole, in calls, evictions and crashes (BlobStore).       *)
KeepsPromise == Promise!Spec
=============================================================================
