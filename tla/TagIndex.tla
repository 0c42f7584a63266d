------------------------------- MODULE TagIndex -------------------------------
(* TagIndex (src/src/storage/tag_index.rs) under Layout::put_tag and           *)
(* remove_tag (src/src/storage/mod.rs): every change of an upstream's          *)
(* index.json is read, modify, write index.json.tmp, rename, while             *)
(* tag_write_lock is held.                                                     *)
(*                                                                             *)
(* put_tag runs inside a request handler, and the server drops a handler whose *)
(* client disconnects (Cancel).  That releases the lock at once, but a         *)
(* tokio::fs operation already handed to the blocking pool still runs to its   *)
(* end (the task is `detached`).  std::fs::write opens with O_TRUNC and then   *)
(* writes, so it is two steps, and it writes to the inode it opened wherever a *)
(* rename has moved that inode in the meantime (`opened`).                     *)
(*                                                                             *)
(* Before anything else, ensure_upstream_layout completes the directory of the *)
(* upstream to an OCI Image Layout, piece by piece and without an await.  The  *)
(* catalog of the Web UI does so too, and takes no lock (Listers).             *)
(*                                                                             *)
(* A killed process (Crash) loses every task and the lock and keeps the files. *)
EXTENDS Naturals, FiniteSets

CONSTANTS
    Tasks,
    References,     \* repository:tag of one upstream
    Digests,
    NoDigest,       \* the reference is not in the index; as a job, remove_tag
    Empty, Torn,    \* files that do not parse: truncated; two writes mixed
    Absent,         \* no file of that name
    Nobody,
    Cancellable,    \* the tasks whose client may disconnect
    Listers         \* calls of catalog

ASSUME NoDigestFresh == NoDigest \notin Digests
ASSUME CancellableTasks == Cancellable \subseteq Tasks

Indexes == [References -> Digests \union {NoDigest}]
EmptyIndex == [r \in References |-> NoDigest]

ASSUME MarkersFresh ==
    /\ {Empty, Torn, Absent} \cap Indexes = {}
    /\ Empty # Torn /\ Empty # Absent /\ Torn # Absent
ASSUME NobodyFresh == Nobody \notin Tasks
ASSUME ListersFresh == Listers \cap Tasks = {}

VARIABLES
    index,      \* index.json
    temporary,  \* index.json.tmp
    holder,     \* the owner of tag_write_lock
    pc,
    job,        \* job[t]: the reference and the digest to record for it
    copy,       \* copy[t]: the index t has read
    opened,     \* opened[t]: where the inode t is writing to is now
    detached,   \* tasks dropped while the blocking pool works for them
    interrupted,\* history: some task has been dropped so
    dir,        \* the directory of the upstream is there
    marker,     \* its file oci-layout: "absent", "empty" or "whole"
    link,       \* its symbolic link to the shared blobs
    stage,      \* stage[p]: how far p is in ensure_upstream_layout
    spoiled     \* history: a write of oci-layout has failed or was cut short

taskVars == <<pc, job, copy, opened, detached, interrupted>>
tagVars == <<index, temporary, holder, taskVars>>
layout == <<dir, marker, link, stage, spoiled>>
vars == <<tagVars, layout>>

Pool == {"truncate", "write", "rename"}
Locked == Pool \union {"ensure", "read", "collect"}
PCs == Locked \union {"idle", "lock"}
Places == {"index", "temporary", "unlinked"}
Stages == {"none", "dir", "marker", "create", "fill", "link", "symlink", "done", "failed"}
Processes == Tasks \union Listers

Init ==
    /\ index = EmptyIndex
    /\ temporary = Absent
    /\ holder = Nobody
    /\ pc = [t \in Tasks |-> "idle"]
    /\ job \in [Tasks -> {[reference |-> r, digest |-> NoDigest] : r \in References}]
    /\ copy = [t \in Tasks |-> EmptyIndex]
    /\ opened = [t \in Tasks |-> "unlinked"]
    /\ detached = {}
    /\ interrupted = FALSE
    /\ dir = FALSE /\ marker = "absent" /\ link = FALSE
    /\ stage = [p \in Processes |-> "none"]
    /\ spoiled = FALSE

Goto(t, l) == pc' = [pc EXCEPT ![t] = l]
Unlock(t) == Goto(t, "idle") /\ holder' = Nobody
Stage(p, l) == stage' = [stage EXCEPT ![p] = l]

(* What t's job makes of the index it has read.                                *)
Modified(t) == [copy[t] EXCEPT ![job[t].reference] = job[t].digest]

(* The blocking pool is done: the task goes on, or ends if it was dropped.     *)
PoolDone(t, next) ==
    /\ Goto(t, IF t \in detached THEN "idle" ELSE next)
    /\ detached' = detached \ {t}

-----------------------------------------------------------------------------
MakeDirOnce(p) ==
    /\ stage[p] = "dir"
    /\ dir' = TRUE
    /\ Stage(p, IF dir THEN "done" ELSE "marker")
    /\ UNCHANGED <<tagVars, marker, link, spoiled>>

(* ensure_upstream_layout: create_dir_all ...                                  *)
MakeDir(p) ==
    /\ stage[p] = "dir"
    /\ dir' = TRUE
    /\ Stage(p, "marker")
    /\ UNCHANGED <<tagVars, marker, link, spoiled>>

(* ... oci-layout, if there is no such file ...                                *)
FindMarker(p) ==
    /\ stage[p] = "marker"
    /\ Stage(p, IF marker = "absent" THEN "create" ELSE "link")
    /\ UNCHANGED <<tagVars, dir, marker, link, spoiled>>

(* ... by std::fs::write, which opens with O_TRUNC and then writes ...         *)
CreateMarker(p) ==
    /\ stage[p] = "create"
    /\ marker' = "empty"
    /\ Stage(p, "fill")
    /\ UNCHANGED <<tagVars, dir, link, spoiled>>

FillMarker(p) ==
    /\ stage[p] = "fill"
    /\ \/ marker' = "whole" /\ Stage(p, "link") /\ UNCHANGED spoiled
       \/ spoiled' = TRUE /\ Stage(p, "failed") /\ UNCHANGED marker
    /\ UNCHANGED <<tagVars, dir, link>>

(* ... and the link, if there is none.                                         *)
FindLink(p) ==
    /\ stage[p] = "link"
    /\ Stage(p, IF link THEN "done" ELSE "symlink")
    /\ UNCHANGED <<tagVars, dir, marker, link, spoiled>>

(* symlink fails when there is one by now.                                     *)
MakeLink(p) ==
    /\ stage[p] = "symlink"
    /\ link' = TRUE
    /\ Stage(p, IF link THEN "failed" ELSE "done")
    /\ UNCHANGED <<tagVars, dir, marker, spoiled>>

Ensure(p) ==
    \/ MakeDir(p) \/ FindMarker(p) \/ CreateMarker(p) \/ FillMarker(p)
    \/ FindLink(p) \/ MakeLink(p)

(* catalog, which lists the upstreams that have a directory.                   *)
Catalog(l) ==
    /\ stage[l] = "none" /\ dir
    /\ Stage(l, "dir")
    /\ UNCHANGED <<tagVars, dir, marker, link, spoiled>>

(* catalog reads index.json, or returns the error.                             *)
Listed(l) ==
    /\ stage[l] \in {"done", "failed"}
    /\ Stage(l, "none")
    /\ UNCHANGED <<tagVars, dir, marker, link, spoiled>>

-----------------------------------------------------------------------------
(* put_tag(r, d), or remove_tag(r) when d is NoDigest.                         *)
Call(t, r, d) ==
    /\ pc[t] = "idle"
    /\ job' = [job EXCEPT ![t] = [reference |-> r, digest |-> d]]
    /\ Goto(t, "lock")
    /\ UNCHANGED <<index, temporary, holder, copy, opened, detached, interrupted, layout>>

LockDropped(t) ==
    /\ pc[t] = "lock" /\ holder = Nobody
    /\ Goto(t, "ensure")
    /\ Stage(t, "dir")
    /\ UNCHANGED <<index, temporary, holder, job, copy, opened, detached, interrupted>>
    /\ UNCHANGED <<dir, marker, link, spoiled>>

Lock(t) ==
    /\ pc[t] = "lock" /\ holder = Nobody
    /\ holder' = t
    /\ Goto(t, "ensure")
    /\ Stage(t, "dir")
    /\ UNCHANGED <<index, temporary, job, copy, opened, detached, interrupted>>
    /\ UNCHANGED <<dir, marker, link, spoiled>>

(* Layout::tag_index has the index for put_tag, or an error.                   *)
Ensured(t) ==
    /\ pc[t] = "ensure"
    /\ \/ stage[t] = "done" /\ Goto(t, "read") /\ UNCHANGED holder
       \/ stage[t] = "failed" /\ Unlock(t)
    /\ Stage(t, "none")
    /\ UNCHANGED <<index, temporary, job, copy, opened, detached, interrupted>>
    /\ UNCHANGED <<dir, marker, link, spoiled>>

(* read: an index that does not parse ends the call with an error, a digest    *)
(* that does not change, or nothing to remove, ends it with nothing to do.     *)
Read(t) ==
    /\ pc[t] = "read"
    /\ IF index \in {Empty, Torn} \/ index[job[t].reference] = job[t].digest
       THEN Unlock(t) /\ UNCHANGED copy
       ELSE /\ copy' = [copy EXCEPT ![t] = index]
            /\ Goto(t, "truncate")
            /\ UNCHANGED holder
    /\ UNCHANGED <<index, temporary, job, opened, detached, interrupted, layout>>

TruncateInPlace(t) ==
    /\ pc[t] = "truncate"
    /\ index' = Empty
    /\ opened' = [opened EXCEPT ![t] = "index"]
    /\ Goto(t, "write")
    /\ UNCHANGED <<temporary, holder, job, copy, detached, interrupted, layout>>

(* write, first half: open index.json.tmp with O_TRUNC.                        *)
Truncate(t) ==
    /\ pc[t] = "truncate"
    /\ temporary' = Empty
    /\ opened' = [opened EXCEPT ![t] = "temporary"]
    /\ Goto(t, "write")
    /\ UNCHANGED <<index, holder, job, copy, detached, interrupted, layout>>

(* Write to an inode that holds `before`: over an empty file the result is our *)
(* content, over another task's content it may end in the rest of that one.    *)
Over(t, before) == IF before = Empty THEN {Modified(t)} ELSE {Modified(t), Torn}

(* write, second half: the content reaches the opened inode.                   *)
Write(t) ==
    /\ pc[t] = "write"
    /\ \/ opened[t] = "temporary" /\ temporary' \in Over(t, temporary) /\ UNCHANGED index
       \/ opened[t] = "index" /\ index' \in Over(t, index) /\ UNCHANGED temporary
       \/ opened[t] = "unlinked" /\ UNCHANGED <<index, temporary>>
    /\ opened' = [opened EXCEPT ![t] = "unlinked"]
    /\ copy' = [copy EXCEPT ![t] = EmptyIndex]
    /\ PoolDone(t, "rename")
    /\ UNCHANGED <<holder, job, interrupted, layout>>

(* The inodes other tasks have opened move with the names.                     *)
Moved(place) ==
    CASE place = "temporary" -> "index"
      [] OTHER -> "unlinked"

(* rename index.json.tmp over index.json; an error when there is no such file. *)
Rename(t) ==
    /\ pc[t] = "rename"
    /\ \/ /\ temporary # Absent
          /\ index' = temporary
          /\ temporary' = Absent
          /\ opened' = [u \in Tasks |-> Moved(opened[u])]
          /\ PoolDone(t, "collect")
          /\ UNCHANGED holder
       \/ /\ temporary = Absent
          /\ detached' = detached \ {t}
          /\ Goto(t, "idle")
          /\ holder' = IF t \in detached THEN holder ELSE Nobody
          /\ UNCHANGED <<index, temporary, opened>>
    /\ UNCHANGED <<job, copy, interrupted, layout>>

(* What put_tag does after the index is written (GarbageCollection) neither    *)
(* reads nor writes what is modelled here, but it keeps the lock.              *)
Collect(t) ==
    /\ pc[t] = "collect"
    /\ Unlock(t)
    /\ UNCHANGED <<index, temporary, job, copy, opened, detached, interrupted, layout>>

(* The handler is dropped, at an await.                                        *)
Cancel(t) ==
    /\ t \in Cancellable \ detached /\ pc[t] \notin {"idle", "ensure"}
    /\ holder' = IF holder = t THEN Nobody ELSE holder
    /\ IF pc[t] \in Pool
       THEN /\ detached' = detached \union {t}
            /\ interrupted' = TRUE
            /\ UNCHANGED pc
       ELSE Goto(t, "idle") /\ UNCHANGED <<detached, interrupted>>
    /\ UNCHANGED <<index, temporary, job, copy, opened, layout>>

Crash ==
    /\ \/ \E t \in Tasks : pc[t] # "idle"
       \/ \E p \in Processes : stage[p] # "none"
    /\ pc' = [t \in Tasks |-> "idle"]
    /\ holder' = Nobody
    /\ copy' = [t \in Tasks |-> EmptyIndex]
    /\ opened' = [t \in Tasks |-> "unlinked"]
    /\ detached' = {}
    /\ stage' = [p \in Processes |-> "none"]
    /\ spoiled' = (spoiled \/ \E p \in Processes : stage[p] = "fill")
    /\ UNCHANGED <<index, temporary, job, interrupted, dir, marker, link>>

Step(t) ==
    \/ Lock(t) \/ Ensured(t) \/ Read(t) \/ Truncate(t) \/ Write(t) \/ Rename(t)
    \/ Collect(t)

Next ==
    \/ \E t \in Tasks, r \in References, d \in Digests \union {NoDigest} : Call(t, r, d)
    \/ \E t \in Tasks : Step(t) \/ Cancel(t)
    \/ \E l \in Listers : Catalog(l) \/ Listed(l)
    \/ \E p \in Processes : Ensure(p)
    \/ Crash

Spec == Init /\ [][Next]_vars

-----------------------------------------------------------------------------
TypeOK ==
    /\ index \in Indexes \union {Empty, Torn}
    /\ temporary \in Indexes \union {Empty, Torn, Absent}
    /\ holder \in Tasks \union {Nobody}
    /\ pc \in [Tasks -> PCs]
    /\ job \in [Tasks -> [reference : References, digest : Digests \union {NoDigest}]]
    /\ copy \in [Tasks -> Indexes]
    /\ opened \in [Tasks -> Places]
    /\ detached \subseteq Tasks
    /\ \A t \in Tasks :
          /\ holder = t <=> pc[t] \in Locked /\ t \notin detached
          /\ t \in detached => pc[t] \in Pool
    /\ interrupted \in BOOLEAN
    /\ dir \in BOOLEAN /\ marker \in {"absent", "empty", "whole"} /\ link \in BOOLEAN
    /\ stage \in [Processes -> Stages]
    /\ spoiled \in BOOLEAN

(* An update is one change of one reference to the digest the task was asked   *)
(* to record, applied to the index as it is when it lands.                     *)
OneUpdate ==
    index' # index =>
        \E t \in Tasks :
            /\ pc[t] = "rename" /\ pc'[t] # "rename"
            /\ index \in Indexes
            /\ index' = [index EXCEPT ![job[t].reference] = job[t].digest]

(* The purpose stated for tag_write_lock, storage/mod.rs:45-46: no update      *)
(* slips between another's read and write and is lost.  Every change of        *)
(* index.json is the one update of one caller, none undoes another.            *)
NoLostUpdate == [][OneUpdate]_index

(* The same as far as the code delivers it: until a handler is dropped in the  *)
(* middle of a file operation, whatever crashes happen.                        *)
NoLostUpdateWhileAwaited == [][~interrupted => OneUpdate]_index

(* What a reader of index.json sees is always a whole index: the reason for    *)
(* index.json.tmp and the rename.                                              *)
IndexReadable == ~interrupted => index \in Indexes

(* REQ-0020, storage/mod.rs:155: the directory of an upstream whose tags are   *)
(* read and written is a whole OCI Image Layout, whatever was left by a call   *)
(* that failed or crashed half-way and whoever completes it at the same time.  *)
(* Excepted is an oci-layout that somebody is still writing, or whose write    *)
(* did not come to its end: it is taken for whole ever after.                  *)
LayoutComplete ==
    (\E t \in Tasks : pc[t] \in Locked \ {"ensure"}) \/ index # EmptyIndex =>
        /\ dir /\ link /\ marker # "absent"
        /\ marker = "whole" \/ spoiled \/ \E p \in Processes : stage[p] = "fill"
=============================================================================
