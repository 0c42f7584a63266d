--------------------------- MODULE GarbageCollection ---------------------------
(* Layout::put_tag, remove_tag and collect_garbage (src/src/storage/mod.rs)    *)
(* beside the request handlers that fill the shared blobs directory            *)
(* (src/src/server/mod.rs, src/src/cache/manifest.rs).                         *)
(*                                                                             *)
(* A pull by tag stores the manifest and then records the tag, in two steps; a *)
(* pull by digest and the blobs of an image are stored and recorded nowhere.   *)
(* Recording a tag that had another digest collects garbage while              *)
(* tag_write_lock is held: it marks what the tags reach, manifest by manifest, *)
(* and then removes every directory entry it has not marked.  Handlers go on   *)
(* storing meanwhile: they do not take the lock.  When a handler that holds it *)
(* is dropped the lock is free, while the blocking pool still renames the      *)
(* index.json, or unlinks the file, that the handler had got to.               *)
(*                                                                             *)
(* An index.json is read and written to its temporary file in one step here    *)
(* (TagIndex has the parts, and that the temporary file is shared), and so is  *)
(* the life of a blob between its temporary file and its name (BlobCache).     *)
EXTENDS FiniteSets

CONSTANTS
    Tasks,
    References,     \* upstream, repository and tag, over all upstreams
    NoReference,    \* a pull by digest, or of a blob
    Digests,
    NoDigest,
    Manifests,      \* the digests a tag may have
    Leaves,         \* Leaves[d]: config and layers named by the content of d
    Children,       \* Children[d]: manifests named by the content of d
    Leftover,       \* a temporary file no task owns any more
    Nobody

Edges(d) == Leaves[d] \union Children[d]

ASSUME ManifestsDigests == Manifests \subseteq Digests
ASSUME ContentsTyped ==
    Leaves \in [Digests -> SUBSET Digests] /\ Children \in [Digests -> SUBSET Digests]

(* "In OCI a config or a layer does not itself refer to other blobs": the      *)
(* ground on which the marking does not look into leaves (storage/mod.rs:333). *)
ASSUME LeavesAreLeaves == \A d \in Digests : \A l \in Leaves[d] : Edges(l) = {}
ASSUME MarkersFresh ==
    /\ NoDigest \notin Digests /\ NoReference \notin References
    /\ Nobody \notin Tasks /\ Leftover \notin Tasks
    /\ Digests \cap (Tasks \union {Leftover}) = {}

VARIABLES
    index,      \* the tag indexes of all upstreams
    files,      \* the digests with a file in blobs/sha256
    temps,      \* the temporary files there, named by the task that writes them
    holder,     \* the owner of tag_write_lock
    pc,
    job,        \* job[t]: the reference pulled, if any, and the digest
    copy,       \* copy[t]: the tag indexes as t has read them
    live, queue,\* compute_live_set
    due,        \* the entries read_dir still has to return
    victim,     \* victim[t]: the digest remove_blob is unlinking for t
    \* history
    began,      \* the tag indexes when the collection began, and
    reached,    \* the files they reached, but those that late unlinks have taken
    untagged,   \* files the tags reached until a tag changed
    unfinished, \* why the last collection did not end
    disturbed   \* since it began a late rename has changed the tags, or a late
                \* unlink has taken a file they reached

gcVars == <<live, queue, due>>
history == <<began, reached, unfinished, disturbed>>
vars == <<index, files, temps, holder, pc, job, copy, gcVars, victim, history, untagged>>

Entries == files \union temps
Tagged(ix) == {ix[r] : r \in References} \ {NoDigest}

(* What the tags of ix reach through the manifests stored in fs: the least set *)
(* with the tagged digests in it that contains what its stored members name.   *)
Closed(S, ix, fs) == Tagged(ix) \subseteq S /\ \A d \in S \cap fs : Edges(d) \subseteq S
Reachable(ix, fs) == {d \in Digests : \A S \in SUBSET Digests : Closed(S, ix, fs) => d \in S}

NoJob == [reference |-> NoReference, digest |-> NoDigest]
NoTags == [r \in References |-> NoDigest]

Init ==
    /\ index = NoTags
    /\ files = {} /\ temps = {}
    /\ holder = Nobody
    /\ pc = [t \in Tasks |-> "idle"]
    /\ job = [t \in Tasks |-> NoJob]
    /\ copy = [t \in Tasks |-> NoTags]
    /\ live = {} /\ queue = {} /\ due = {}
    /\ victim = [t \in Tasks |-> NoDigest]
    /\ began = NoTags /\ reached = {} /\ untagged = {}
    /\ unfinished = "no" /\ disturbed = FALSE

Goto(t, l) == pc' = [pc EXCEPT ![t] = l]
Leave(t, l) ==
    /\ Goto(t, l)
    /\ job' = [job EXCEPT ![t] = NoJob]
    /\ copy' = [copy EXCEPT ![t] = NoTags]
Return(t) == Leave(t, "idle")

-----------------------------------------------------------------------------
(* A handler is asked for a digest, by tag r or by its own name; nothing is    *)
(* fetched when the file is there, which ends a pull that is not by tag.  By   *)
(* tag a fetched manifest is stored, a fresh one was read from its file, and   *)
(* both go on to put_tag.                                                      *)
Pull(t, r, d) ==
    /\ pc[t] = "idle"
    /\ r # NoReference => d \in Manifests
    /\ d \in files => r # NoReference
    /\ job' = [job EXCEPT ![t] = [reference |-> r, digest |-> d]]
    /\ IF d \in files
       THEN Goto(t, "put") /\ UNCHANGED temps
       ELSE Goto(t, "fetch") /\ temps' = temps \union {t}
    /\ UNCHANGED <<index, files, holder, copy, gcVars, victim, history>>

(* The temporary file is renamed to the digest, or removed after an error.     *)
Fetched(t) ==
    /\ pc[t] = "fetch"
    /\ temps' = temps \ {t}
    /\ due' = due \ {t}
    /\ \/ /\ files' = files \union {job[t].digest}
          /\ IF job[t].reference = NoReference
             THEN Return(t)
             ELSE Goto(t, "put") /\ UNCHANGED <<job, copy>>
       \/ Return(t) /\ UNCHANGED files
    /\ UNCHANGED <<index, holder, live, queue, victim, history>>

Leak(t) ==
    /\ temps' = IF t \in temps THEN (temps \ {t}) \union {Leftover} ELSE temps
    /\ due' = IF t \in due THEN (due \ {t}) \union {Leftover} ELSE due

(* finalize_tmp_file leaves the temporary file behind when it fails.           *)
FinalizeErr(t) ==
    /\ pc[t] = "fetch"
    /\ Leak(t)
    /\ Return(t)
    /\ UNCHANGED <<index, files, holder, live, queue, victim, history>>

RemoveTag(t, r) ==
    /\ pc[t] = "idle"
    /\ job' = [job EXCEPT ![t] = [reference |-> r, digest |-> NoDigest]]
    /\ Goto(t, "put")
    /\ UNCHANGED <<index, files, temps, holder, copy, gcVars, victim, history>>

(* put_tag and remove_tag take the lock, and read the index; one that would    *)
(* not change is not written.                                                  *)
Lock(t) ==
    /\ pc[t] = "put" /\ holder = Nobody
    /\ IF index[job[t].reference] = job[t].digest
       THEN Return(t) /\ UNCHANGED holder
       ELSE /\ Goto(t, "rename")
            /\ holder' = t
            /\ copy' = [copy EXCEPT ![t] = index]
            /\ UNCHANGED job
    /\ UNCHANGED <<index, files, temps, gcVars, victim, history>>

Modified(t) == [copy[t] EXCEPT ![job[t].reference] = job[t].digest]

RenameWithoutCollecting(t) ==
    /\ pc[t] = "rename"
    /\ index' = Modified(t)
    /\ Return(t)
    /\ holder' = Nobody
    /\ UNCHANGED <<files, temps, gcVars, victim, history>>

(* The changed copy takes the place of index.json.  Garbage is collected when  *)
(* the reference had a digest, or had one to be removed.                       *)
Rename(t) ==
    /\ pc[t] = "rename"
    /\ index' = Modified(t)
    /\ IF copy[t][job[t].reference] = NoDigest
       THEN Return(t) /\ holder' = Nobody /\ UNCHANGED unfinished
       ELSE Leave(t, "collect") /\ unfinished' = "running" /\ UNCHANGED holder
    /\ UNCHANGED <<files, temps, gcVars, victim, began, reached, disturbed>>

(* compute_live_set starts from all tagged digests.                            *)
Begin(t) ==
    /\ pc[t] = "collect"
    /\ live' = Tagged(index)
    /\ queue' = live'
    /\ Goto(t, "mark")
    /\ began' = index
    /\ reached' = files \cap Reachable(index, files)
    /\ disturbed' = FALSE
    /\ UNCHANGED <<index, files, temps, holder, job, copy, due, victim, unfinished>>

OneLevel(t, d) ==
    /\ pc[t] = "mark" /\ d \in queue
    /\ LET named == IF d \in files THEN Edges(d) ELSE {}
       IN  live' = live \union named
    /\ queue' = queue \ {d}
    /\ UNCHANGED <<index, files, temps, holder, pc, job, copy, due, victim, history>>

QueueOnly(t, d) ==
    /\ pc[t] = "mark" /\ d \in queue
    /\ LET leaves == IF d \in files THEN Leaves[d] ELSE {}
           children == IF d \in files THEN Children[d] ELSE {}
       IN  /\ live' = live \union leaves
           /\ queue' = (queue \ {d}) \union (children \ live')
    /\ UNCHANGED <<index, files, temps, holder, pc, job, copy, due, victim, history>>

(* One turn of the work loop; a manifest that cannot be read names nothing.    *)
(* Leaves enter the live set and are not looked into.                          *)
Trace(t, d) ==
    /\ pc[t] = "mark" /\ d \in queue
    /\ LET leaves == IF d \in files THEN Leaves[d] ELSE {}
           children == IF d \in files THEN Children[d] ELSE {}
           known == live \union leaves
       IN  /\ live' = known \union children
           /\ queue' = (queue \ {d}) \union (children \ known)
    /\ UNCHANGED <<index, files, temps, holder, pc, job, copy, due, victim, history>>

OpenDir(t) ==
    /\ pc[t] = "mark" /\ queue = {}
    /\ due' = Entries
    /\ Goto(t, "sweep")
    /\ UNCHANGED <<index, files, temps, holder, job, copy, live, queue, victim, history>>

(* The collection ends, for the reason why: _guard is dropped.                 *)
Finish(why) ==
    /\ holder' = Nobody
    /\ live' = {} /\ queue' = {} /\ due' = {} /\ began' = NoTags /\ reached' = {}
    /\ unfinished' = why
    /\ UNCHANGED disturbed

End(t, why) ==
    /\ Return(t)
    /\ Finish(why)
    /\ victim' = [victim EXCEPT ![t] = NoDigest]
    /\ UNCHANGED <<index, files, temps>>

(* next_entry returns an entry: one that is due, or one that came meanwhile.   *)
Keep(t, d) ==
    /\ pc[t] = "sweep" /\ d \in files \cap live \cap due
    /\ due' = due \ {d}
    /\ UNCHANGED <<index, files, temps, holder, pc, job, copy, live, queue, victim, history>>

(* An entry that is not marked is given to remove_blob ...                     *)
Discard(t, d) ==
    /\ pc[t] = "sweep" /\ d \in files \ live
    /\ due' = due \ {d}
    /\ victim' = [victim EXCEPT ![t] = d]
    /\ Goto(t, "unlink")
    /\ UNCHANGED <<index, files, temps, holder, job, copy, live, queue, history>>

(* ... which unlinks it, a missing file being no error.                        *)
Unlink(t) ==
    /\ pc[t] = "unlink"
    /\ files' = files \ {victim[t]}
    /\ victim' = [victim EXCEPT ![t] = NoDigest]
    /\ Goto(t, "sweep")
    /\ UNCHANGED <<index, temps, holder, job, copy, gcVars, history>>

(* The entry is no digest: blob_path refuses it and the error ends the call.   *)
RefuseEntry(t, e) ==
    /\ pc[t] = "sweep" /\ e \in temps
    /\ End(t, "invalid digest")

Swept(t) ==
    /\ pc[t] = "sweep" /\ due = {}
    /\ End(t, "no")

(* A call ends before it has changed the tags.                                 *)
Abandon(t) ==
    /\ pc[t] = "rename"
    /\ Return(t)
    /\ holder' = Nobody
    /\ UNCHANGED <<index, files, temps, gcVars, victim, history>>

(* The file system fails.                                                      *)
IoError(t) ==
    \/ Abandon(t)
    \/ pc[t] \in {"collect", "mark", "sweep", "unlink"} /\ End(t, "io error")

(* The client disconnects and the handler is dropped where it is.  The lock is *)
(* free then, but a rename or an unlink under way goes on ...                  *)
Cancel(t) ==
    \/ Abandon(t)
    \/ pc[t] \in {"collect", "mark", "sweep"} /\ End(t, "dropped")
    \/ /\ pc[t] = "rename"
       /\ Goto(t, "late rename")
       /\ holder' = Nobody
       /\ UNCHANGED <<index, files, temps, job, copy, gcVars, victim, history>>
    \/ /\ pc[t] = "unlink"
       /\ Leave(t, "late unlink")
       /\ Finish("dropped")
       /\ UNCHANGED <<index, files, temps, victim>>
    \/ /\ pc[t] \in {"fetch", "put"}
       /\ Return(t)
       /\ Leak(t)
       /\ UNCHANGED <<index, files, holder, live, queue, victim, history>>

(* ... and changes the tags, to what they were with the change of the call ... *)
LateRename(t) ==
    /\ pc[t] = "late rename"
    /\ index' = Modified(t)
    /\ disturbed' = (disturbed \/ index' # index)
    /\ Return(t)
    /\ UNCHANGED <<files, temps, holder, gcVars, victim, began, reached, unfinished>>

(* ... and takes the file, whatever has happened to it by then.                *)
LateUnlink(t) ==
    /\ pc[t] = "late unlink"
    /\ files' = files \ {victim[t]}
    /\ due' = due \ {victim[t]}
    /\ reached' = reached \ {victim[t]}
    /\ disturbed' = (disturbed \/ victim[t] \in files \cap Reachable(index, files))
    /\ victim' = [victim EXCEPT ![t] = NoDigest]
    /\ Goto(t, "idle")
    /\ UNCHANGED <<index, temps, holder, job, copy, live, queue, began, unfinished>>

Collect(t) ==
    \/ \E d \in Digests : Trace(t, d) \/ Keep(t, d) \/ Discard(t, d)
    \/ \E e \in Tasks \union {Leftover} : RefuseEntry(t, e)
    \/ Begin(t) \/ OpenDir(t) \/ Unlink(t) \/ Swept(t) \/ IoError(t)

(* The history of what a changed tag has left behind.                          *)
Untag ==
    untagged' = files' \cap
        (untagged \union
            IF index' = index THEN {} ELSE Reachable(index, files) \ Reachable(index', files'))

Next ==
    /\ \E t \in Tasks :
          \/ \E r \in References \union {NoReference}, d \in Digests : Pull(t, r, d)
          \/ \E r \in References : RemoveTag(t, r)
          \/ Fetched(t) \/ FinalizeErr(t) \/ Lock(t) \/ Rename(t) \/ Collect(t)
          \/ Cancel(t) \/ LateRename(t) \/ LateUnlink(t)
    /\ Untag

Spec == Init /\ [][Next]_vars

-----------------------------------------------------------------------------
PCs == {"idle", "fetch", "put", "rename", "collect", "mark", "sweep", "unlink",
        "late rename", "late unlink"}
Reasons == {"no", "running", "invalid digest", "io error", "dropped"}

TypeOK ==
    /\ index \in [References -> Digests \union {NoDigest}]
    /\ files \subseteq Digests /\ temps \subseteq Tasks \union {Leftover}
    /\ holder \in Tasks \union {Nobody}
    /\ pc \in [Tasks -> PCs]
    /\ job \in [Tasks -> [reference : References \union {NoReference},
                          digest : Digests \union {NoDigest}]]
    /\ copy \in [Tasks -> [References -> Digests \union {NoDigest}]]
    /\ live \subseteq Digests /\ queue \subseteq live
    /\ due \subseteq Digests \union Tasks \union {Leftover}
    /\ victim \in [Tasks -> Digests \union {NoDigest}]
    /\ \A t \in Tasks : victim[t] # NoDigest <=> pc[t] \in {"unlink", "late unlink"}
    /\ began \in [References -> Digests \union {NoDigest}]
    /\ reached \subseteq Digests /\ untagged \subseteq files
    /\ unfinished \in Reasons /\ disturbed \in BOOLEAN

(* The unlink of a dropped collection lands on d in this step.                 *)
TakenLate(d) == \E t \in Tasks : pc[t] = "late unlink" /\ pc'[t] = "idle" /\ victim[t] = d

(* A collection removes nothing that the tags, as it has read them, reach by   *)
(* way of files that were there when it began and still are (storage/mod.rs:   *)
(* 237), through lists of manifests however deep, whatever handlers store      *)
(* while it runs.  It is as far as the code goes: what a dropped put_tag tags  *)
(* after that is not marked, and the unlink that a dropped collection has left *)
(* behind may take anything, and what is reached by that alone.                *)
KeepsReached ==
    [][\A d \in files \cap Reachable(began, reached) : d \in files' \/ TakenLate(d)]_files

(* REQ-0025: a file that a changed tag made unreachable is gone, or is reached *)
(* again, when no collection is running, as far as collections come to an end  *)
(* and nothing of a dropped call has landed since the last one began.          *)
ReplacedCollected ==
    unfinished = "no" /\ ~disturbed => untagged \subseteq Reachable(index, files)

(* REQ-0025 as it is written: with no collection running, and none dropped by  *)
(* its client or failed by the file system, what a changed tag made            *)
(* unreachable is deleted.                                                     *)
UnreferencedDeleted ==
    unfinished \in {"no", "invalid digest"} /\ ~disturbed =>
        untagged \subseteq Reachable(index, files)
=============================================================================
