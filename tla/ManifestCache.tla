----------------------------- MODULE ManifestCache -----------------------------
(* ManifestCache::get_filtered and force_refresh of tags                       *)
(* (src/src/cache/manifest.rs), with the RefreshGate that post_refresh puts in *)
(* front of forced refreshes (src/src/ui/mod.rs).  Requests for one tag run    *)
(* concurrently and are not coalesced; the map of tag states is locked for     *)
(* single reads and writes; a request fixes its `now` at its start and asks    *)
(* the upstream some time later.                                               *)
(* Meanwhile the upstream moves the tag, and stored manifests are evicted or   *)
(* collected (Layout).                                                         *)
(*                                                                             *)
(* Instants are kept as the ticks since then.  Time passes between any two     *)
(* steps; the bound on it is that no request lasts longer than MaxDelay.       *)
EXTENDS Integers, FiniteSets

CONSTANTS
    Tasks,
    Tags,           \* (upstream, repository, tag)
    Digests,
    NoDigest,
    MediaTypes,     \* ACCEPTED_MEDIA_TYPES
    NoType,
    MediaType,      \* MediaType[d]: of the manifest with digest d; NoType if it says none
    Accepts,        \* the sets of acceptable types clients ask with
    Ttl,            \* tag_ttl, in ticks
    Cooldown,       \* RefreshGate's cooldown, in ticks
    MaxDelay        \* bound: ticks a request may take

ASSUME TagsType == Tags # {}
ASSUME NoDigestFresh == NoDigest \notin Digests
ASSUME MediaTypeType ==
    NoType \notin MediaTypes /\ MediaType \in [Digests -> MediaTypes \union {NoType}]
ASSUME AcceptsType == Accepts \subseteq SUBSET MediaTypes
ASSUME DurationsType == Ttl \in Nat \ {0} /\ Cooldown \in Nat \ {0} /\ MaxDelay \in Nat

Old == Ttl + MaxDelay       \* as good as any longer time, for any request
Cold == Cooldown + MaxDelay \* the same of a refresh, or none

VARIABLES
    offers,       \* offers[g]: the manifests, one per media type, tag g names upstream
    store,        \* digests stored
    digest,       \* digest[g] and
    age,          \* age[g]: tag_state[g], ticks since fetched_at; NoDigest if none
    last_refresh, \* last_refresh[g]: ticks since the `now` kept for g; Cold if none
    pc,
    job,          \* job[t]: the tag, the types accepted, forced or not
    started,      \* started[t]: ticks since the request's `now`
    found,        \* found[t]: the manifest t has from the map, or from upstream
    \* history
    offered,      \* offered[d]: ticks since a tag last named d upstream
    answered,     \* answered[t]: ticks since the upstream answered t
    forced,       \* forced[g]: ticks since the upstream answered the forced refresh
                  \* that was remembered last; Old if an answer still older has
                  \* been remembered after it
    accepted      \* accepted[g]: ticks since the `now` of the last one let through;
                  \* Cooldown is as good as any longer time

upstream == <<offers, offered>>
request == <<pc, job, started, found, answered>>
tag_state == <<digest, age>>
gate == <<last_refresh, accepted>>
vars == <<upstream, request, store, tag_state, forced, gate>>

(* is_acceptable: a manifest that does not say its type suits everybody.       *)
Acceptable(d, accept) == MediaType[d] \in accept \union {NoType}

(* The manifests a tag may name at a time: one per media type it is offered in.*)
Offers == {S \in SUBSET Digests :
              S # {} /\ \A d, e \in S : MediaType[d] = MediaType[e] => d = e}

NoJob == [tag |-> CHOOSE g \in Tags : TRUE, accept |-> {}, force |-> FALSE]

Lesser(a, b) == IF a < b THEN a ELSE b

NamedIn(o) == UNION {o[g] : g \in Tags}

Init ==
    /\ offers \in [Tags -> Offers]
    /\ offered = [d \in Digests |-> IF d \in NamedIn(offers) THEN 0 ELSE Old]
    /\ store = {}
    /\ digest = [g \in Tags |-> NoDigest]
    /\ age = [g \in Tags |-> Old]
    /\ pc = [t \in Tasks |-> "idle"]
    /\ job = [t \in Tasks |-> NoJob]
    /\ started = [t \in Tasks |-> 0]
    /\ found = [t \in Tasks |-> NoDigest]
    /\ answered = [t \in Tasks |-> 0]
    /\ last_refresh = [g \in Tags |-> Cold]
    /\ forced = [g \in Tags |-> Old]
    /\ accepted = [g \in Tags |-> Cooldown]

Goto(t, l) == pc' = [pc EXCEPT ![t] = l]

Start(t, g, accept, force, l) ==
    /\ pc[t] = "idle"
    /\ job' = [job EXCEPT ![t] = [tag |-> g, accept |-> accept, force |-> force]]
    /\ Goto(t, l)
    /\ UNCHANGED <<started, found, answered, upstream, store, tag_state, forced, gate>>

(* The request goes on at l.                                                   *)
GoOn(t, l) == Goto(t, l) /\ UNCHANGED <<job, started, found, answered>>

(* The request is over, answered or dropped.                                   *)
End(t) ==
    /\ Goto(t, "idle")
    /\ job' = [job EXCEPT ![t] = NoJob]
    /\ started' = [started EXCEPT ![t] = 0]
    /\ found' = [found EXCEPT ![t] = NoDigest]
    /\ answered' = [answered EXCEPT ![t] = 0]

-----------------------------------------------------------------------------
(* get_by_tag for a client.  (Without an acceptable type it refuses at once.)  *)
Request(t, g, accept) == Start(t, g, accept, FALSE, "fresh")

(* post_refresh, up to the `now` of try_acquire, which it takes before the     *)
(* lock of the gate.                                                           *)
Refresh(t, g) == Start(t, g, MediaTypes, TRUE, "acquire")

RetainedShort(ago) ==
    [g \in Tags |-> IF last_refresh[g] - ago < Cooldown - 1 THEN last_refresh[g] ELSE Cold]

(* retain: with a request's `now` of so many ticks ago, what has cooled down.  *)
Retained(ago) ==
    [g \in Tags |-> IF last_refresh[g] - ago < Cooldown THEN last_refresh[g] ELSE Cold]

(* try_acquire, and on to force_refresh if it is not too soon.                 *)
try_acquire(t) ==
    LET g == job[t].tag
        kept == Retained(started[t])
    IN
    /\ pc[t] = "acquire"
    /\ IF kept[g] - started[t] < Cooldown
       THEN End(t) /\ last_refresh' = kept /\ UNCHANGED accepted
       ELSE /\ GoOn(t, "fetch")
            /\ last_refresh' = [kept EXCEPT ![g] = started[t]]
            /\ accepted' = [accepted EXCEPT ![g] = Lesser(started[t], Cooldown)]
    /\ UNCHANGED <<upstream, store, tag_state, forced>>

(* try_acquire for a tag that is not among Tags.                               *)
Sweep(ago) ==
    /\ last_refresh' = Retained(ago)
    /\ last_refresh' # last_refresh
    /\ UNCHANGED <<upstream, request, store, tag_state, forced, accepted>>

(* fresh_tag_state, compared with the request's own `now`.                     *)
Fresh(t) ==
    LET g == job[t].tag IN
    /\ pc[t] = "fresh"
    /\ IF digest[g] # NoDigest /\ age[g] - started[t] < Ttl
       THEN /\ Goto(t, "read")
            /\ found' = [found EXCEPT ![t] = digest[g]]
            /\ UNCHANGED <<job, started, answered>>
       ELSE GoOn(t, "fetch")
    /\ UNCHANGED <<upstream, store, tag_state, forced, gate>>

ReadAnyType(t) ==
    /\ pc[t] = "read"
    /\ IF found[t] \in store
       THEN GoOn(t, "respond")
       ELSE /\ Goto(t, "fetch")
            /\ found' = [found EXCEPT ![t] = NoDigest]
            /\ UNCHANGED <<job, started, answered>>
    /\ UNCHANGED <<upstream, store, tag_state, forced, gate>>

(* read_stored: a manifest that is gone, or of another type, is fetched again. *)
Read(t) ==
    /\ pc[t] = "read"
    /\ IF found[t] \in store /\ Acceptable(found[t], job[t].accept)
       THEN GoOn(t, "respond")
       ELSE /\ Goto(t, "fetch")
            /\ found' = [found EXCEPT ![t] = NoDigest]
            /\ UNCHANGED <<job, started, answered>>
    /\ UNCHANGED <<upstream, store, tag_state, forced, gate>>

(* fetch_by_tag: the upstream answers with a manifest of an accepted type ...  *)
FetchOk(t, d) ==
    /\ pc[t] = "fetch" /\ d \in offers[job[t].tag] /\ Acceptable(d, job[t].accept)
    /\ Goto(t, "store")
    /\ found' = [found EXCEPT ![t] = d]
    /\ UNCHANGED <<job, started, answered, upstream, store, tag_state, forced, gate>>

(* ... or denies the request, or cannot be reached.                            *)
FetchErr(t) ==
    /\ pc[t] = "fetch"
    /\ End(t) \/ GoOn(t, "stale")
    /\ UNCHANGED <<upstream, store, tag_state, forced, gate>>

(* digest_store.store, whose error ends the request.                           *)
Store(t) ==
    /\ pc[t] = "store"
    /\ \/ GoOn(t, "remember") /\ store' = store \union {found[t]}
       \/ End(t) /\ UNCHANGED store
    /\ UNCHANGED <<upstream, tag_state, forced, gate>>

InsertIfAbsent(t, time) ==
    LET known == digest[job[t].tag] # NoDigest IN
    /\ pc[t] = "remember"
    /\ digest' = IF known THEN digest ELSE [digest EXCEPT ![job[t].tag] = found[t]]
    /\ age' = IF known THEN age ELSE [age EXCEPT ![job[t].tag] = time]
    /\ forced' = [forced EXCEPT ![job[t].tag] =
          IF job[t].force THEN answered[t] ELSE IF answered[t] > @ THEN Old ELSE @]
    /\ GoOn(t, "respond")
    /\ UNCHANGED <<upstream, store, gate>>

Insert(t, time) ==
    /\ pc[t] = "remember"
    /\ digest' = [digest EXCEPT ![job[t].tag] = found[t]]
    /\ age' = [age EXCEPT ![job[t].tag] = time]
    /\ forced' = [forced EXCEPT ![job[t].tag] =
          IF job[t].force THEN answered[t] ELSE IF answered[t] > @ THEN Old ELSE @]
    /\ GoOn(t, "respond")
    /\ UNCHANGED <<upstream, store, gate>>

RememberNow(t) == Insert(t, 0)

(* The insert into tag_state, with the `now` of the start.                     *)
Remember(t) == Insert(t, started[t])

StaleUnchecked(t) ==
    /\ pc[t] = "stale"
    /\ Goto(t, "stale_read")
    /\ found' = [found EXCEPT ![t] = digest[job[t].tag]]
    /\ UNCHANGED <<job, started, answered, upstream, store, tag_state, forced, gate>>

(* Unreachable upstream: whatever tag_state has by now, of whatever age.       *)
Stale(t) ==
    LET d == digest[job[t].tag] IN
    /\ pc[t] = "stale"
    /\ IF d # NoDigest
       THEN /\ Goto(t, "stale_read")
            /\ found' = [found EXCEPT ![t] = d]
            /\ UNCHANGED <<job, started, answered>>
       ELSE End(t)
    /\ UNCHANGED <<upstream, store, tag_state, forced, gate>>

StaleRead(t) ==
    /\ pc[t] = "stale_read"
    /\ IF found[t] \in store /\ Acceptable(found[t], job[t].accept)
       THEN GoOn(t, "respond")
       ELSE End(t)
    /\ UNCHANGED <<upstream, store, tag_state, forced, gate>>

Respond(t) ==
    /\ pc[t] = "respond"
    /\ End(t)
    /\ UNCHANGED <<upstream, store, tag_state, forced, gate>>

(* The client disconnects; a store under way may still come to its end.        *)
Cancel(t) ==
    /\ pc[t] \in {"read", "fetch", "store", "stale_read"}
    /\ End(t)
    /\ \/ UNCHANGED store
       \/ pc[t] = "store" /\ store' = store \union {found[t]}
    /\ UNCHANGED <<upstream, tag_state, forced, gate>>

-----------------------------------------------------------------------------
(* Layout removes a manifest: it was evicted or collected.                     *)
Remove(d) ==
    /\ d \in store
    /\ store' = store \ {d}
    /\ UNCHANGED <<upstream, request, tag_state, forced, gate>>

(* The upstream moves a tag.                                                   *)
Move(g, S) ==
    /\ offers' = [offers EXCEPT ![g] = S]
    /\ offered' = [d \in Digests |-> IF d \in NamedIn(offers') THEN 0 ELSE offered[d]]
    /\ UNCHANGED <<request, store, tag_state, forced, gate>>

Older(ticks) == Lesser(ticks + 1, Old)

Tick ==
    /\ \A t \in Tasks : started[t] < MaxDelay
    /\ age' = [g \in Tags |-> Older(age[g])]
    /\ started' = [t \in Tasks |-> IF pc[t] = "idle" THEN 0 ELSE started[t] + 1]
    /\ answered' = [t \in Tasks |->
          IF pc[t] \in {"store", "remember"} THEN answered[t] + 1 ELSE answered[t]]
    /\ offered' = [d \in Digests |-> IF d \in NamedIn(offers) THEN 0 ELSE Older(offered[d])]
    /\ last_refresh' = [g \in Tags |-> Lesser(last_refresh[g] + 1, Cold)]
    /\ accepted' = [g \in Tags |-> Lesser(accepted[g] + 1, Cooldown)]
    /\ forced' = [g \in Tags |-> Lesser(forced[g] + 1, Old)]
    /\ UNCHANGED <<offers, pc, job, found, store, digest>>

Advance(t) ==
    \/ try_acquire(t) \/ Fresh(t) \/ Read(t) \/ FetchErr(t) \/ Store(t) \/ Remember(t)
    \/ Stale(t) \/ StaleRead(t) \/ Respond(t)
    \/ \E d \in Digests : FetchOk(t, d)

Next ==
    \/ \E t \in Tasks :
          \/ \E g \in Tags, accept \in Accepts : Request(t, g, accept)
          \/ \E g \in Tags : Refresh(t, g)
          \/ Advance(t) \/ Cancel(t)
    \/ \E ago \in 0..MaxDelay : Sweep(ago)
    \/ \E d \in Digests : Remove(d)
    \/ \E g \in Tags, S \in Offers : Move(g, S)
    \/ Tick

Spec == Init /\ [][Next]_vars

-----------------------------------------------------------------------------
Holding == {"read", "store", "remember", "stale_read", "respond"}
PCs == Holding \union {"idle", "acquire", "fresh", "fetch", "stale"}

TypeOK ==
    /\ offers \in [Tags -> Offers]
    /\ store \subseteq Digests
    /\ digest \in [Tags -> Digests \union {NoDigest}]
    /\ age \in [Tags -> 0..Old]
    /\ pc \in [Tasks -> PCs]
    /\ job \in [Tasks -> [tag : Tags, accept : SUBSET MediaTypes, force : BOOLEAN]]
    /\ started \in [Tasks -> 0..MaxDelay] /\ answered \in [Tasks -> 0..MaxDelay]
    /\ found \in [Tasks -> Digests \union {NoDigest}]
    /\ \A t \in Tasks : found[t] \in Digests <=> pc[t] \in Holding
    /\ offered \in [Digests -> 0..Old]
    /\ last_refresh \in [Tags -> 0..Cold] /\ accepted \in [Tags -> 0..Cooldown]
    /\ forced \in [Tags -> 0..Old]

(* REQ-0011: what a client is to be answered without asking the upstream was   *)
(* named there less than the validity period before the client asked, however  *)
(* long the fetch that stored it took and whoever else fetched meanwhile.      *)
HitsAreRecent ==
    \A t \in Tasks : pc[t] = "read" => offered[found[t]] - started[t] < Ttl

(* REQ-0033: a client gets a manifest of a type it accepts, or of none, also   *)
(* when the tag state is that of a client that accepts another type, and also  *)
(* in a stale answer.                                                          *)
AnswersAcceptable ==
    \A t \in Tasks : pc[t] = "respond" => Acceptable(found[t], job[t].accept)

(* REQ-0017: a forced refresh updates what is kept.  From then on the tag      *)
(* state is something the upstream named after it had answered the refresh,    *)
(* until a revalidation that was answered before, and was still under way,     *)
(* puts its older answer back.                                                 *)
RefreshSticks ==
    \A g \in Tags : digest[g] # NoDigest => offered[digest[g]] <= forced[g]

(* REQ-0045: when a refresh of an image is let through, the cooldown has run   *)
(* out since the one before was asked for, whatever the order in which the     *)
(* requests get the lock, and whoever has tidied up the gate in between.       *)
RefreshesApart ==
    [][\A t \in Tasks :
          pc[t] = "acquire" /\ pc'[t] = "fetch" => accepted[job[t].tag] >= Cooldown]_vars
=============================================================================
