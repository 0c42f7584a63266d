-------------------------- MODULE ManifestCacheProofs --------------------------
(* Theorems about ManifestCache, for every set of requests, tags and digests,  *)
(* every validity and cooldown, and requests of any bounded length.            *)
(*                                                                             *)
(* Ages are compared, never known: what the cache has of a tag is at least as  *)
(* old as it says (age, forced) when measured by when the upstream last named  *)
(* the digest (offered), and what a request has fetched was named when the     *)
(* upstream answered it (answered), which is after it started.                 *)
EXTENDS ManifestCache, TLAPS

(* What is named upstream is named now.                                        *)
OfferedNow == \A d \in NamedIn(offers) : offered[d] = 0

(* What is kept for a tag was named upstream as recently as its age says.      *)
AgeHonest == \A g \in Tags : digest[g] # NoDigest => offered[digest[g]] <= age[g]

(* The gate has not forgotten who was let through, unless it has cooled down.  *)
GateRemembers == \A g \in Tags : Lesser(last_refresh[g], Cooldown) <= accepted[g]

(* What a request has fetched, and what it will answer with.                   *)
Fetched(t) ==
    /\ answered[t] <= started[t]
    /\ pc[t] \notin {"store", "remember", "respond"} => answered[t] = 0
    /\ pc[t] \in {"store", "remember"} => offered[found[t]] <= answered[t]
    /\ pc[t] \in {"store", "remember", "respond"} => Acceptable(found[t], job[t].accept)
    /\ pc[t] = "read" => offered[found[t]] - started[t] < Ttl

IInv ==
    /\ TypeOK
    /\ OfferedNow
    /\ AgeHonest
    /\ GateRemembers
    /\ RefreshSticks
    /\ \A t \in Tasks : Fetched(t)

USE DEF upstream, request, tag_state, gate, Holding, PCs

-----------------------------------------------------------------------------
LEMMA Durations ==
    /\ Ttl \in Nat /\ Ttl > 0 /\ Cooldown \in Nat /\ Cooldown > 0 /\ MaxDelay \in Nat
    /\ Old \in Nat /\ Cold \in Nat /\ MaxDelay <= Old /\ MaxDelay <= Cold
    /\ Old = Ttl + MaxDelay /\ Cold = Cooldown + MaxDelay
BY DurationsType DEF Old, Cold

LEMMA NoJobTyped == NoJob \in [tag : Tags, accept : SUBSET MediaTypes, force : BOOLEAN]
<1>1. (CHOOSE g \in Tags : TRUE) \in Tags
  BY TagsType
<1>. QED
  BY <1>1 DEF NoJob

(* Whether t has a digest is known from where it is.                           *)
Holds(t) == found[t] \in Digests <=> pc[t] \in Holding

(* The variables of the requests, and those they share.                        *)
RequestsTyped ==
    /\ pc \in [Tasks -> PCs]
    /\ job \in [Tasks -> [tag : Tags, accept : SUBSET MediaTypes, force : BOOLEAN]]
    /\ started \in [Tasks -> 0..MaxDelay] /\ answered \in [Tasks -> 0..MaxDelay]
    /\ found \in [Tasks -> Digests \union {NoDigest}]

SharedTyped ==
    /\ store \subseteq Digests
    /\ digest \in [Tags -> Digests \union {NoDigest}]
    /\ age \in [Tags -> 0..Old]
    /\ last_refresh \in [Tags -> 0..Cold] /\ accepted \in [Tags -> 0..Cooldown]
    /\ forced \in [Tags -> 0..Old]

(* A step of request t, as far as the requests and the upstream go.            *)
StepOf(t) ==
    /\ UNCHANGED <<offers, offered>>
    /\ RequestsTyped'
    /\ \A u \in Tasks \ {t} :
          /\ pc'[u] = pc[u] /\ job'[u] = job[u] /\ started'[u] = started[u]
          /\ found'[u] = found[u] /\ answered'[u] = answered[u]

LEMMA Typed ==
    TypeOK <=> /\ RequestsTyped /\ SharedTyped /\ \A t \in Tasks : Holds(t)
               /\ offers \in [Tags -> Offers] /\ offered \in [Digests -> 0..Old]
BY DEF TypeOK, RequestsTyped, SharedTyped, Holds

LEMMA TypedPrime ==
    TypeOK' <=> /\ RequestsTyped' /\ SharedTyped' /\ (\A t \in Tasks : Holds(t)')
                /\ offers' \in [Tags -> Offers] /\ offered' \in [Digests -> 0..Old]
BY DEF TypeOK, RequestsTyped, SharedTyped, Holds

(* Who takes no part in a step keeps what is known of it.                      *)
LEMMA Others ==
    ASSUME IInv, NEW t \in Tasks, StepOf(t), Fetched(t)', Holds(t)',
           SharedTyped', AgeHonest', GateRemembers', RefreshSticks'
    PROVE  IInv'
<1>0. /\ offers \in [Tags -> Offers] /\ offered \in [Digests -> 0..Old]
      /\ \A u \in Tasks : Holds(u) /\ Fetched(u)
  BY Typed DEF IInv
<1>1. ASSUME NEW u \in Tasks, u # t PROVE Fetched(u)' /\ Holds(u)'
  <2>1. /\ pc'[u] = pc[u] /\ job'[u] = job[u] /\ started'[u] = started[u]
        /\ found'[u] = found[u] /\ answered'[u] = answered[u] /\ offered' = offered
    BY <1>1 DEF StepOf
  <2>. QED
    BY <1>0, <2>1 DEF Fetched, Holds
<1>2. \A u \in Tasks : Fetched(u)' /\ Holds(u)'
  BY <1>1
<1>3. TypeOK'
  BY <1>0, <1>2, TypedPrime DEF StepOf
<1>4. OfferedNow'
  BY DEF IInv, OfferedNow, NamedIn, StepOf
<1>. QED
  BY <1>2, <1>3, <1>4 DEF IInv

(* A step of a request that only reads the state of tags.                      *)
LEMMA RequestOnly ==
    ASSUME IInv, NEW t \in Tasks, StepOf(t), Fetched(t)', Holds(t)',
           store' \subseteq Digests, UNCHANGED <<tag_state, forced, gate>>
    PROVE  IInv'
<1>1. SharedTyped'
  BY Typed DEF IInv, SharedTyped
<1>2. AgeHonest' /\ GateRemembers' /\ RefreshSticks'
  BY DEF IInv, AgeHonest, GateRemembers, RefreshSticks, StepOf
<1>. QED
  BY <1>1, <1>2, Others

(* A request goes on without, or with another digest, or it ends.              *)
LEMMA Forms ==
    ASSUME TypeOK, NEW t \in Tasks, UNCHANGED upstream
    PROVE  /\ \A l \in PCs : GoOn(t, l) =>
                 /\ StepOf(t) /\ pc'[t] = l /\ job'[t] = job[t] /\ started'[t] = started[t]
                 /\ found'[t] = found[t] /\ answered'[t] = answered[t]
           /\ \A l \in PCs, d \in Digests \union {NoDigest} :
                 /\ Goto(t, l) /\ found' = [found EXCEPT ![t] = d]
                 /\ UNCHANGED <<job, started, answered>>
                 => /\ StepOf(t) /\ pc'[t] = l /\ job'[t] = job[t] /\ started'[t] = started[t]
                    /\ found'[t] = d /\ answered'[t] = answered[t]
           /\ End(t) => StepOf(t) /\ Fetched(t)' /\ (NoDigest \notin Digests => Holds(t)')
<1>. RequestsTyped
  BY Typed
<1>1. ASSUME NEW l \in PCs, GoOn(t, l)
      PROVE  /\ StepOf(t) /\ pc'[t] = l /\ job'[t] = job[t] /\ started'[t] = started[t]
             /\ found'[t] = found[t] /\ answered'[t] = answered[t]
  BY <1>1 DEF GoOn, Goto, StepOf, RequestsTyped
<1>2. ASSUME NEW l \in PCs, NEW d \in Digests \union {NoDigest}, Goto(t, l),
             found' = [found EXCEPT ![t] = d], UNCHANGED <<job, started, answered>>
      PROVE  /\ StepOf(t) /\ pc'[t] = l /\ job'[t] = job[t] /\ started'[t] = started[t]
             /\ found'[t] = d /\ answered'[t] = answered[t]
  BY <1>2 DEF Goto, StepOf, RequestsTyped
<1>3. ASSUME End(t) PROVE StepOf(t) /\ Fetched(t)' /\ (NoDigest \notin Digests => Holds(t)')
  <2>1. StepOf(t)
    BY <1>3, NoJobTyped, Durations DEF End, Goto, StepOf, RequestsTyped
  <2>2. pc'[t] = "idle" /\ started'[t] = 0 /\ answered'[t] = 0 /\ found'[t] = NoDigest
    BY <1>3 DEF End, Goto, RequestsTyped
  <2>. QED
    BY <2>1, <2>2 DEF Fetched, Holds
<1>. QED
  BY <1>1, <1>2, <1>3

(* A request ends, and what is kept for tags is left alone.                    *)
LEMMA EndKeeps ==
    ASSUME IInv, NEW t \in Tasks, End(t), UNCHANGED upstream,
           store' \subseteq Digests, UNCHANGED <<tag_state, forced, gate>>
    PROVE  IInv'
<1>1. StepOf(t) /\ Fetched(t)' /\ Holds(t)'
  BY Forms, NoDigestFresh DEF IInv
<1>. QED
  BY <1>1, RequestOnly

-----------------------------------------------------------------------------
LEMMA InitInv == Init => IInv
<1>. SUFFICES ASSUME Init PROVE IInv
  OBVIOUS
<1>1. RequestsTyped /\ SharedTyped /\ offered \in [Digests -> 0..Old]
  BY NoJobTyped, Durations DEF Init, RequestsTyped, SharedTyped
<1>2. \A t \in Tasks : Holds(t) /\ Fetched(t)
  BY NoDigestFresh DEF Init, Holds, Fetched
<1>3. offers \in [Tags -> Offers] /\ OfferedNow
  BY DEF Init, OfferedNow, NamedIn, Offers
<1>4. AgeHonest /\ RefreshSticks /\ GateRemembers
  BY Durations DEF Init, AgeHonest, RefreshSticks, GateRemembers, Lesser
<1>. QED
  BY <1>1, <1>2, <1>3, <1>4, Typed DEF IInv

(* retain drops only what has cooled down.                                     *)
LEMMA RetainedFacts ==
    ASSUME IInv, NEW ago \in 0..MaxDelay, NEW g \in Tags
    PROVE  /\ Retained(ago) \in [Tags -> 0..Cold]
           /\ Lesser(Retained(ago)[g], Cooldown) <= accepted[g]
           /\ Retained(ago)[g] - ago >= Cooldown => accepted[g] >= Cooldown
<1>0. /\ last_refresh \in [Tags -> 0..Cold] /\ accepted[g] \in 0..Cooldown
      /\ last_refresh[g] \in Nat
      /\ Lesser(last_refresh[g], Cooldown) <= accepted[g]
  BY Durations DEF IInv, TypeOK, GateRemembers
<1>1. Retained(ago) \in [Tags -> 0..Cold]
  BY <1>0, Durations DEF Retained
<1>2. Retained(ago)[g] = IF last_refresh[g] - ago < Cooldown THEN last_refresh[g] ELSE Cold
  BY DEF Retained
<1>3. CASE last_refresh[g] - ago < Cooldown
  BY <1>0, <1>1, <1>2, <1>3, Durations DEF Lesser
<1>4. CASE ~(last_refresh[g] - ago < Cooldown)
  BY <1>0, <1>1, <1>2, <1>4, Durations DEF Lesser
<1>. QED
  BY <1>3, <1>4

LEMMA AcquireKeeps == ASSUME IInv, NEW t \in Tasks, try_acquire(t) PROVE IInv'
<1>. DEFINE g == job[t].tag
            kept == Retained(started[t])
<1>0. /\ TypeOK /\ RequestsTyped /\ SharedTyped /\ Fetched(t) /\ Holds(t) /\ NoDigest \notin Digests
      /\ pc[t] = "acquire" /\ g \in Tags /\ started[t] \in 0..MaxDelay
      /\ UNCHANGED <<upstream, store, tag_state, forced>>
  BY Typed, NoDigestFresh DEF IInv, TypeOK, try_acquire
<1>1. kept \in [Tags -> 0..Cold] /\ \A h \in Tags : Lesser(kept[h], Cooldown) <= accepted[h]
  BY <1>0, RetainedFacts
<1>2. AgeHonest' /\ RefreshSticks'
  BY <1>0 DEF IInv, AgeHonest, RefreshSticks
<1>. HIDE DEF kept
<1>3. CASE End(t) /\ last_refresh' = kept /\ UNCHANGED accepted
  <2>1. StepOf(t) /\ Fetched(t)' /\ Holds(t)'
    BY <1>0, <1>3, Forms
  <2>2. SharedTyped' /\ GateRemembers'
    BY <1>0, <1>1, <1>3 DEF SharedTyped, GateRemembers
  <2>. QED
    BY <1>2, <2>1, <2>2, Others
<1>4. CASE /\ GoOn(t, "fetch") /\ last_refresh' = [kept EXCEPT ![g] = started[t]]
           /\ accepted' = [accepted EXCEPT ![g] = Lesser(started[t], Cooldown)]
  <2>1. /\ StepOf(t) /\ pc'[t] = "fetch" /\ job'[t] = job[t] /\ started'[t] = started[t]
        /\ found'[t] = found[t] /\ answered'[t] = answered[t]
    BY <1>0, <1>4, Forms
  <2>2. Fetched(t)' /\ Holds(t)'
    BY <1>0, <2>1 DEF Fetched, Holds
  <2>3. Lesser(started[t], Cooldown) \in 0..Cooldown /\ started[t] \in 0..Cold
    BY <1>0, Durations DEF Lesser
  <2>4. SharedTyped'
    BY <1>0, <1>1, <1>4, <2>3 DEF SharedTyped
  <2>5. ASSUME NEW h \in Tags PROVE Lesser(last_refresh'[h], Cooldown) <= accepted'[h]
    <3>1. CASE h = g
      BY <1>0, <1>1, <1>4, <2>3, <3>1 DEF SharedTyped
    <3>2. CASE h # g
      BY <1>0, <1>1, <1>4, <3>2 DEF SharedTyped
    <3>. QED
      BY <3>1, <3>2
  <2>6. GateRemembers'
    BY <2>5 DEF GateRemembers
  <2>. QED
    BY <1>2, <2>1, <2>2, <2>4, <2>6, Others
<1>. QED
  BY <1>3, <1>4 DEF try_acquire, kept

LEMMA RememberKeeps == ASSUME IInv, NEW t \in Tasks, Remember(t) PROVE IInv'
<1>. DEFINE g == job[t].tag
<1>0. /\ TypeOK /\ RequestsTyped /\ SharedTyped /\ Fetched(t) /\ Holds(t)
      /\ pc[t] = "remember" /\ g \in Tags /\ found[t] \in Digests
      /\ started[t] \in 0..MaxDelay /\ answered[t] \in 0..MaxDelay
      /\ offered \in [Digests -> 0..Old]
      /\ digest' = [digest EXCEPT ![g] = found[t]]
      /\ age' = [age EXCEPT ![g] = started[t]]
      /\ forced' = [forced EXCEPT ![g] =
            IF job[t].force THEN answered[t] ELSE IF answered[t] > forced[g] THEN Old ELSE forced[g]]
      /\ GoOn(t, "respond") /\ UNCHANGED <<upstream, store, gate>>
  BY Typed DEF IInv, TypeOK, Remember, Insert
<1>1. /\ StepOf(t) /\ pc'[t] = "respond" /\ job'[t] = job[t] /\ started'[t] = started[t]
      /\ found'[t] = found[t] /\ answered'[t] = answered[t]
  BY <1>0, Forms
<1>2. Fetched(t)' /\ Holds(t)'
  BY <1>0, <1>1 DEF Fetched, Holds
<1>3. started[t] \in 0..Old /\ answered[t] \in 0..Old /\ Old \in 0..Old
  BY <1>0, Durations
<1>4. SharedTyped'
  BY <1>0, <1>3 DEF SharedTyped
<1>5. offered[found[t]] <= answered[t] /\ answered[t] <= started[t] /\ offered[found[t]] <= Old
  BY <1>0, Durations DEF Fetched
<1>6. AgeHonest'
  <2>. SUFFICES ASSUME NEW h \in Tags, digest'[h] # NoDigest PROVE offered[digest'[h]] <= age'[h]
    BY <1>0 DEF AgeHonest
  <2>1. CASE h = g
    BY <1>0, <1>3, <1>5, <2>1, Durations DEF SharedTyped
  <2>2. CASE h # g
    BY <1>0, <2>2 DEF IInv, AgeHonest, SharedTyped
  <2>. QED
    BY <2>1, <2>2
<1>7. RefreshSticks'
  <2>. SUFFICES ASSUME NEW h \in Tags, digest'[h] # NoDigest PROVE offered[digest'[h]] <= forced'[h]
    BY <1>0 DEF RefreshSticks
  <2>1. CASE h = g
    <3>1. digest'[h] = found[t] /\ forced[g] \in Nat
      BY <1>0, <2>1, Durations DEF SharedTyped
    <3>2. forced'[h] = IF job[t].force THEN answered[t] ELSE IF answered[t] > forced[g] THEN Old ELSE forced[g]
      BY <1>0, <2>1 DEF SharedTyped
    <3>3. offered[found[t]] \in Nat /\ answered[t] \in Nat
      BY <1>0, Durations
    <3>. QED
      BY <1>5, <3>1, <3>2, <3>3
  <2>2. CASE h # g
    BY <1>0, <2>2 DEF IInv, RefreshSticks, SharedTyped
  <2>. QED
    BY <2>1, <2>2
<1>8. GateRemembers'
  BY <1>0 DEF IInv, GateRemembers
<1>. QED
  BY <1>1, <1>2, <1>4, <1>6, <1>7, <1>8, Others

(* The upstream names other manifests: the new ones are named now.             *)
LEMMA MoveKeeps ==
    ASSUME IInv, NEW g \in Tags, NEW S \in Offers, Move(g, S)
    PROVE  IInv'
<1>0. /\ RequestsTyped /\ SharedTyped /\ offers \in [Tags -> Offers] /\ offered \in [Digests -> 0..Old]
      /\ \A t \in Tasks : Holds(t) /\ Fetched(t)
      /\ UNCHANGED <<request, store, tag_state, forced, gate>>
      /\ offered' = [d \in Digests |-> IF d \in NamedIn(offers') THEN 0 ELSE offered[d]]
  BY Typed DEF IInv, Move
<1>1. offers' \in [Tags -> Offers] /\ \A d \in NamedIn(offers') : d \in Digests
  BY <1>0 DEF Move, NamedIn, Offers
<1>2. /\ offered' \in [Digests -> 0..Old]
      /\ \A d \in Digests : offered'[d] \in Nat /\ offered[d] \in Nat /\ offered'[d] <= offered[d]
  BY <1>0, Durations
<1>3. OfferedNow'
  BY <1>0, <1>1 DEF OfferedNow
<1>4. ASSUME NEW t \in Tasks PROVE Fetched(t)'
  <2>1. started[t] \in Nat /\ answered[t] \in Nat
    BY <1>0, Durations DEF RequestsTyped
  <2>2. pc[t] \in Holding => found[t] \in Digests
    BY <1>0 DEF Holds
  <2>. QED
    BY <1>0, <1>2, <2>1, <2>2, Durations DEF Fetched
<1>5. AgeHonest' /\ RefreshSticks'
  BY <1>0, <1>2, Durations DEF IInv, SharedTyped, AgeHonest, RefreshSticks
<1>6. TypeOK'
  <2>1. RequestsTyped' /\ SharedTyped' /\ \A t \in Tasks : Holds(t)'
    BY <1>0 DEF RequestsTyped, SharedTyped, Holds
  <2>. QED
    BY <1>1, <1>2, <2>1, TypedPrime
<1>7. GateRemembers'
  BY <1>0 DEF IInv, GateRemembers
<1>. QED
  BY <1>3, <1>4, <1>5, <1>6, <1>7 DEF IInv

(* Time passes for everybody alike.                                            *)
LEMMA TickKeeps == ASSUME IInv, Tick PROVE IInv'
<1>0. /\ RequestsTyped /\ SharedTyped /\ offers \in [Tags -> Offers] /\ offered \in [Digests -> 0..Old]
      /\ \A t \in Tasks : Holds(t) /\ Fetched(t)
      /\ UNCHANGED <<offers, pc, job, found, store, digest>>
  BY Typed DEF IInv, Tick
<1>1. \A t \in Tasks : /\ started[t] \in Nat /\ started[t] < MaxDelay
                       /\ answered[t] \in Nat /\ answered[t] <= started[t]
  BY <1>0, Durations DEF RequestsTyped, Fetched, Tick
<1>2. \A t \in Tasks :
         /\ started'[t] = (IF pc[t] = "idle" THEN 0 ELSE started[t] + 1)
         /\ answered'[t] = (IF pc[t] \in {"store", "remember"} THEN answered[t] + 1 ELSE answered[t])
  BY DEF Tick
<1>3. RequestsTyped'
  <2>1. \A t \in Tasks : started'[t] \in 0..MaxDelay /\ answered'[t] \in 0..MaxDelay
    BY <1>1, <1>2, Durations
  <2>2. started' \in [Tasks -> 0..MaxDelay] /\ answered' \in [Tasks -> 0..MaxDelay]
    BY <2>1 DEF Tick
  <2>. QED
    BY <1>0, <2>2 DEF RequestsTyped
<1>4. \A d \in Digests :
         /\ offered[d] \in Nat /\ offered'[d] \in 0..Old
         /\ offered'[d] <= offered[d] + 1
  BY <1>0, Durations DEF Tick, Older, Lesser
<1>5. \A g \in Tags :
         /\ age[g] \in Nat /\ age'[g] \in 0..Old /\ age'[g] = Lesser(age[g] + 1, Old)
         /\ forced[g] \in Nat /\ forced'[g] \in 0..Old /\ forced'[g] = Lesser(forced[g] + 1, Old)
  BY <1>0, Durations DEF SharedTyped, Tick, Older, Lesser
<1>6. \A g \in Tags :
         /\ last_refresh[g] \in Nat /\ last_refresh'[g] \in 0..Cold
         /\ last_refresh'[g] = Lesser(last_refresh[g] + 1, Cold)
         /\ accepted[g] \in 0..Cooldown /\ accepted'[g] \in 0..Cooldown
         /\ accepted'[g] = Lesser(accepted[g] + 1, Cooldown)
  BY <1>0, Durations DEF SharedTyped, Tick, Lesser
<1>7. /\ offered' \in [Digests -> 0..Old] /\ age' \in [Tags -> 0..Old] /\ forced' \in [Tags -> 0..Old]
      /\ last_refresh' \in [Tags -> 0..Cold] /\ accepted' \in [Tags -> 0..Cooldown]
  BY <1>4, <1>5, <1>6 DEF Tick
<1>8. TypeOK'
  <2>1. SharedTyped' /\ \A t \in Tasks : Holds(t)'
    BY <1>0, <1>7 DEF SharedTyped, Holds
  <2>. QED
    BY <1>0, <1>3, <1>7, <2>1, TypedPrime
<1>9. OfferedNow'
  BY <1>0 DEF Tick, OfferedNow, NamedIn, Offers
<1>10. ASSUME NEW t \in Tasks PROVE Fetched(t)'
  <2>1. pc[t] \in Holding => found[t] \in Digests
    BY <1>0 DEF Holds
  <2>2. pc[t] \in {"store", "remember"} => offered'[found[t]] <= answered'[t]
    BY <1>0, <1>1, <1>2, <1>4, <2>1, Durations DEF Fetched
  <2>3. pc[t] = "read" => offered'[found[t]] - started'[t] < Ttl
    BY <1>0, <1>1, <1>2, <1>4, <2>1, Durations DEF Fetched
  <2>4. /\ answered'[t] <= started'[t]
        /\ pc[t] \notin {"store", "remember", "respond"} => answered'[t] = 0
    BY <1>0, <1>1, <1>2 DEF Fetched
  <2>. QED
    BY <1>0, <2>2, <2>3, <2>4 DEF Fetched
<1>11. ASSUME NEW d \in Digests, NEW n \in Nat, offered[d] <= n PROVE offered'[d] <= Lesser(n + 1, Old)
  BY <1>4, <1>11, Durations DEF Lesser
<1>12. AgeHonest' /\ RefreshSticks'
  BY <1>0, <1>5, <1>11 DEF IInv, SharedTyped, AgeHonest, RefreshSticks
<1>13. GateRemembers'
  <2>. SUFFICES ASSUME NEW g \in Tags PROVE Lesser(last_refresh'[g], Cooldown) <= accepted'[g]
    BY DEF GateRemembers
  <2>1. Lesser(last_refresh[g], Cooldown) <= accepted[g]
    BY DEF IInv, GateRemembers
  <2>. QED
    BY <1>6, <2>1, Durations DEF Lesser
<1>. QED
  BY <1>8, <1>9, <1>10, <1>12, <1>13 DEF IInv

LEMMA NextInv == IInv /\ [Next]_vars => IInv'
<1>. SUFFICES ASSUME IInv, [Next]_vars PROVE IInv'
  OBVIOUS
<1>. /\ TypeOK /\ RequestsTyped /\ SharedTyped /\ NoDigest \notin Digests
     /\ offers \in [Tags -> Offers] /\ offered \in [Digests -> 0..Old]
     /\ \A t \in Tasks : Holds(t) /\ Fetched(t)
  BY Typed, NoDigestFresh DEF IInv
<1>1. ASSUME NEW t \in Tasks, NEW g \in Tags, NEW accept \in SUBSET MediaTypes,
             NEW force \in BOOLEAN, NEW l \in {"fresh", "acquire"}, Start(t, g, accept, force, l)
      PROVE  IInv'
  <2>1. pc'[t] = l /\ started'[t] = started[t] /\ found'[t] = found[t] /\ answered'[t] = answered[t]
        /\ pc[t] = "idle" /\ UNCHANGED <<upstream, store, tag_state, forced, gate>>
    BY <1>1 DEF Start, Goto, RequestsTyped
  <2>2. StepOf(t)
    BY <1>1 DEF Start, Goto, RequestsTyped, StepOf
  <2>3. Fetched(t)' /\ Holds(t)'
    BY <2>1 DEF Fetched, Holds
  <2>. QED
    BY <2>1, <2>2, <2>3, RequestOnly DEF SharedTyped
<1>2. ASSUME NEW t \in Tasks, Fresh(t) PROVE IInv'
  <2>. DEFINE g == job[t].tag
  <2>0. pc[t] = "fresh" /\ g \in Tags /\ UNCHANGED <<upstream, store, tag_state, forced, gate>>
    BY <1>2 DEF Fresh, RequestsTyped
  <2>1. CASE /\ digest[g] # NoDigest /\ age[g] - started[t] < Ttl /\ Goto(t, "read")
             /\ found' = [found EXCEPT ![t] = digest[g]] /\ UNCHANGED <<job, started, answered>>
    <3>1. digest[g] \in Digests /\ age[g] \in Nat /\ offered[digest[g]] <= age[g]
          /\ offered[digest[g]] \in Nat /\ started[t] \in Nat
      BY <2>0, <2>1, Durations DEF IInv, AgeHonest, SharedTyped, RequestsTyped
    <3>2. /\ StepOf(t) /\ pc'[t] = "read" /\ job'[t] = job[t] /\ started'[t] = started[t]
          /\ found'[t] = digest[g] /\ answered'[t] = answered[t]
      BY <2>0, <2>1, <3>1, Forms
    <3>3. offered[digest[g]] - started[t] < Ttl
      BY <2>1, <3>1, Durations
    <3>4. Fetched(t)' /\ Holds(t)'
      BY <2>0, <3>1, <3>2, <3>3 DEF Fetched, Holds
    <3>. QED
      BY <2>0, <3>2, <3>4, RequestOnly DEF SharedTyped
  <2>2. CASE GoOn(t, "fetch")
    <3>1. /\ StepOf(t) /\ pc'[t] = "fetch" /\ job'[t] = job[t] /\ started'[t] = started[t]
          /\ found'[t] = found[t] /\ answered'[t] = answered[t]
      BY <2>0, <2>2, Forms
    <3>2. Fetched(t)' /\ Holds(t)'
      BY <2>0, <3>1 DEF Fetched, Holds
    <3>. QED
      BY <2>0, <3>1, <3>2, RequestOnly DEF SharedTyped
  <2>. QED
    BY <1>2, <2>1, <2>2 DEF Fresh
<1>3. ASSUME NEW t \in Tasks, Read(t) PROVE IInv'
  <2>0. pc[t] = "read" /\ UNCHANGED <<upstream, store, tag_state, forced, gate>>
    BY <1>3 DEF Read
  <2>1. CASE Acceptable(found[t], job[t].accept) /\ GoOn(t, "respond")
    <3>1. /\ StepOf(t) /\ pc'[t] = "respond" /\ job'[t] = job[t] /\ started'[t] = started[t]
          /\ found'[t] = found[t] /\ answered'[t] = answered[t]
      BY <2>0, <2>1, Forms
    <3>2. Fetched(t)' /\ Holds(t)'
      BY <2>0, <2>1, <3>1 DEF Fetched, Holds
    <3>. QED
      BY <2>0, <3>1, <3>2, RequestOnly DEF SharedTyped
  <2>2. CASE /\ Goto(t, "fetch") /\ found' = [found EXCEPT ![t] = NoDigest]
             /\ UNCHANGED <<job, started, answered>>
    <3>1. /\ StepOf(t) /\ pc'[t] = "fetch" /\ job'[t] = job[t] /\ started'[t] = started[t]
          /\ found'[t] = NoDigest /\ answered'[t] = answered[t]
      BY <2>0, <2>2, Forms
    <3>2. Fetched(t)' /\ Holds(t)'
      BY <2>0, <3>1 DEF Fetched, Holds
    <3>. QED
      BY <2>0, <3>1, <3>2, RequestOnly DEF SharedTyped
  <2>. QED
    BY <1>3, <2>1, <2>2 DEF Read
<1>4. ASSUME NEW t \in Tasks, NEW d \in Digests, FetchOk(t, d) PROVE IInv'
  <2>0. /\ pc[t] = "fetch" /\ Acceptable(d, job[t].accept) /\ d \in NamedIn(offers)
        /\ UNCHANGED <<upstream, store, tag_state, forced, gate>>
    BY <1>4 DEF FetchOk, NamedIn, RequestsTyped
  <2>1. /\ StepOf(t) /\ pc'[t] = "store" /\ job'[t] = job[t] /\ started'[t] = started[t]
        /\ found'[t] = d /\ answered'[t] = answered[t]
    BY <1>4, <2>0, Forms DEF FetchOk
  <2>2. offered[d] = 0
    BY <2>0 DEF IInv, OfferedNow
  <2>3. Fetched(t)' /\ Holds(t)'
    BY <2>0, <2>1, <2>2 DEF Fetched, Holds
  <2>. QED
    BY <2>0, <2>1, <2>3, RequestOnly DEF SharedTyped
<1>5. ASSUME NEW t \in Tasks, FetchErr(t) PROVE IInv'
  <2>0. pc[t] = "fetch" /\ UNCHANGED <<upstream, store, tag_state, forced, gate>>
    BY <1>5 DEF FetchErr
  <2>1. CASE GoOn(t, "stale")
    <3>1. /\ StepOf(t) /\ pc'[t] = "stale" /\ job'[t] = job[t] /\ started'[t] = started[t]
          /\ found'[t] = found[t] /\ answered'[t] = answered[t]
      BY <2>0, <2>1, Forms
    <3>2. Fetched(t)' /\ Holds(t)'
      BY <2>0, <3>1 DEF Fetched, Holds
    <3>. QED
      BY <2>0, <3>1, <3>2, RequestOnly DEF SharedTyped
  <2>. QED
    BY <1>5, <2>0, <2>1, EndKeeps DEF FetchErr, SharedTyped
<1>6. ASSUME NEW t \in Tasks, Store(t) PROVE IInv'
  <2>0. /\ pc[t] = "store" /\ found[t] \in Digests /\ store' \subseteq Digests
        /\ UNCHANGED <<upstream, tag_state, forced, gate>>
    BY <1>6 DEF Store, Holds, SharedTyped
  <2>1. CASE GoOn(t, "remember")
    <3>1. /\ StepOf(t) /\ pc'[t] = "remember" /\ job'[t] = job[t] /\ started'[t] = started[t]
          /\ found'[t] = found[t] /\ answered'[t] = answered[t]
      BY <2>0, <2>1, Forms
    <3>2. Fetched(t)' /\ Holds(t)'
      BY <2>0, <3>1 DEF Fetched, Holds
    <3>. QED
      BY <2>0, <3>1, <3>2, RequestOnly
  <2>. QED
    BY <1>6, <2>0, <2>1, EndKeeps DEF Store
<1>7. ASSUME NEW t \in Tasks, Stale(t) PROVE IInv'
  <2>0. /\ pc[t] = "stale" /\ digest[job[t].tag] \in Digests \union {NoDigest}
        /\ UNCHANGED <<upstream, store, tag_state, forced, gate>>
    BY <1>7 DEF Stale, RequestsTyped, SharedTyped
  <2>1. CASE /\ digest[job[t].tag] # NoDigest /\ Goto(t, "stale_read")
             /\ found' = [found EXCEPT ![t] = digest[job[t].tag]]
             /\ UNCHANGED <<job, started, answered>>
    <3>1. /\ StepOf(t) /\ pc'[t] = "stale_read" /\ job'[t] = job[t] /\ started'[t] = started[t]
          /\ found'[t] = digest[job[t].tag] /\ answered'[t] = answered[t]
      BY <2>0, <2>1, Forms
    <3>2. Fetched(t)' /\ Holds(t)'
      BY <2>0, <2>1, <3>1 DEF Fetched, Holds
    <3>. QED
      BY <2>0, <3>1, <3>2, RequestOnly DEF SharedTyped
  <2>. QED
    BY <1>7, <2>0, <2>1, EndKeeps DEF Stale, SharedTyped
<1>8. ASSUME NEW t \in Tasks, StaleRead(t) PROVE IInv'
  <2>0. pc[t] = "stale_read" /\ UNCHANGED <<upstream, store, tag_state, forced, gate>>
    BY <1>8 DEF StaleRead
  <2>1. CASE Acceptable(found[t], job[t].accept) /\ GoOn(t, "respond")
    <3>1. /\ StepOf(t) /\ pc'[t] = "respond" /\ job'[t] = job[t] /\ started'[t] = started[t]
          /\ found'[t] = found[t] /\ answered'[t] = answered[t]
      BY <2>0, <2>1, Forms
    <3>2. Fetched(t)' /\ Holds(t)'
      BY <2>0, <2>1, <3>1 DEF Fetched, Holds
    <3>. QED
      BY <2>0, <3>1, <3>2, RequestOnly DEF SharedTyped
  <2>. QED
    BY <1>8, <2>0, <2>1, EndKeeps DEF StaleRead, SharedTyped
<1>9. ASSUME NEW t \in Tasks, Respond(t) \/ Cancel(t) PROVE IInv'
  <2>1. /\ End(t) /\ UNCHANGED <<upstream, tag_state, forced, gate>>
        /\ store' \subseteq Digests
    BY <1>9 DEF Respond, Cancel, Holds, SharedTyped
  <2>. QED
    BY <2>1, EndKeeps
<1>10. ASSUME NEW ago \in 0..MaxDelay, Sweep(ago) PROVE IInv'
  <2>0. /\ UNCHANGED <<upstream, request, store, tag_state, forced, accepted>>
        /\ last_refresh' = Retained(ago)
    BY <1>10 DEF Sweep
  <2>1. Retained(ago) \in [Tags -> 0..Cold] /\ \A g \in Tags : Lesser(Retained(ago)[g], Cooldown) <= accepted[g]
    BY RetainedFacts, TagsType
  <2>2. TypeOK' /\ GateRemembers'
    BY <2>0, <2>1, TypedPrime DEF RequestsTyped, SharedTyped, Holds, GateRemembers
  <2>3. OfferedNow' /\ AgeHonest' /\ RefreshSticks' /\ \A t \in Tasks : Fetched(t)'
    BY <2>0 DEF IInv, OfferedNow, NamedIn, AgeHonest, RefreshSticks, Fetched
  <2>. QED
    BY <2>2, <2>3 DEF IInv
<1>11. ASSUME UNCHANGED <<upstream, request, tag_state, forced, gate>>, store' \subseteq Digests
       PROVE  IInv'
  <2>1. TypeOK'
    BY <1>11, TypedPrime DEF RequestsTyped, SharedTyped, Holds
  <2>2. OfferedNow' /\ AgeHonest' /\ GateRemembers' /\ RefreshSticks' /\ \A t \in Tasks : Fetched(t)'
    BY <1>11 DEF IInv, OfferedNow, NamedIn, AgeHonest, GateRemembers, RefreshSticks, Fetched
  <2>. QED
    BY <2>1, <2>2 DEF IInv
<1>12. ASSUME NEW d \in Digests, Remove(d) PROVE IInv'
  BY <1>11, <1>12 DEF Remove, SharedTyped
<1>13. CASE UNCHANGED vars
  BY <1>11, <1>13 DEF vars, SharedTyped
<1>14. ASSUME NEW t \in Tasks, Advance(t) PROVE IInv'
  BY <1>14, <1>2, <1>3, <1>4, <1>5, <1>6, <1>7, <1>8, <1>9, AcquireKeeps, RememberKeeps DEF Advance
<1>15. ASSUME NEW t \in Tasks, NEW g \in Tags, NEW accept \in Accepts, Request(t, g, accept)
       PROVE  IInv'
  BY <1>1, <1>15, AcceptsType DEF Request
<1>16. ASSUME NEW t \in Tasks, NEW g \in Tags, Refresh(t, g) PROVE IInv'
  BY <1>1, <1>16 DEF Refresh
<1>. QED
  BY <1>9, <1>10, <1>12, <1>13, <1>14, <1>15, <1>16, MoveKeeps, TickKeeps DEF Next

LEMMA Invariant == Spec => []IInv
BY InitInv, NextInv, PTL DEF Spec

(* Every variable stays in its domain; a request has a digest exactly while it *)
(* is about to read, to store, to remember or to answer with it.               *)
THEOREM TypeCorrect == Spec => []TypeOK
<1>1. IInv => TypeOK
  BY DEF IInv
<1>. QED
  BY <1>1, Invariant, PTL

(* REQ-0011: what is answered without asking the upstream was named there less *)
(* than the validity period before the client asked.                           *)
THEOREM HitsAreFresh == Spec => []HitsAreRecent
<1>1. IInv => HitsAreRecent
  BY DEF IInv, Fetched, HitsAreRecent
<1>. QED
  BY <1>1, Invariant, PTL

(* REQ-0033: fresh or stale, a client gets a manifest of a type it accepts.    *)
THEOREM AnswersSuit == Spec => []AnswersAcceptable
<1>1. IInv => AnswersAcceptable
  BY DEF IInv, Fetched, AnswersAcceptable
<1>. QED
  BY <1>1, Invariant, PTL

(* REQ-0017: what is kept for a tag is nothing the upstream had ceased to name *)
(* when it answered the forced refresh, until an older answer is remembered.   *)
THEOREM RefreshesStick == Spec => []RefreshSticks
<1>1. IInv => RefreshSticks
  BY DEF IInv
<1>. QED
  BY <1>1, Invariant, PTL

(* REQ-0045: RefreshGate lets no refresh of an image through before the        *)
(* cooldown since the one before has run out, in whatever order requests come  *)
(* by their time and by the lock.                                              *)
THEOREM RefreshesKeptApart == Spec => RefreshesApart
<1>1. ASSUME IInv, [Next]_vars
      PROVE  [\A t \in Tasks :
                 pc[t] = "acquire" /\ pc'[t] = "fetch" => accepted[job[t].tag] >= Cooldown]_vars
  <2>. SUFFICES ASSUME NEW t \in Tasks, pc[t] = "acquire", pc'[t] = "fetch"
                PROVE  accepted[job[t].tag] >= Cooldown
    OBVIOUS
  <2>. RequestsTyped /\ job[t].tag \in Tags /\ started[t] \in 0..MaxDelay
    BY <1>1, Typed DEF IInv, RequestsTyped
  <2>2. ASSUME NEW u \in Tasks, try_acquire(u) PROVE accepted[job[t].tag] >= Cooldown
    <3>1. u = t
      BY <2>2 DEF try_acquire, End, GoOn, Goto, RequestsTyped
    <3>2. ~End(t)
      BY DEF End, Goto, RequestsTyped
    <3>3. ~(Retained(started[t])[job[t].tag] - started[t] < Cooldown)
      BY <2>2, <3>1, <3>2 DEF try_acquire
    <3>4. Retained(started[t])[job[t].tag] \in Nat /\ started[t] \in Nat
      BY <1>1, RetainedFacts, Durations
    <3>. QED
      BY <1>1, <3>3, <3>4, RetainedFacts, Durations
  <2>3. ASSUME NEW u \in Tasks, Advance(u) \/ Cancel(u), ~try_acquire(u) PROVE FALSE
    BY <2>3 DEF Advance, Cancel, Fresh, Read, FetchOk, FetchErr, Store, Remember, Insert, Stale,
                StaleRead, Respond, End, GoOn, Goto, RequestsTyped
  <2>4. ASSUME NEW u \in Tasks, NEW g \in Tags, NEW accept \in Accepts, Request(u, g, accept)
        PROVE  FALSE
    BY <2>4 DEF Request, Start, Goto, RequestsTyped
  <2>5. ASSUME NEW u \in Tasks, NEW g \in Tags, Refresh(u, g) PROVE FALSE
    BY <2>5 DEF Refresh, Start, Goto, RequestsTyped
  <2>6. pc' # pc
    OBVIOUS
  <2>. QED
    BY <1>1, <2>2, <2>3, <2>4, <2>5, <2>6 DEF Next, vars, Sweep, Remove, Move, Tick
<1>. QED
  BY <1>1, Invariant, PTL DEF Spec, RefreshesApart
=============================================================================
