-------------------------- MODULE UpstreamAuthProofs --------------------------
(* Theorems about UpstreamAuth, for every set of tasks, repositories, realms   *)
(* and setups.                                                                 *)
(*                                                                             *)
(* What is said of a request at its end follows from where it has been: the    *)
(* anonymous token is always asked for first, so behind it the repository has  *)
(* been public or the issuer has misled the request (Vouched), and each error  *)
(* has one kind of cause (Blamed).  Both need that the shape that is known is  *)
(* the shape the upstream has.                                                 *)
EXTENDS UpstreamAuth, TLAPS

Errors == Denials \union {"none", "probe", "pull refused", "pull failed"}

(* Shapes are learnt from the upstream, and kept.                              *)
ShapeLearnt == shape \in {NoShape, setup.demand}

(* While the repository of a request is public, the request has seen it so.    *)
Noticed(t) == pc[t] # "idle" /\ repo[t] \in public => t \in seenPublic

(* Beyond the anonymous token the repository has been public, or the issuer    *)
(* said so without meaning it; an upstream without tokens shows it by itself.  *)
Vouched(t) ==
    /\ pc[t] \in {"credentials", "register", "store", "ok"} =>
          t \in seenPublic \union misled
    /\ pc[t] = "pull" => shape = Anonymous \/ t \in seenPublic \union misled
    /\ pc[t] = "credentials" => Upstream.credentials

Reason(t) ==
    \/ t \in denied
    \/ t \in troubled /\ err[t] \in {"authentication required", "untrusted realm"}

(* What is not taken for a denial: an outage, or a refusal of an unknown kind. *)
Excused(t) == t \in troubled \/ (t \in denied /\ err[t] = "pull refused")

(* Each error has its cause, and each end follows from the error.              *)
Blamed(t) ==
    /\ pc[t] = "failed" => err[t] \in Denials \/ Excused(t)
    /\ pc[t] = "failed" /\ err[t] \in Denials /\ Usable => Reason(t)
    /\ pc[t] = "stale" => Excused(t)
    /\ pc[t] = "refused" /\ Usable => Reason(t)

IInv ==
    /\ TypeOK
    /\ ShapeLearnt
    /\ \A t \in Tasks : Noticed(t) /\ Vouched(t) /\ Blamed(t)

USE DEF world, client, request, history, Upstream, Asking, PCs, Denials, Errors

-----------------------------------------------------------------------------
(* A step of request t that leaves the other requests and the world alone.     *)
StepOf(t) ==
    /\ UNCHANGED <<setup, public>>
    /\ pc' \in [Tasks -> PCs]
    /\ repo' \in [Tasks -> Repositories \union {NoRepository}]
    /\ err' \in [Tasks -> Errors]
    /\ token' \in [Tasks -> {"none", "good", "empty"}]
    /\ seenPublic' \subseteq Tasks /\ misled' \subseteq Tasks
    /\ denied' \subseteq Tasks /\ troubled' \subseteq Tasks
    /\ \A u \in Tasks \ {t} :
          /\ pc'[u] = pc[u] /\ repo'[u] = repo[u] /\ err'[u] = err[u]
          /\ u \in seenPublic' <=> u \in seenPublic
          /\ u \in misled' <=> u \in misled
          /\ u \in denied' <=> u \in denied
          /\ u \in troubled' <=> u \in troubled

(* What may become of the client and of what is stored.                        *)
ClientKept ==
    /\ shape' \in {shape, setup.demand} /\ (shape # NoShape => shape' = shape)
    /\ registered' \subseteq Repositories
    /\ stored' \subseteq Repositories

(* What is to be shown of the request that takes the step.                     *)
Placed(t) ==
    /\ pc[t] = "idle" <=> repo[t] = NoRepository
    /\ pc[t] \in {"token", "credentials", "register"} => shape \in Realms /\ Trusted(shape)

Sound(t) == Placed(t) /\ Noticed(t) /\ Vouched(t) /\ Blamed(t)

LEMMA DemandType == TypeOK => setup.demand \in Realms \union {Anonymous}
BY SetupsType DEF TypeOK

LEMMA Others ==
    ASSUME IInv, NEW t \in Tasks, StepOf(t), ClientKept, Sound(t)'
    PROVE  IInv'
<1>1. ShapeLearnt'
  BY DEF IInv, ShapeLearnt, StepOf, ClientKept
<1>2. ASSUME NEW u \in Tasks, u # t PROVE Sound(u)'
  <2>0. u \in Tasks \ {t}
    BY <1>2
  <2>1. /\ pc'[u] = pc[u] /\ repo'[u] = repo[u] /\ err'[u] = err[u]
        /\ u \in seenPublic' <=> u \in seenPublic
        /\ u \in misled' <=> u \in misled
        /\ u \in denied' <=> u \in denied
        /\ u \in troubled' <=> u \in troubled
        /\ setup' = setup /\ public' = public
    BY <2>0 DEF StepOf
  <2>2. /\ shape # NoShape => shape' = shape
        /\ NoShape \notin Realms /\ Anonymous # NoShape
    BY MarkersFresh DEF ClientKept
  <2>3. Placed(u) /\ Noticed(u) /\ Vouched(u) /\ Blamed(u)
    BY DEF IInv, TypeOK, Placed
  <2>4. Placed(u)'
    BY <2>1, <2>2, <2>3 DEF Placed, Trusted
  <2>5. Noticed(u)'
    BY <2>1, <2>3 DEF Noticed
  <2>6. Vouched(u)'
    BY <2>1, <2>2, <2>3 DEF Vouched
  <2>7. Blamed(u)'
    BY <2>1, <2>3 DEF Blamed, Excused, Reason, Usable, Trusted, UsesHttps
  <2>. QED
    BY <2>4, <2>5, <2>6, <2>7 DEF Sound
<1>3. \A u \in Tasks : Sound(u)'
  BY <1>2
<1>4. shape' \in Realms \union {Anonymous, NoShape}
  BY DemandType DEF IInv, TypeOK, ClientKept
<1>5. TypeOK'
  BY <1>3, <1>4 DEF IInv, TypeOK, StepOf, ClientKept, Sound, Placed
<1>. QED
  BY <1>1, <1>3, <1>5 DEF IInv, Sound

(* The kinds of steps: going on, failing for trouble or by a denial, returning. *)
LEMMA Forms ==
    ASSUME TypeOK, NEW t \in Tasks, UNCHANGED world
    PROVE  /\ \A l \in PCs : Goto(t, l) /\ UNCHANGED history =>
                 /\ StepOf(t) /\ pc'[t] = l /\ repo'[t] = repo[t] /\ err'[t] = err[t]
           /\ \A l \in PCs : Leave(t, l) /\ UNCHANGED <<err, history>> =>
                 /\ StepOf(t) /\ pc'[t] = l /\ repo'[t] = repo[t] /\ err'[t] = err[t]
           /\ \A l \in PCs : \A k \in {"good", "empty"} :
                 /\ Got(t, k, l)
                 /\ misled' \in {misled, misled \union {t}}
                 /\ UNCHANGED <<seenPublic, denied, troubled>>
                 => StepOf(t) /\ pc'[t] = l /\ repo'[t] = repo[t] /\ err'[t] = err[t]
           /\ \A e \in Errors :
                 Fail(t, e) /\ UNCHANGED history =>
                    /\ StepOf(t) /\ pc'[t] = "failed" /\ repo'[t] = repo[t] /\ err'[t] = e
           /\ \A e \in Errors :
                 Trouble(t, e) =>
                    /\ StepOf(t) /\ pc'[t] = "failed" /\ repo'[t] = repo[t] /\ err'[t] = e
                    /\ t \in troubled' /\ UNCHANGED <<seenPublic, misled>>
           /\ \A e \in Errors :
                 Deny(t, e) =>
                    /\ StepOf(t) /\ pc'[t] = "failed" /\ repo'[t] = repo[t] /\ err'[t] = e
                    /\ t \in denied' /\ UNCHANGED <<seenPublic, misled>>
           /\ Return(t) => StepOf(t) /\ pc'[t] = "idle" /\ repo'[t] = NoRepository
<1>1. ASSUME NEW l \in PCs, Goto(t, l), UNCHANGED history
      PROVE  StepOf(t) /\ pc'[t] = l /\ repo'[t] = repo[t] /\ err'[t] = err[t]
  BY <1>1 DEF TypeOK, Goto, StepOf
<1>2. ASSUME NEW l \in PCs, Leave(t, l), UNCHANGED <<err, history>>
      PROVE  StepOf(t) /\ pc'[t] = l /\ repo'[t] = repo[t] /\ err'[t] = err[t]
  BY <1>2 DEF TypeOK, Leave, StepOf
<1>3. ASSUME NEW l \in PCs, NEW k \in {"good", "empty"}, Got(t, k, l),
             misled' \in {misled, misled \union {t}}, UNCHANGED <<seenPublic, denied, troubled>>
      PROVE  StepOf(t) /\ pc'[t] = l /\ repo'[t] = repo[t] /\ err'[t] = err[t]
  BY <1>3 DEF TypeOK, Got, StepOf
<1>4. ASSUME NEW e \in Errors, Fail(t, e), UNCHANGED <<seenPublic, misled>>,
             denied' \in {denied, denied \union {t}}, troubled' \in {troubled, troubled \union {t}}
      PROVE  StepOf(t) /\ pc'[t] = "failed" /\ repo'[t] = repo[t] /\ err'[t] = e
  BY <1>4 DEF TypeOK, Fail, Leave, StepOf
<1>5. ASSUME Return(t) PROVE StepOf(t) /\ pc'[t] = "idle" /\ repo'[t] = NoRepository
  BY <1>5 DEF TypeOK, Return, StepOf
<1>. QED
  BY <1>1, <1>2, <1>3, <1>4, <1>5 DEF Trouble, Deny

(* A request that has returned claims nothing.                                 *)
LEMMA ReturnSound ==
    ASSUME NEW t \in Tasks, pc'[t] = "idle", repo'[t] = NoRepository
    PROVE  Sound(t)'
BY DEF Sound, Placed, Noticed, Vouched, Blamed

-----------------------------------------------------------------------------
(* The steps of a request that can fail or be denied.                          *)
LEMMA FollowSound ==
    ASSUME IInv, NEW t \in Tasks, pc[t] \in {"shape", "probe"},
           UNCHANGED <<world, history, stored, registered>>,
           shape' = setup.demand, ClientKept,
           Follow(t, setup.demand)
    PROVE  IInv'
<1>0. /\ TypeOK /\ Placed(t) /\ Noticed(t) /\ repo[t] # NoRepository
      /\ setup' = setup /\ public' = public /\ UNCHANGED history
      /\ setup.demand \in Realms \union {Anonymous} /\ Anonymous \notin Realms
  BY DemandType, MarkersFresh DEF IInv, TypeOK, Placed
<1>1. CASE setup.demand = Anonymous
  <2>1. StepOf(t) /\ pc'[t] = "pull" /\ repo'[t] = repo[t] /\ err'[t] = err[t]
    BY <1>0, <1>1, Forms DEF Follow
  <2>. Sound(t)'
    BY <1>0, <1>1, <2>1 DEF Sound, Placed, Noticed, Vouched, Blamed
  <2>. QED
    BY <2>1, Others
<1>2. CASE setup.demand # Anonymous /\ Trusted(setup.demand)
  <2>1. StepOf(t) /\ pc'[t] = "token" /\ repo'[t] = repo[t] /\ err'[t] = err[t]
    BY <1>0, <1>2, Forms DEF Follow
  <2>. Sound(t)'
    BY <1>0, <1>2, <2>1 DEF Sound, Placed, Trusted, Noticed, Vouched, Blamed
  <2>. QED
    BY <2>1, Others
<1>3. CASE setup.demand # Anonymous /\ ~Trusted(setup.demand)
  <2>1. StepOf(t) /\ pc'[t] = "failed" /\ repo'[t] = repo[t] /\ err'[t] = "untrusted realm"
    BY <1>0, <1>3, Forms DEF Follow
  <2>2. ~Usable'
    BY <1>0, <1>3 DEF Usable, Trusted
  <2>. Sound(t)'
    BY <1>0, <2>1, <2>2 DEF Sound, Placed, Noticed, Vouched, Blamed
  <2>. QED
    BY <2>1, Others
<1>. QED
  BY <1>1, <1>2, <1>3

LEMMA TroubleSound ==
    ASSUME IInv, NEW t \in Tasks, pc[t] # "idle",
           NEW e \in {"probe", "pull failed", "authentication required", "untrusted realm"},
           Trouble(t, e), UNCHANGED world, ClientKept
    PROVE  IInv'
<1>1. /\ StepOf(t) /\ pc'[t] = "failed" /\ repo'[t] = repo[t] /\ err'[t] = e
      /\ t \in troubled' /\ UNCHANGED <<seenPublic, misled>>
  BY Forms DEF IInv
<1>2. Placed(t) /\ Noticed(t) /\ public' = public
  BY DEF IInv, TypeOK, Placed
<1>3. Sound(t)'
  BY <1>1, <1>2 DEF Sound, Placed, Noticed, Vouched, Blamed, Excused, Reason
<1>. QED
  BY <1>1, <1>3, Others

LEMMA DenySound ==
    ASSUME IInv, NEW t \in Tasks, pc[t] # "idle",
           NEW e \in Denials \union {"pull refused"},
           Deny(t, e), UNCHANGED world, ClientKept
    PROVE  IInv'
<1>1. /\ StepOf(t) /\ pc'[t] = "failed" /\ repo'[t] = repo[t] /\ err'[t] = e
      /\ t \in denied' /\ UNCHANGED <<seenPublic, misled>>
  BY Forms DEF IInv
<1>2. Placed(t) /\ Noticed(t) /\ public' = public
  BY DEF IInv, TypeOK, Placed
<1>3. Sound(t)'
  BY <1>1, <1>2 DEF Sound, Placed, Noticed, Vouched, Blamed, Excused, Reason
<1>. QED
  BY <1>1, <1>3, Others

LEMMA ReturnKeeps ==
    ASSUME IInv, NEW t \in Tasks, Return(t), UNCHANGED <<world, client, stored>>
    PROVE  IInv'
<1>1. StepOf(t) /\ Sound(t)'
  BY Forms, ReturnSound DEF IInv
<1>2. ClientKept
  BY DEF IInv, TypeOK, ClientKept
<1>. QED
  BY <1>1, <1>2, Others

LEMMA InitInv == Init => IInv
BY DEF Init, IInv, TypeOK, ShapeLearnt, Noticed, Vouched, Blamed

LEMMA NextInv == IInv /\ [Next]_vars => IInv'
<1>. SUFFICES ASSUME IInv, [Next]_vars PROVE IInv'
  OBVIOUS
<1>. TypeOK /\ ShapeLearnt /\ (\A t \in Tasks : Sound(t))
  BY DEF IInv, TypeOK, Sound, Placed
<1>a. UNCHANGED client => UNCHANGED <<shape, registered>>
  OBVIOUS
<1>b. UNCHANGED <<client, stored>> => ClientKept
  BY DEF TypeOK, ClientKept
<1>1. ASSUME NEW t \in Tasks, NEW r \in Repositories, Request(t, r) PROVE IInv'
  <2>1. StepOf(t) /\ pc'[t] = "shape" /\ repo'[t] = r
    BY <1>1 DEF Request, TypeOK, StepOf
  <2>2. Sound(t)'
    <3>1. Placed(t)'
      BY <2>1, MarkersFresh DEF Placed
    <3>2. Noticed(t)'
      BY <1>1, <2>1 DEF Request, Noticed
    <3>. QED
      BY <2>1, <3>1, <3>2 DEF Sound, Vouched, Blamed
  <2>. QED
    BY <1>1, <1>b, <2>1, <2>2, Others DEF Request
<1>2. ASSUME NEW t \in Tasks, KnownShape(t) PROVE IInv'
  <2>1. CASE shape = NoShape
    <3>1. StepOf(t) /\ pc'[t] = "probe" /\ repo'[t] = repo[t] /\ err'[t] = err[t]
      BY <1>2, <2>1, Forms DEF KnownShape
    <3>2. Sound(t)'
      BY <1>2, <3>1 DEF KnownShape, Sound, Placed, Noticed, Vouched, Blamed
    <3>. QED
      BY <1>2, <1>b, <3>1, <3>2, Others DEF KnownShape
  <2>2. CASE shape # NoShape
    <3>1. shape = setup.demand
      BY <2>2 DEF ShapeLearnt
    <3>. QED
      BY <1>2, <1>b, <2>2, <3>1, FollowSound DEF KnownShape
  <2>. QED
    BY <2>1, <2>2
<1>3. ASSUME NEW t \in Tasks, Probe(t) PROVE IInv'
  <2>1. CASE shape' = setup.demand /\ Follow(t, setup.demand) /\ UNCHANGED history
    <3>1. ClientKept
      BY <1>3, <2>1 DEF Probe, ShapeLearnt, ClientKept, TypeOK
    <3>. QED
      BY <1>3, <2>1, <3>1, FollowSound DEF Probe
  <2>2. CASE Trouble(t, "probe") /\ UNCHANGED shape
    BY <1>3, <1>b, <2>2, TroubleSound DEF Probe
  <2>. QED
    BY <1>3, <2>1, <2>2 DEF Probe
<1>4. ASSUME NEW t \in Tasks, AnonymousToken(t) PROVE IInv'
  <2>. DEFINE next == IF Upstream.credentials THEN "credentials" ELSE "register"
  <2>0. /\ shape \in Realms /\ Trusted(shape) /\ Noticed(t) /\ pc[t] = "token"
        /\ UNCHANGED <<setup, public, shape>>
    BY <1>4 DEF AnonymousToken, Sound, Placed
  <2>1. ASSUME NEW k \in {"good", "empty"}, Got(t, k, next),
               misled' \in {misled, misled \union {t}}, t \in seenPublic \union misled',
               UNCHANGED <<seenPublic, denied, troubled>>
        PROVE  IInv'
    <3>1. StepOf(t) /\ repo'[t] = repo[t] /\ pc'[t] = next
      BY <1>4, <2>1, Forms DEF AnonymousToken
    <3>2. repo[t] # NoRepository /\ t \in seenPublic' \union misled'
      BY <2>0, <2>1 DEF Sound, Placed
    <3>3. Sound(t)'
      BY <2>0, <2>1, <3>1, <3>2 DEF Sound, Placed, Trusted, Noticed, Vouched, Blamed
    <3>. QED
      BY <1>4, <1>b, <3>1, <3>3, Others DEF AnonymousToken
  <2>2. CASE Deny(t, "authentication required")
    BY <1>4, <1>b, <2>2, DenySound DEF AnonymousToken
  <2>3. CASE Trouble(t, "authentication required")
    BY <1>4, <1>b, <2>3, TroubleSound DEF AnonymousToken
  <2>4. CASE repo[t] \in public /\ Got(t, "good", next) /\ UNCHANGED history
    BY <2>0, <2>1, <2>4 DEF Noticed
  <2>5. CASE /\ Got(t, "empty", next) /\ misled' = misled \union {t}
             /\ UNCHANGED <<seenPublic, denied, troubled>>
    BY <2>1, <2>5
  <2>. QED
    BY <1>4, <2>2, <2>3, <2>4, <2>5 DEF AnonymousToken
<1>5. ASSUME NEW t \in Tasks, CredentialToken(t) PROVE IInv'
  <2>0. /\ Placed(t) /\ Noticed(t) /\ t \in seenPublic \union misled /\ Upstream.credentials
        /\ pc[t] = "credentials" /\ shape = setup.demand /\ shape \in Realms /\ Trusted(shape)
        /\ UNCHANGED <<setup, public, shape>>
    BY <1>5, MarkersFresh DEF CredentialToken, Sound, Placed, Vouched, ShapeLearnt
  <2>1. CASE UsesHttps(shape) /\ Got(t, "good", "register") /\ UNCHANGED history
    <3>1. StepOf(t) /\ pc'[t] = "register" /\ repo'[t] = repo[t] /\ err'[t] = err[t]
      BY <1>5, <2>1, Forms DEF CredentialToken
    <3>2. Sound(t)'
      BY <2>0, <2>1, <3>1 DEF Sound, Placed, Trusted, Noticed, Vouched, Blamed
    <3>. QED
      BY <1>5, <1>b, <3>1, <3>2, Others DEF CredentialToken
  <2>2. CASE Trouble(t, "untrusted realm")
    BY <1>5, <1>b, <2>2, TroubleSound DEF CredentialToken
  <2>3. CASE ~UsesHttps(shape) /\ Fail(t, "untrusted realm") /\ UNCHANGED history
    <3>1. StepOf(t) /\ pc'[t] = "failed" /\ repo'[t] = repo[t] /\ err'[t] = "untrusted realm"
      BY <1>5, <2>3, Forms DEF CredentialToken
    <3>2. ~Usable'
      BY <2>0, <2>3, MarkersFresh DEF Usable, UsesHttps
    <3>3. Sound(t)'
      BY <2>0, <2>3, <3>1, <3>2 DEF Sound, Placed, Noticed, Vouched, Blamed
    <3>. QED
      BY <1>5, <1>b, <3>1, <3>3, Others DEF CredentialToken
  <2>. QED
    BY <1>5, <2>1, <2>2, <2>3 DEF CredentialToken
<1>6. ASSUME NEW t \in Tasks, Register(t) PROVE IInv'
  <2>0. /\ Placed(t) /\ Noticed(t) /\ t \in seenPublic \union misled /\ pc[t] = "register"
        /\ UNCHANGED <<setup, public, shape, history>>
    BY <1>6 DEF Register, Sound, Vouched
  <2>1. StepOf(t) /\ pc'[t] = "pull" /\ repo'[t] = repo[t] /\ err'[t] = err[t]
    BY <1>6, Forms DEF Register
  <2>2. Sound(t)'
    BY <2>0, <2>1 DEF Sound, Placed, Noticed, Vouched, Blamed
  <2>3. ClientKept
    BY <1>6, <2>0 DEF Register, ClientKept, TypeOK, Placed
  <2>. QED
    BY <2>1, <2>2, <2>3, Others
<1>7. ASSUME NEW t \in Tasks, Pull(t) PROVE IInv'
  <2>0. /\ Placed(t) /\ Noticed(t) /\ Vouched(t) /\ pc[t] = "pull"
        /\ UNCHANGED <<setup, public, shape>>
    BY <1>7 DEF Pull, Sound
  <2>c. ClientKept
    BY <1>7, <2>0 DEF Pull, ClientKept, TypeOK, Placed
  <2>1. CASE Allowed(t) /\ Leave(t, "store") /\ UNCHANGED <<err, history>>
    <3>1. StepOf(t) /\ pc'[t] = "store" /\ repo'[t] = repo[t] /\ err'[t] = err[t]
      BY <2>0, <2>1, Forms
    <3>2. t \in seenPublic \union misled
      BY <2>0, <2>1 DEF Allowed, Vouched, Noticed
    <3>3. Sound(t)'
      BY <2>0, <2>1, <3>1, <3>2 DEF Sound, Placed, Noticed, Vouched, Blamed
    <3>. QED
      BY <2>c, <3>1, <3>3, Others
  <2>2. ASSUME NEW e \in {"pull denied", "pull refused"}, Deny(t, e) PROVE IInv'
    BY <2>0, <2>2, <2>c, DenySound
  <2>3. CASE Trouble(t, "pull failed")
    BY <2>0, <2>3, <2>c, TroubleSound
  <2>. QED
    BY <1>7, <2>1, <2>2, <2>3 DEF Pull
<1>8. ASSUME NEW t \in Tasks, Store(t) PROVE IInv'
  <2>1. CASE Goto(t, "ok") /\ stored' = stored \union {repo[t]} /\ UNCHANGED history
    <3>0. Placed(t) /\ Noticed(t) /\ t \in seenPublic \union misled /\ pc[t] = "store"
          /\ UNCHANGED <<setup, public, shape, history>>
      BY <1>8, <2>1 DEF Store, Sound, Vouched
    <3>1. StepOf(t) /\ pc'[t] = "ok" /\ repo'[t] = repo[t] /\ err'[t] = err[t]
      BY <3>0, <2>1, Forms
    <3>2. Sound(t)'
      BY <3>0, <3>1 DEF Sound, Placed, Noticed, Vouched, Blamed
    <3>3. ClientKept
      BY <1>8, <2>1, <3>0 DEF Store, ClientKept, TypeOK, Placed
    <3>. QED
      BY <3>1, <3>2, <3>3, Others
  <2>2. CASE Return(t) /\ UNCHANGED stored
    BY <1>8, <2>2, ReturnKeeps DEF Store
  <2>. QED
    BY <1>8, <2>1, <2>2 DEF Store
<1>9. ASSUME NEW t \in Tasks, Answer(t) PROVE IInv'
  <2>0. /\ Placed(t) /\ Noticed(t) /\ Blamed(t) /\ pc[t] = "failed"
        /\ UNCHANGED <<setup, public, shape, history>>
    BY <1>9 DEF Answer, Sound
  <2>1. PICK l \in {"refused", "stale", "error"} :
           /\ Goto(t, l)
           /\ l = "refused" => err[t] \in Denials
           /\ l = "stale" => err[t] \notin Denials
    BY <1>9 DEF Answer
  <2>2. StepOf(t) /\ pc'[t] = l /\ repo'[t] = repo[t] /\ err'[t] = err[t]
    BY <2>0, <2>1, Forms
  <2>3. Usable' = Usable
    BY <2>0 DEF Usable, Trusted, UsesHttps
  <2>4. Sound(t)'
    BY <2>0, <2>1, <2>2, <2>3 DEF Sound, Placed, Noticed, Vouched, Blamed, Excused, Reason
  <2>. QED
    BY <1>9, <1>b, <2>2, <2>4, Others DEF Answer
<1>10. ASSUME NEW t \in Tasks, Respond(t) \/ Cancel(t) PROVE IInv'
  BY <1>10, ReturnKeeps DEF Respond, Cancel
<1>11. ASSUME NEW r \in Repositories, Remove(r) PROVE IInv'
  BY <1>11 DEF Remove, IInv, TypeOK, ShapeLearnt, Trusted, Noticed, Vouched, Blamed, Excused,
               Reason, Usable, UsesHttps
<1>12. ASSUME NEW r \in Repositories, Publish(r) PROVE IInv'
  BY <1>12, MarkersFresh
     DEF Publish, IInv, TypeOK, ShapeLearnt, Trusted, Noticed, Vouched, Blamed, Excused,
         Reason, Usable, UsesHttps
<1>13. ASSUME NEW r \in Repositories, Withdraw(r) PROVE IInv'
  BY <1>13 DEF Withdraw, IInv, TypeOK, ShapeLearnt, Trusted, Noticed, Vouched, Blamed, Excused,
               Reason, Usable, UsesHttps
<1>14. CASE UNCHANGED vars
  BY <1>14 DEF vars, IInv, TypeOK, ShapeLearnt, Trusted, Noticed, Vouched, Blamed, Excused,
               Reason, Usable, UsesHttps
<1>. QED
  BY <1>1, <1>2, <1>3, <1>4, <1>5, <1>6, <1>7, <1>8, <1>9, <1>10, <1>11, <1>12, <1>13,
     <1>14 DEF Next, Advance

LEMMA Invariant == Spec => []IInv
BY InitInv, NextInv, PTL DEF Spec

(* Every variable stays in its domain, and a request that is about to send or  *)
(* register a token does so for a realm that is trusted (realm_is_trusted).    *)
THEOREM TypeCorrect == Spec => []TypeOK
<1>1. IInv => TypeOK
  BY DEF IInv
<1>. QED
  BY <1>1, Invariant, PTL

(* REQ-0013, REQ-0019, as far as the code goes: what a request stores has been *)
(* public while it ran, unless the issuer misled this very request, whatever   *)
(* tokens other requests have left and whatever the credentials open.          *)
THEOREM StoresPublicUnlessMisled == Spec => []StoredUnlessMisled
<1>1. IInv => StoredUnlessMisled
  BY DEF IInv, Vouched, StoredUnlessMisled
<1>. QED
  BY <1>1, Invariant, PTL

(* manifest.rs:471, as far as the code goes: what is fetched is handed out for *)
(* a repository public during the request, or after a misleading token, and    *)
(* what is stored also when an outage has failed the request, or a refusal     *)
(* that is not recognised.                                                     *)
THEOREM WithdrawnIsNotServed == Spec => []WithdrawnNotServed
<1>1. IInv => WithdrawnNotServed
  BY DEF IInv, Vouched, Blamed, Excused, WithdrawnNotServed
<1>. QED
  BY <1>1, Invariant, PTL

(* REQ-0014, manifest.rs:503: at a usable upstream a request is refused for a  *)
(* denial or for a token an outage kept from it, and for nothing else.         *)
THEOREM RefusalsHaveReasons == Spec => []RefusedForReason
<1>1. IInv => RefusedForReason
  BY DEF IInv, Blamed, Reason, RefusedForReason
<1>. QED
  BY <1>1, Invariant, PTL
=============================================================================
