----------------------------- MODULE UpstreamAuth -----------------------------
(* OciBlobSource::resolve_auth (src/src/cache/blob.rs) over registry_auth.rs,  *)
(* for the manifest requests of ManifestCache::get_by_tag that reach the       *)
(* upstream, up to the decision whether a failure may be answered by what is   *)
(* stored (is_authorization_denial, src/src/cache/manifest.rs).                *)
(*                                                                             *)
(* Requests for several repositories of one upstream share the OciBlobSource:  *)
(* the shape of authentication, learnt once and kept for the life of the       *)
(* process, and the oci-client, whose tokens are kept by repository.  Between  *)
(* any two steps the owner of a repository may publish or withdraw it, and the *)
(* upstream or its token server may stop working for a while.                  *)
(*                                                                             *)
(* Assumed of upstreams: what a repository holds is given to nobody without    *)
(* credentials while it is not public, nor for a token that was issued without *)
(* credentials while it was not; and an upstream does not change whether it    *)
(* wants tokens, and from where.  A lenient issuer may give a token that opens *)
(* nothing to those it would refuse.                                           *)
EXTENDS FiniteSets

CONSTANTS
    Tasks,
    Repositories,
    NoRepository,
    Realms,         \* [scheme, host, port]: where tokens may be issued
    Anonymous,      \* AuthShape::Anonymous: no tokens wanted
    NoShape,        \* the shape is not known yet
    NoHost,
    Setups          \* [upstream, demand, lenient]: the configuration of the
                    \* upstream, the shape it really has, and what issues its
                    \* tokens

UpstreamFields == {"scheme", "host", "port", "token_host", "credentials"}
RealmFields == {"scheme", "host", "port"}

ASSUME SetupsType ==
    /\ \A z \in Realms : DOMAIN z = RealmFields
    /\ \A s \in Setups :
          /\ DOMAIN s.upstream = UpstreamFields
          /\ s.upstream.credentials \in BOOLEAN
          /\ s.demand \in Realms \union {Anonymous}
          /\ s.lenient \in BOOLEAN
ASSUME MarkersFresh ==
    /\ Anonymous \notin Realms /\ NoShape \notin Realms /\ Anonymous # NoShape
    /\ NoRepository \notin Repositories

VARIABLES
    setup,
    public,     \* the repositories anyone may pull
    shape,      \* auth_shapes
    registered, \* the repositories that the token the oci-client has for them opens
    stored,     \* the repositories of which there is something in the cache
    pc,
    repo,       \* repo[t]: the repository t asks for
    token,      \* token[t]: what resolve_auth has got for t
    err,        \* err[t]: why the fetch failed
    \* history
    seenPublic, \* requests during which the repository was public at some time
    misled,     \* requests that a token was given without credentials although
                \* the repository was not public
    denied,     \* requests that the upstream or its token server has denied
    troubled    \* requests failed because something did not work

world == <<setup, public>>
client == <<shape, registered>>
request == <<pc, repo, token, err>>
history == <<seenPublic, misled, denied, troubled>>
vars == <<world, client, stored, request, history>>

Upstream == setup.upstream

(* realm_is_trusted: the configured token host on any port, else the registry  *)
(* itself, port included.                                                      *)
Trusted(realm) ==
    /\ realm.scheme = Upstream.scheme
    /\ IF Upstream.token_host # NoHost
       THEN realm.host = Upstream.token_host
       ELSE realm.host = Upstream.host /\ realm.port = Upstream.port

UsesHttps(realm) == Upstream.scheme = "https" /\ realm.scheme = "https"

Init ==
    /\ setup \in Setups
    /\ public \in SUBSET Repositories
    /\ shape = NoShape /\ registered = {}
    /\ stored = {}
    /\ pc = [t \in Tasks |-> "idle"]
    /\ repo = [t \in Tasks |-> NoRepository]
    /\ token = [t \in Tasks |-> "none"]
    /\ err = [t \in Tasks |-> "none"]
    /\ seenPublic = {} /\ misled = {} /\ denied = {} /\ troubled = {}

Goto(t, l) ==
    /\ pc' = [pc EXCEPT ![t] = l]
    /\ UNCHANGED <<repo, token, err>>

(* The token has been used, or there will be none.                             *)
Leave(t, l) ==
    /\ pc' = [pc EXCEPT ![t] = l]
    /\ token' = [token EXCEPT ![t] = "none"]
    /\ UNCHANGED repo

Fail(t, e) ==
    /\ Leave(t, "failed")
    /\ err' = [err EXCEPT ![t] = e]

(* A failure because the upstream does not work, or because it says no.        *)
Trouble(t, e) ==
    /\ Fail(t, e)
    /\ troubled' = troubled \union {t}
    /\ UNCHANGED <<seenPublic, misled, denied>>

Deny(t, e) ==
    /\ Fail(t, e)
    /\ denied' = denied \union {t}
    /\ UNCHANGED <<seenPublic, misled, troubled>>

(* The request is over.                                                        *)
Return(t) ==
    /\ pc' = [pc EXCEPT ![t] = "idle"]
    /\ repo' = [repo EXCEPT ![t] = NoRepository]
    /\ token' = [token EXCEPT ![t] = "none"]
    /\ err' = [err EXCEPT ![t] = "none"]
    /\ seenPublic' = seenPublic \ {t}
    /\ misled' = misled \ {t}
    /\ denied' = denied \ {t}
    /\ troubled' = troubled \ {t}

-----------------------------------------------------------------------------
(* fetch_by_tag of a repository, with nothing fresh in the cache.              *)
Request(t, r) ==
    /\ pc[t] = "idle"
    /\ pc' = [pc EXCEPT ![t] = "shape"]
    /\ repo' = [repo EXCEPT ![t] = r]
    /\ seenPublic' = IF r \in public THEN seenPublic \union {t} ELSE seenPublic
    /\ UNCHANGED <<token, err, misled, denied, troubled, world, client, stored>>

FollowAnyRealm(t, s) == Goto(t, IF s = Anonymous THEN "pull" ELSE "token")

(* What resolve_auth does with the shape s.                                    *)
Follow(t, s) ==
    IF s = Anonymous THEN Goto(t, "pull")
    ELSE IF Trusted(s) THEN Goto(t, "token") ELSE Fail(t, "untrusted realm")

(* auth_shape: the shape known already ...                                     *)
KnownShape(t) ==
    /\ pc[t] = "shape"
    /\ IF shape = NoShape THEN Goto(t, "probe") ELSE Follow(t, shape)
    /\ UNCHANGED <<world, client, stored, history>>

(* ... or what GET /v2/ says.  Only success and a challenge are remembered:    *)
(* no answer, 5xx, 429, a redirect, or 401 without a challenge are an error.   *)
Probe(t) ==
    /\ pc[t] = "probe"
    /\ \/ /\ shape' = setup.demand
          /\ Follow(t, setup.demand)
          /\ UNCHANGED history
       \/ /\ Trouble(t, "probe")
          /\ UNCHANGED shape
    /\ UNCHANGED <<world, registered, stored>>

(* fetch_bearer_token has a token: a good one, or one that opens nothing.      *)
Got(t, k, l) ==
    /\ pc' = [pc EXCEPT ![t] = l]
    /\ token' = [token EXCEPT ![t] = k]
    /\ UNCHANGED <<repo, err>>

AnonymousTokenUnlessCredentials(t) ==
    /\ pc[t] = "token"
    /\ \/ /\ Upstream.credentials
          /\ Goto(t, "credentials") /\ UNCHANGED history
       \/ /\ repo[t] \in public
          /\ Got(t, "good", "register") /\ UNCHANGED history
       \/ repo[t] \notin public /\ Deny(t, "authentication required")
       \/ Trouble(t, "authentication required")
    /\ UNCHANGED <<world, client, stored>>

(* fetch_bearer_token without credentials, which it takes to go on even when   *)
(* there are credentials.  That a token came is all that is asked of it, and   *)
(* whatever goes wrong gives the one error.                                    *)
AnonymousToken(t) ==
    LET next == IF Upstream.credentials THEN "credentials" ELSE "register"
    IN  /\ pc[t] = "token"
        /\ \/ /\ repo[t] \in public
              /\ Got(t, "good", next)
              /\ UNCHANGED history
           \/ /\ repo[t] \notin public /\ setup.lenient
              /\ Got(t, "empty", next)
              /\ misled' = misled \union {t}
              /\ UNCHANGED <<seenPublic, denied, troubled>>
           \/ repo[t] \notin public /\ Deny(t, "authentication required")
           \/ Trouble(t, "authentication required")
        /\ UNCHANGED <<world, client, stored>>

(* fetch_bearer_token with the operator's credentials, which are not sent in   *)
(* the clear, and may open what is not public.                                 *)
CredentialToken(t) ==
    /\ pc[t] = "credentials"
    /\ IF UsesHttps(shape)
       THEN \/ Got(t, "good", "register") /\ UNCHANGED history
            \/ Trouble(t, "untrusted realm")
       ELSE Fail(t, "untrusted realm") /\ UNCHANGED history
    /\ UNCHANGED <<world, client, stored>>

RegisterNothing(t) ==
    /\ pc[t] = "register"
    /\ Leave(t, "pull")
    /\ UNCHANGED <<err, world, client, stored, history>>

(* Client::auth: the token is kept for this repository.                        *)
Register(t) ==
    /\ pc[t] = "register"
    /\ registered' = IF token[t] = "good" THEN registered \union {repo[t]}
                                          ELSE registered \ {repo[t]}
    /\ Leave(t, "pull")
    /\ UNCHANGED <<err, world, shape, stored, history>>

(* pull_manifest_raw: the client sends the token it has for the repository.    *)
(* One that was issued without credentials perhaps lets its bearer in no       *)
(* longer once the repository is withdrawn.                                    *)
Allowed(t) ==
    IF shape = Anonymous
    THEN repo[t] \in public
    ELSE repo[t] \in registered

Refusable(t) == ~Allowed(t) \/ repo[t] \notin public

(* What the upstream refuses it refuses with 401, or with UNAUTHORIZED or      *)
(* DENIED in its answer ("pull denied"), or with another 403 or a 404 ("pull   *)
(* refused").                                                                  *)
Pull(t) ==
    /\ pc[t] = "pull"
    /\ \/ Allowed(t) /\ Leave(t, "store") /\ UNCHANGED <<err, history>>
       \/ Refusable(t) /\ \E e \in {"pull denied", "pull refused"} : Deny(t, e)
       \/ Trouble(t, "pull failed")
    /\ UNCHANGED <<world, client, stored>>

(* digest_store.store; its error ends the request without further ado.         *)
Store(t) ==
    /\ pc[t] = "store"
    /\ \/ Goto(t, "ok") /\ stored' = stored \union {repo[t]} /\ UNCHANGED history
       \/ Return(t) /\ UNCHANGED stored
    /\ UNCHANGED <<world, client>>

(* is_authorization_denial: a refusal that is neither of these errors, nor     *)
(* says one of the two codes, is taken for a failure like any other.           *)
Denials == {"authentication required", "untrusted realm", "pull denied"}

AnswerWithoutPull(t) ==
    /\ pc[t] = "failed"
    /\ IF err[t] \in Denials \ {"pull denied"}
       THEN Goto(t, "refused")
       ELSE IF repo[t] \in stored THEN Goto(t, "stale") ELSE Goto(t, "error")
    /\ UNCHANGED <<world, client, stored, history>>

AnswerRefusingAny(t) ==
    /\ pc[t] = "failed"
    /\ IF err[t] \in Denials \union {"pull failed"}
       THEN Goto(t, "refused")
       ELSE IF repo[t] \in stored THEN Goto(t, "stale") ELSE Goto(t, "error")
    /\ UNCHANGED <<world, client, stored, history>>

(* A denial is passed on, anything else is answered by what is stored.         *)
Answer(t) ==
    /\ pc[t] = "failed"
    /\ IF err[t] \in Denials
       THEN Goto(t, "refused")
       ELSE IF repo[t] \in stored THEN Goto(t, "stale") ELSE Goto(t, "error")
    /\ UNCHANGED <<world, client, stored, history>>

Respond(t) ==
    /\ pc[t] \in {"ok", "stale", "refused", "error"}
    /\ Return(t)
    /\ UNCHANGED <<world, client, stored>>

(* The client disconnects and the handler is dropped.                          *)
Cancel(t) ==
    /\ pc[t] \in {"probe", "token", "credentials", "pull", "store"}
    /\ Return(t)
    /\ UNCHANGED <<world, client, stored>>

-----------------------------------------------------------------------------
(* Layout evicts or collects what is stored of a repository.                   *)
Remove(r) ==
    /\ r \in stored
    /\ stored' = stored \ {r}
    /\ UNCHANGED <<world, client, request, history>>

Publish(r) ==
    /\ public' = public \union {r}
    /\ seenPublic' = seenPublic \union {t \in Tasks : repo[t] = r}
    /\ UNCHANGED <<setup, client, stored, request, misled, denied, troubled>>

Withdraw(r) ==
    /\ public' = public \ {r}
    /\ UNCHANGED <<setup, client, stored, request, history>>

Advance(t) ==
    \/ KnownShape(t) \/ Probe(t) \/ AnonymousToken(t) \/ CredentialToken(t)
    \/ Register(t) \/ Pull(t) \/ Store(t) \/ Answer(t) \/ Respond(t)

Next ==
    \/ \E t \in Tasks :
          \/ \E r \in Repositories : Request(t, r)
          \/ Advance(t) \/ Cancel(t)
    \/ \E r \in Repositories : Remove(r) \/ Publish(r) \/ Withdraw(r)

Spec == Init /\ [][Next]_vars

(* The runtime polls every woken task, and what an upstream does not answer    *)
(* ends as an error.                                                           *)
Fairness == \A t \in Tasks : WF_vars(Advance(t))

FairSpec == Spec /\ Fairness

-----------------------------------------------------------------------------
Asking == {"shape", "probe", "token", "credentials", "register", "pull"}
PCs == Asking \union {"idle", "store", "failed", "ok", "stale", "refused", "error"}

TypeOK ==
    /\ setup \in Setups /\ public \subseteq Repositories
    /\ shape \in Realms \union {Anonymous, NoShape}
    /\ registered \subseteq Repositories
    /\ stored \subseteq Repositories
    /\ pc \in [Tasks -> PCs]
    /\ repo \in [Tasks -> Repositories \union {NoRepository}]
    /\ token \in [Tasks -> {"none", "good", "empty"}]
    /\ err \in [Tasks -> Denials \union {"none", "probe", "pull refused", "pull failed"}]
    /\ \A t \in Tasks :
          /\ pc[t] = "idle" <=> repo[t] = NoRepository
          /\ pc[t] \in {"token", "credentials", "register"} =>
                shape \in Realms /\ Trusted(shape)
    /\ seenPublic \subseteq Tasks /\ misled \subseteq Tasks
    /\ denied \subseteq Tasks /\ troubled \subseteq Tasks

(* REQ-0019 as it is written (cache.yaml:174): what is stored has been found   *)
(* to be obtainable without credentials, so it was public at some time while   *)
(* the request ran.                                                            *)
StoredWasPublic == \A t \in Tasks : pc[t] = "store" => t \in seenPublic

(* REQ-0013, REQ-0019, as far as the code goes: what a request stores was      *)
(* public at some time while it ran, or the issuer gave this request a token   *)
(* for it without credentials, also when the operator's credentials would open *)
(* a private repository, when another request has left a token for it, and     *)
(* when it was withdrawn in the middle.                                        *)
StoredUnlessMisled == \A t \in Tasks : pc[t] = "store" => t \in seenPublic \union misled

(* The case of manifest.rs:471, as far as the code goes: what is stored of a   *)
(* repository that has been withdrawn is not handed out.  Content is answered  *)
(* to a request for what was public while it ran, or after a misleading token, *)
(* and what is stored also to a request that an outage has failed, or one that *)
(* the upstream refused in a way that is not recognised.                       *)
WithdrawnNotServed ==
    \A t \in Tasks :
        /\ pc[t] = "ok" => t \in seenPublic \union misled
        /\ pc[t] = "stale" =>
              t \in seenPublic \union troubled \/ (t \in denied /\ err[t] = "pull refused")

(* The upstream can be used as it is configured.                               *)
Usable ==
    setup.demand # Anonymous =>
        /\ Trusted(setup.demand)
        /\ Upstream.credentials => UsesHttps(setup.demand)

(* An outage leaves nothing behind (blob.rs:195): once everything works and is *)
(* public for good, requests come to succeed, whatever was learnt of the       *)
(* upstream before, and whatever repositories were asked for.                  *)
OutageLeavesNoTrace ==
    /\ Usable
    /\ <>[](public = Repositories)
    /\ <>[][troubled' \subseteq troubled]_troubled
    => <>[](\A t \in Tasks : pc[t] # "failed")

(* REQ-0014, and manifest.rs:503, as far as the code delivers them: a request  *)
(* is refused, whatever is stored, only when somebody has denied it, or when   *)
(* it was a token that an outage kept from it: an outage at any other step is  *)
(* not taken for a denial.                                                     *)
RefusedForReason ==
    \A t \in Tasks : pc[t] = "refused" /\ Usable =>
        \/ t \in denied
        \/ t \in troubled /\ err[t] \in {"authentication required", "untrusted realm"}
=============================================================================
