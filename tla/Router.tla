-------------------------------- MODULE Router --------------------------------
(* Router::resolve and InMemoryRoutingMemo (src/src/routing/): which upstream  *)
(* a repository is pulled from.  Routers built from different configurations   *)
(* share one memo, and calls of `resolve` run concurrently.  The memo's mutex  *)
(* is taken once per memo operation, so each memo operation is a step of its   *)
(* own and other calls run in between.                                         *)
(*                                                                             *)
(* A probe (HttpUpstreamProbe) is a request that may be challenged, then one   *)
(* for a token, then the first again.  An upstream answers each as it likes    *)
(* (it may gain or lose the repository, or fail, at any time) or never.  Time  *)
(* is counted in ticks: a tick passes only while no call has something to      *)
(* compute, and no probe outlives its time limit.                              *)
EXTENDS Integers, Sequences, FiniteSets

CONSTANTS
    Tasks,          \* concurrent calls of resolve
    Repositories,
    Upstreams,
    NoUpstream,
    Orders,         \* the configured upstream lists (their ids: the fingerprint)
    NegativeTtl,    \* negative_cache_ttl, in ticks
    ProbeTimeout,   \* probe_timeout, in ticks
    MaxGeneration   \* bound: order changes explored

ASSUME OrdersType == Orders \subseteq Seq(Upstreams)
ASSUME RepositoriesType == Repositories # {}
ASSUME UpstreamsType == NoUpstream \notin Upstreams
ASSUME DurationsType ==
    NegativeTtl \in Nat \ {0} /\ ProbeTimeout \in Nat \ {0} /\ MaxGeneration \in Nat \ {0}

Listed(o) == {o[i] : i \in DOMAIN o}

VARIABLES
    entries,      \* entries[r]: the memo's upstream, or NoUpstream
    negative,     \* negative[r]: ticks a negative entry has left (0: none or expired)
    order,        \* order_fingerprint of the memo
    generation,   \* generation of the memo
    routers,      \* the Router values alive: [order, generation]
    pc, via, repo, \* of each call: where it is, its router, what it resolves
    target,       \* the upstream being probed, or found
    at,           \* the position of the walk
    unreachable,  \* the walk met an upstream that did not answer
    ans,          \* the outcome of the probe, not yet taken up, or how far it is
    timer,        \* ticks since the probe started
    res,          \* result of the last call
    \* history
    entryOrder,   \* entryOrder[r]: the order under which entries[r] was made
    denial,       \* denial[r]: under which order negative[r] was made, and who denied
    denied        \* denied[c]: who denied the repository during c's walk

memo == <<entries, negative, order, generation>>
call == <<via, repo, target, at, unreachable>>
probe == <<target, ans, timer>>
history == <<entryOrder, denial, denied>>
vars == <<memo, routers, pc, call, ans, timer, res, history>>

Probing == {"hint_probe", "memo_probe", "walk"}
Computing == {"memo", "discard", "negative", "record", "negate"}
Outcomes == {"found", "missing", "unreachable"}
Exchanges == {"first", "token", "retry"}
Statuses == {"ok", "not found", "unauthorized", "other", "no answer"}

RouterOf(o, g) == [order |-> o, generation |-> g]
NoRouter == RouterOf(<<>>, 0)
NoDenial == [order |-> <<>>, by |-> {}]

(* The first Router::new has activated its order on an empty memo.             *)
Init ==
    /\ order \in Orders
    /\ generation = 1
    /\ routers = {RouterOf(order, 1)}
    /\ entries = [r \in Repositories |-> NoUpstream]
    /\ negative = [r \in Repositories |-> 0]
    /\ pc = [c \in Tasks |-> "idle"]
    /\ via = [c \in Tasks |-> NoRouter]
    /\ repo = [c \in Tasks |-> CHOOSE r \in Repositories : TRUE]
    /\ target = [c \in Tasks |-> NoUpstream]
    /\ at = [c \in Tasks |-> 1]
    /\ unreachable = [c \in Tasks |-> FALSE]
    /\ ans = [c \in Tasks |-> "none"]
    /\ timer = [c \in Tasks |-> 0]
    /\ res = [c \in Tasks |-> "none"]
    /\ entryOrder = [r \in Repositories |-> <<>>]
    /\ denial = [r \in Repositories |-> NoDenial]
    /\ denied = [c \in Tasks |-> {}]

Goto(c, l) == pc' = [pc EXCEPT ![c] = l]

(* The call is over: its result, and its locals out of scope.                  *)
Return(c, r) ==
    /\ Goto(c, "idle")
    /\ res' = [res EXCEPT ![c] = r]
    /\ via' = [via EXCEPT ![c] = NoRouter]
    /\ target' = [target EXCEPT ![c] = NoUpstream]
    /\ at' = [at EXCEPT ![c] = 1]
    /\ unreachable' = [unreachable EXCEPT ![c] = FALSE]
    /\ ans' = [ans EXCEPT ![c] = "none"]
    /\ timer' = [timer EXCEPT ![c] = 0]
    /\ denied' = [denied EXCEPT ![c] = {}]
    /\ UNCHANGED repo

(* The call goes on at l without a probe.                                      *)
GoOn(c, l) ==
    /\ Goto(c, l)
    /\ UNCHANGED <<call, ans, timer, res, denied>>

(* Ask u: the timer of probe_with_timeout starts.                              *)
Probe(c, l, u) ==
    /\ Goto(c, l)
    /\ target' = [target EXCEPT ![c] = u]
    /\ timer' = [timer EXCEPT ![c] = 0]
    /\ ans' = [ans EXCEPT ![c] = "first"]

-----------------------------------------------------------------------------
(* Router::new: activate_order clears both tables when the order is another.   *)
NewRouter(o) ==
    /\ \/ /\ o = order
          /\ routers' = routers \union {RouterOf(o, generation)}
          /\ UNCHANGED <<memo, history>>
       \/ /\ o # order /\ generation < MaxGeneration
          /\ order' = o
          /\ generation' = generation + 1
          /\ entries' = [r \in Repositories |-> NoUpstream]
          /\ negative' = [r \in Repositories |-> 0]
          /\ routers' = routers \union {RouterOf(o, generation + 1)}
          /\ entryOrder' = [r \in Repositories |-> <<>>]
          /\ denial' = [r \in Repositories |-> NoDenial]
          /\ UNCHANGED denied
    /\ UNCHANGED <<pc, call, ans, timer, res>>

(* resolve on any router still alive, without a hint ...                       *)
Resolve(c, r, rt) ==
    /\ pc[c] = "idle"
    /\ Goto(c, "memo")
    /\ via' = [via EXCEPT ![c] = rt]
    /\ repo' = [repo EXCEPT ![c] = r]
    /\ res' = [res EXCEPT ![c] = "none"]
    /\ UNCHANGED <<memo, routers, probe, at, unreachable, entryOrder, denial, denied>>

(* ... and with one that names no upstream of the configuration ...            *)
ResolveUnknown(c) ==
    /\ pc[c] = "idle"
    /\ res' = [res EXCEPT ![c] = "unknown"]
    /\ UNCHANGED <<memo, routers, pc, call, ans, timer, entryOrder, denial, denied>>

(* ... or one that does: that upstream alone is asked, the memo is not used.   *)
ResolveHint(c, r, rt, hint) ==
    /\ pc[c] = "idle" /\ hint \in Listed(rt.order)
    /\ via' = [via EXCEPT ![c] = rt]
    /\ repo' = [repo EXCEPT ![c] = r]
    /\ Probe(c, "hint_probe", hint)
    /\ res' = [res EXCEPT ![c] = "none"]
    /\ UNCHANGED <<memo, routers, at, unreachable, entryOrder, denial, denied>>

(* A hinted upstream that answers at all is the resolution.                    *)
TakeHint(c) ==
    /\ pc[c] = "hint_probe" /\ ans[c] \in Outcomes
    /\ Return(c, IF ans[c] = "unreachable" THEN "unreachable" ELSE "ok")
    /\ UNCHANGED <<memo, routers, entryOrder, denial>>

(* memo.get and config.find.                                                   *)
ReadMemo(c) ==
    LET u == entries[repo[c]] IN
    /\ pc[c] = "memo"
    /\ \/ u = NoUpstream /\ GoOn(c, "negative")
       \/ u # NoUpstream /\ u \notin Listed(via[c].order) /\ GoOn(c, "discard")
       \/ u \in Listed(via[c].order) /\ Probe(c, "memo_probe", u)
          /\ UNCHANGED <<via, repo, at, unreachable, res, denied>>
    /\ UNCHANGED <<memo, routers, entryOrder, denial>>

TakeMemo(c) ==
    /\ pc[c] = "memo_probe"
    /\ \/ ans[c] = "found" /\ Return(c, "ok")
       \/ ans[c] = "unreachable" /\ Return(c, "unreachable")
       \/ ans[c] = "missing" /\ GoOn(c, "discard")
    /\ UNCHANGED <<memo, routers, entryOrder, denial>>

(* memo.discard: whatever the record is by now.                                *)
Discard(c) ==
    /\ pc[c] = "discard"
    /\ entries' = [entries EXCEPT ![repo[c]] = NoUpstream]
    /\ entryOrder' = [entryOrder EXCEPT ![repo[c]] = <<>>]
    /\ GoOn(c, "negative")
    /\ UNCHANGED <<negative, order, generation, routers, denial>>

(* is_negative_cached, and the first probe of resolve_via_fallback; if no      *)
(* upstream is configured there is nothing to probe.                           *)
CheckNegative(c) ==
    /\ pc[c] = "negative"
    /\ \/ negative[repo[c]] > 0 /\ Return(c, "missing")
       \/ negative[repo[c]] = 0 /\ via[c].order = <<>> /\ GoOn(c, "negate")
       \/ /\ negative[repo[c]] = 0 /\ via[c].order # <<>>
          /\ Probe(c, "walk", via[c].order[1])
          /\ UNCHANGED <<via, repo, at, unreachable, res, denied>>
    /\ UNCHANGED <<memo, routers, entryOrder, denial>>

(* The next position of the walk.                                              *)
WalkOn(c) ==
    /\ at[c] < Len(via[c].order)
    /\ at' = [at EXCEPT ![c] = @ + 1]
    /\ Probe(c, "walk", via[c].order[at[c] + 1])
    /\ UNCHANGED <<via, repo, res, denied>>

WalkBlameless(c) ==
    LET failed == unreachable[c] \/ ans[c] = "unreachable" IN
    /\ pc[c] = "walk" /\ ans[c] \in Outcomes
    /\ \/ ans[c] = "found" /\ GoOn(c, "record")
       \/ ans[c] # "found" /\ WalkOn(c)
          /\ unreachable' = [unreachable EXCEPT ![c] = failed]
       \/ /\ ans[c] # "found" /\ at[c] = Len(via[c].order)
          /\ IF failed THEN Return(c, "missing") ELSE GoOn(c, "negate")
    /\ UNCHANGED <<memo, routers, entryOrder, denial>>

(* The loop of resolve_via_fallback.                                           *)
Walk(c) ==
    LET failed == unreachable[c] \/ ans[c] = "unreachable" IN
    /\ pc[c] = "walk" /\ ans[c] \in Outcomes
    /\ \/ ans[c] = "found" /\ GoOn(c, "record")
       \/ ans[c] # "found" /\ WalkOn(c)
          /\ unreachable' = [unreachable EXCEPT ![c] = failed]
       \/ /\ ans[c] # "found" /\ at[c] = Len(via[c].order)
          /\ IF failed THEN Return(c, "unreachable") ELSE GoOn(c, "negate")
    /\ UNCHANGED <<memo, routers, entryOrder, denial>>

RecordAlways(c) ==
    /\ pc[c] = "record"
    /\ entries' = [entries EXCEPT ![repo[c]] = target[c]]
    /\ entryOrder' = [entryOrder EXCEPT ![repo[c]] = via[c].order]
    /\ Return(c, "ok")
    /\ UNCHANGED <<negative, order, generation, routers, denial>>

(* memo.put, ignored from a router of another generation.                      *)
Record(c) ==
    /\ pc[c] = "record"
    /\ IF via[c].generation = generation
         THEN /\ entries' = [entries EXCEPT ![repo[c]] = target[c]]
              /\ entryOrder' = [entryOrder EXCEPT ![repo[c]] = via[c].order]
         ELSE UNCHANGED <<entries, entryOrder>>
    /\ Return(c, "ok")
    /\ UNCHANGED <<negative, order, generation, routers, denial>>

NegateExtending(c) ==
    /\ pc[c] = "negate"
    /\ IF via[c].generation = generation
         THEN /\ negative' = [negative EXCEPT ![repo[c]] = @ + NegativeTtl]
              /\ denial' = [denial EXCEPT ![repo[c]] = [order |-> via[c].order, by |-> denied[c]]]
         ELSE UNCHANGED <<negative, denial>>
    /\ Return(c, "missing")
    /\ UNCHANGED <<entries, order, generation, routers, entryOrder>>

(* memo.put_negative, ignored from a router of another generation.             *)
Negate(c) ==
    /\ pc[c] = "negate"
    /\ IF via[c].generation = generation
         THEN /\ negative' = [negative EXCEPT ![repo[c]] = NegativeTtl]
              /\ denial' = [denial EXCEPT ![repo[c]] = [order |-> via[c].order, by |-> denied[c]]]
         ELSE UNCHANGED <<negative, denial>>
    /\ Return(c, "missing")
    /\ UNCHANGED <<entries, order, generation, routers, entryOrder>>

(* The call is dropped while it awaits a probe.                                *)
Cancel(c) ==
    /\ pc[c] \in Probing
    /\ Return(c, "none")
    /\ UNCHANGED <<memo, routers, entryOrder, denial>>

-----------------------------------------------------------------------------
OutcomeOfClientError(status) ==
    CASE status = "ok" -> "found"
      [] status \in {"not found", "unauthorized"} -> "missing"
      [] OTHER -> "unreachable"

(* outcome_from_status.  A request that fails has no status.                   *)
OutcomeFrom(status) ==
    CASE status = "ok" -> "found"
      [] status = "not found" -> "missing"
      [] OTHER -> "unreachable"

(* probe: the upstream's answer to the first request, or to the second.  A     *)
(* first "unauthorized" may carry a challenge that can be read.                *)
Answer(c, status) ==
    /\ pc[c] \in Probing /\ ans[c] \in {"first", "retry"}
    /\ \/ ans' = [ans EXCEPT ![c] = OutcomeFrom(status)]
       \/ ans[c] = "first" /\ status = "unauthorized" /\ ans' = [ans EXCEPT ![c] = "token"]
    /\ denied' = IF pc[c] = "walk" /\ status = "not found"
                    THEN [denied EXCEPT ![c] = @ \union {target[c]}] ELSE denied
    /\ UNCHANGED <<memo, routers, pc, call, timer, res, entryOrder, denial>>

(* probe_with_bearer_retry: without a token the upstream says nothing.         *)
Token(c) ==
    /\ pc[c] \in Probing /\ ans[c] = "token"
    /\ \E next \in {"retry", "unreachable"} : ans' = [ans EXCEPT ![c] = next]
    /\ UNCHANGED <<memo, routers, pc, call, timer, res, history>>

TimeoutOfWalkOnly(c) ==
    /\ pc[c] = "walk" /\ ans[c] \in Exchanges /\ timer[c] = ProbeTimeout
    /\ ans' = [ans EXCEPT ![c] = "unreachable"]
    /\ UNCHANGED <<memo, routers, pc, call, timer, res, history>>

(* tokio::time::timeout: no answer in time counts as Unreachable.              *)
Timeout(c) ==
    /\ pc[c] \in Probing /\ ans[c] \in Exchanges /\ timer[c] = ProbeTimeout
    /\ ans' = [ans EXCEPT ![c] = "unreachable"]
    /\ UNCHANGED <<memo, routers, pc, call, timer, res, history>>

Tick ==
    /\ \A c \in Tasks : pc[c] = "idle" \/ (pc[c] \in Probing /\ timer[c] < ProbeTimeout)
    /\ timer' = [c \in Tasks |-> IF pc[c] \in Probing THEN timer[c] + 1 ELSE timer[c]]
    /\ negative' = [r \in Repositories |-> IF negative[r] > 0 THEN negative[r] - 1 ELSE 0]
    /\ denial' = [r \in Repositories |-> IF negative[r] > 1 THEN denial[r] ELSE NoDenial]
    /\ UNCHANGED <<entries, order, generation, routers, pc, call, ans, res, entryOrder, denied>>

Advance(c) ==
    \/ TakeHint(c) \/ ReadMemo(c) \/ TakeMemo(c) \/ Discard(c) \/ CheckNegative(c)
    \/ Walk(c) \/ Record(c) \/ Negate(c) \/ Timeout(c)

Next ==
    \/ \E o \in Orders : NewRouter(o)
    \/ \E c \in Tasks :
          \/ \E r \in Repositories, rt \in routers :
                \/ Resolve(c, r, rt)
                \/ \E hint \in Upstreams : ResolveHint(c, r, rt, hint)
          \/ ResolveUnknown(c)
          \/ Advance(c)
          \/ \E status \in Statuses : Answer(c, status)
          \/ Token(c)
          \/ Cancel(c)
    \/ Tick

Spec == Init /\ [][Next]_vars

(* The runtime polls every woken task, and time goes on.  Nothing is assumed   *)
(* of the upstreams.                                                           *)
Fairness == SF_vars(Tick) /\ \A c \in Tasks : WF_vars(Advance(c))

FairSpec == Spec /\ Fairness

-----------------------------------------------------------------------------
(* Every variable stays in its domain.                                         *)
RouterTypes == [order : Orders, generation : 1..MaxGeneration]

TypeOK ==
    /\ entries \in [Repositories -> Upstreams \union {NoUpstream}]
    /\ negative \in [Repositories -> 0..NegativeTtl]
    /\ order \in Orders /\ generation \in 1..MaxGeneration
    /\ routers \subseteq RouterTypes
    /\ pc \in [Tasks -> Probing \union Computing \union {"idle"}]
    /\ via \in [Tasks -> RouterTypes \union {NoRouter}]
    /\ repo \in [Tasks -> Repositories]
    /\ target \in [Tasks -> Upstreams \union {NoUpstream}]
    /\ at \in [Tasks -> Nat \ {0}]
    /\ \A c \in Tasks : pc[c] = "walk" => at[c] <= Len(via[c].order)
    /\ unreachable \in [Tasks -> BOOLEAN]
    /\ ans \in [Tasks -> Outcomes \union Exchanges \union {"none"}]
    /\ timer \in [Tasks -> 0..ProbeTimeout]
    /\ res \in [Tasks -> {"none", "ok", "missing", "unreachable", "unknown"}]
    /\ entryOrder \in [Repositories -> Orders \union {<<>>}]
    /\ denial \in [Repositories -> [order : Orders \union {<<>>}, by : SUBSET Upstreams]]
    /\ denied \in [Tasks -> SUBSET Upstreams]

(* REQ-0058: what the memo says, found or not found, was established under the *)
(* order it is now active for, although calls on routers of an older order may *)
(* finish long after the change.                                               *)
MemoOfCurrentOrder ==
    \A r \in Repositories :
        /\ entries[r] # NoUpstream => entryOrder[r] = order /\ entries[r] \in Listed(order)
        /\ negative[r] > 0 => denial[r].order = order

(* REQ-0004: while a negative entry is in force every upstream of the active   *)
(* order has itself answered, in one walk, that the repository is not there:   *)
(* an upstream that failed or kept silent never counts as an absence.          *)
NegativeConfirmed ==
    \A r \in Repositories : negative[r] > 0 => Listed(order) \subseteq denial[r].by

(* REQ-0004, REQ-0056: a call on a router of the memo's order answers "not     *)
(* found" only if every upstream of its order has said so in one and the same  *)
(* walk, the call's own or that of the negative entry it met, also when it has *)
(* just discarded a record.  (A router left over from an older order may meet  *)
(* the negative entries of the new one.)                                       *)
Missing(c) == pc[c] # "idle" /\ pc'[c] = "idle" /\ res'[c] = "missing"

MissingConfirmed ==
    [][\A c \in Tasks : Missing(c) /\ via[c].generation = generation =>
          \E by \in {denied[c], denial[repo[c]].by} : Listed(order) \subseteq by]_vars

(* REQ-0057: every resolution ends although upstreams may never answer.        *)
ResolvesEnd == \A c \in Tasks : pc[c] # "idle" ~> pc[c] = "idle"
=============================================================================
