----------------------------- MODULE RouterProofs -----------------------------
(* Proofs about Router for every set of calls, repositories and upstreams, all *)
(* upstream lists, validities, time limits and numbers of reconfigurations.    *)
EXTENDS Router, TLAPS

(* A router of the memo's generation has the memo's order: a change of order   *)
(* is a new generation.                                                        *)
RoutersCurrent ==
    \A rt \in routers :
        rt.generation <= generation /\ (rt.generation = generation => rt.order = order)

(* What a call knows where it is.  On a walk nobody before its position has    *)
(* stayed unheard: each has denied the repository, or `unreachable` says that  *)
(* one has not.                                                                *)
BeforeDenied(c) ==
    unreachable[c] \/ \A i \in 1 .. at[c] - 1 : via[c].order[i] \in denied[c]

OnWalk(c) ==
    /\ target[c] = via[c].order[at[c]]
    /\ ans[c] = "missing" => target[c] \in denied[c]
    /\ BeforeDenied(c)

Progress(c) ==
    /\ pc[c] # "idle" => via[c] \in routers
    /\ pc[c] \notin {"walk", "record", "negate"} => at[c] = 1
    /\ pc[c] = "walk" => OnWalk(c)
    /\ pc[c] = "record" => target[c] \in Listed(via[c].order)
    /\ pc[c] = "negate" => Listed(via[c].order) \subseteq denied[c]

CallsProgress == \A c \in Tasks : Progress(c)

IInv ==
    /\ TypeOK
    /\ RoutersCurrent
    /\ CallsProgress
    /\ MemoOfCurrentOrder
    /\ NegativeConfirmed

USE DEF Probing, Computing, Outcomes, Exchanges, RouterTypes, memo, call, probe, history

-----------------------------------------------------------------------------
(* The positions of a list are of the list, and all but the empty one have a   *)
(* first.                                                                      *)
LEMMA OrderFacts ==
    ASSUME NEW o \in Orders
    PROVE  /\ o \in Seq(Upstreams) /\ Len(o) \in Nat
           /\ o # <<>> => Len(o) >= 1
           /\ \A i \in 1 .. Len(o) : o[i] \in Upstreams /\ o[i] \in Listed(o)
           /\ Listed(o) = {o[i] : i \in 1 .. Len(o)}
           /\ Listed(o) \subseteq Upstreams
<1>1. o \in Seq(Upstreams)
  BY OrdersType
<1>2. Len(o) \in Nat /\ (o # <<>> => Len(o) >= 1)
  BY <1>1
<1>. QED
  BY <1>1, <1>2 DEF Listed

(* A call that is not idle is on a router that is alive, so it has an order.   *)
LEMMA RouterOfCall ==
    ASSUME IInv, NEW c \in Tasks, pc[c] # "idle"
    PROVE  via[c] \in routers /\ via[c] \in RouterTypes /\ via[c].order \in Orders
BY DEF IInv, CallsProgress, Progress, TypeOK

(* The locals of a call that is over are in their domains.                     *)
LEMMA TypesOfReturn ==
    ASSUME TypeOK, NEW c \in Tasks, NEW r \in {"none", "ok", "missing", "unreachable"}, Return(c, r)
    PROVE  /\ pc' = [pc EXCEPT ![c] = "idle"] /\ pc' \in [Tasks -> Probing \union Computing \union {"idle"}]
           /\ via' \in [Tasks -> RouterTypes \union {NoRouter}]
           /\ repo' \in [Tasks -> Repositories]
           /\ target' \in [Tasks -> Upstreams \union {NoUpstream}]
           /\ at' \in [Tasks -> Nat \ {0}]
           /\ \A d \in Tasks : pc'[d] = "walk" => at'[d] <= Len(via'[d].order)
           /\ unreachable' \in [Tasks -> BOOLEAN]
           /\ ans' \in [Tasks -> Outcomes \union Exchanges \union {"none"}]
           /\ timer' \in [Tasks -> 0..ProbeTimeout]
           /\ res' \in [Tasks -> {"none", "ok", "missing", "unreachable", "unknown"}]
           /\ denied' \in [Tasks -> SUBSET Upstreams]
BY DurationsType DEF TypeOK, Return, Goto

(* Every step keeps the variables in their domains.  (The walk takes the       *)
(* orders of the routers, so it needs the rest of the invariant too.)          *)
LEMMA TypeStep == IInv /\ [Next]_vars => TypeOK'
<1>. SUFFICES ASSUME IInv, [Next]_vars PROVE TypeOK'
  OBVIOUS
<1>. TypeOK
  BY DEF IInv
<1>1. ASSUME NEW o \in Orders, NewRouter(o) PROVE TypeOK'
  BY <1>1, DurationsType DEF TypeOK, NewRouter, RouterOf, NoDenial
<1>2. ASSUME NEW c \in Tasks, NEW r \in Repositories, NEW rt \in routers, Resolve(c, r, rt)
      PROVE  TypeOK'
  BY <1>2 DEF TypeOK, Resolve, Goto
<1>3. ASSUME NEW c \in Tasks, NEW r \in Repositories, NEW rt \in routers,
             NEW hint \in Upstreams, ResolveHint(c, r, rt, hint)
      PROVE  TypeOK'
  BY <1>3, DurationsType DEF TypeOK, ResolveHint, Probe, Goto
<1>4. ASSUME NEW c \in Tasks, ResolveUnknown(c) PROVE TypeOK'
  BY <1>4 DEF TypeOK, ResolveUnknown
<1>5. ASSUME NEW c \in Tasks, TakeHint(c) PROVE TypeOK'
  <2>. PICK r \in {"ok", "unreachable"} : Return(c, r)
    BY <1>5 DEF TakeHint
  <2>. QED
    BY <1>5, TypesOfReturn DEF TypeOK, TakeHint
<1>6. ASSUME NEW c \in Tasks, ReadMemo(c) PROVE TypeOK'
  <2>1. CASE GoOn(c, "negative") \/ GoOn(c, "discard")
    BY <1>6, <2>1 DEF TypeOK, ReadMemo, GoOn, Goto
  <2>2. CASE entries[repo[c]] # NoUpstream /\ Probe(c, "memo_probe", entries[repo[c]])
             /\ UNCHANGED <<via, repo, at, unreachable, res, denied>>
    BY <1>6, <2>2, DurationsType DEF TypeOK, ReadMemo, Probe, Goto
  <2>3. via[c].order \in Orders
    BY <1>6, RouterOfCall DEF ReadMemo
  <2>4. entries[repo[c]] \in Listed(via[c].order) => entries[repo[c]] # NoUpstream
    BY <2>3, OrderFacts, UpstreamsType
  <2>. QED
    BY <1>6, <2>1, <2>2, <2>4 DEF ReadMemo
<1>7. ASSUME NEW c \in Tasks, TakeMemo(c) PROVE TypeOK'
  <2>1. ASSUME NEW r \in {"ok", "unreachable"}, Return(c, r) PROVE TypeOK'
    BY <1>7, <2>1, TypesOfReturn DEF TypeOK, TakeMemo
  <2>2. CASE GoOn(c, "discard")
    BY <1>7, <2>2 DEF TypeOK, TakeMemo, GoOn, Goto
  <2>. QED
    BY <1>7, <2>1, <2>2 DEF TakeMemo
<1>8. ASSUME NEW c \in Tasks, Discard(c) PROVE TypeOK'
  BY <1>8 DEF TypeOK, Discard, GoOn, Goto
<1>9. ASSUME NEW c \in Tasks, CheckNegative(c) PROVE TypeOK'
  <2>1. CASE Return(c, "missing")
    BY <1>9, <2>1, TypesOfReturn DEF TypeOK, CheckNegative
  <2>2. CASE /\ via[c].order # <<>>
             /\ Probe(c, "walk", via[c].order[1]) /\ UNCHANGED <<via, repo, at, unreachable, res, denied>>
    <3>1. via[c].order \in Orders /\ at[c] = 1
      BY <1>9, RouterOfCall DEF CheckNegative, IInv, CallsProgress, Progress
    <3>2. via[c].order[1] \in Upstreams /\ at[c] <= Len(via[c].order)
      BY <2>2, <3>1, OrderFacts
    <3>. QED
      BY <1>9, <2>2, <3>2, DurationsType DEF TypeOK, CheckNegative, Probe, Goto
  <2>3. CASE GoOn(c, "negate")
    BY <1>9, <2>3 DEF TypeOK, CheckNegative, GoOn, Goto
  <2>. QED
    BY <1>9, <2>1, <2>2, <2>3 DEF CheckNegative
<1>10. ASSUME NEW c \in Tasks, Walk(c) PROVE TypeOK'
  <2>0. via[c].order \in Orders
    BY <1>10, RouterOfCall DEF Walk
  <2>1. CASE GoOn(c, "record") \/ GoOn(c, "negate")
    BY <1>10, <2>1 DEF TypeOK, Walk, GoOn, Goto
  <2>2. CASE WalkOn(c) /\ unreachable' = [unreachable EXCEPT ![c] = unreachable[c] \/ ans[c] = "unreachable"]
    <3>1. at[c] + 1 \in 1 .. Len(via[c].order) /\ Len(via[c].order) \in Nat
      BY <2>0, <2>2, OrderFacts DEF WalkOn, TypeOK
    <3>2. via[c].order[at[c] + 1] \in Upstreams
      BY <2>0, <3>1, OrderFacts
    <3>. QED
      BY <1>10, <2>2, <3>1, <3>2, DurationsType DEF TypeOK, Walk, WalkOn, Probe, Goto
  <2>3. CASE Return(c, "unreachable")
    BY <1>10, <2>3, TypesOfReturn DEF TypeOK, Walk
  <2>. QED
    BY <1>10, <2>1, <2>2, <2>3 DEF Walk
<1>11. ASSUME NEW c \in Tasks, Record(c) PROVE TypeOK'
  <2>. via[c].order \in Orders
    BY <1>11, RouterOfCall DEF Record
  <2>1. /\ entries' \in [Repositories -> Upstreams \union {NoUpstream}]
        /\ entryOrder' \in [Repositories -> Orders \union {<<>>}]
    <3>. /\ entries \in [Repositories -> Upstreams \union {NoUpstream}]
         /\ entryOrder \in [Repositories -> Orders \union {<<>>}]
         /\ target[c] \in Upstreams \union {NoUpstream}
      BY DEF TypeOK
    <3>. QED
      BY <1>11 DEF Record
  <2>2. Return(c, "ok") /\ UNCHANGED <<negative, order, generation, routers, denial>>
    BY <1>11 DEF Record
  <2>. QED
    BY <2>1, <2>2, TypesOfReturn DEF TypeOK
<1>12. ASSUME NEW c \in Tasks, Negate(c) PROVE TypeOK'
  <2>. via[c].order \in Orders
    BY <1>12, RouterOfCall DEF Negate
  <2>1. negative' \in [Repositories -> 0..NegativeTtl]
    BY <1>12, DurationsType DEF TypeOK, Negate
  <2>2. denial' \in [Repositories -> [order : Orders \union {<<>>}, by : SUBSET Upstreams]]
    <3>. /\ denial \in [Repositories -> [order : Orders \union {<<>>}, by : SUBSET Upstreams]]
         /\ denied[c] \in SUBSET Upstreams
      BY DEF TypeOK
    <3>. QED
      BY <1>12 DEF Negate
  <2>3. Return(c, "missing") /\ UNCHANGED <<entries, order, generation, routers, entryOrder>>
    BY <1>12 DEF Negate
  <2>. QED
    BY <2>1, <2>2, <2>3, TypesOfReturn DEF TypeOK
<1>13. ASSUME NEW c \in Tasks, Cancel(c) PROVE TypeOK'
  BY <1>13, TypesOfReturn DEF TypeOK, Cancel
<1>14. ASSUME NEW c \in Tasks, NEW status \in Statuses, Answer(c, status) PROVE TypeOK'
  <2>1. ans' \in [Tasks -> Outcomes \union Exchanges \union {"none"}]
    BY <1>14 DEF TypeOK, Answer, OutcomeFrom
  <2>2. denied' \in [Tasks -> SUBSET Upstreams]
    <3>. pc[c] = "walk" => target[c] \in Upstreams
      <4>. SUFFICES ASSUME pc[c] = "walk" PROVE target[c] \in Upstreams
        OBVIOUS
      <4>1. via[c].order \in Orders
        BY RouterOfCall
      <4>2. at[c] \in 1 .. Len(via[c].order) /\ target[c] = via[c].order[at[c]]
        BY <4>1, OrderFacts DEF IInv, CallsProgress, Progress, OnWalk, TypeOK
      <4>. QED
        BY <4>1, <4>2, OrderFacts
    <3>. QED
      BY <1>14 DEF TypeOK, Answer
  <2>. QED
    BY <1>14, <2>1, <2>2 DEF TypeOK, Answer
<1>15. ASSUME NEW c \in Tasks, Token(c) \/ Timeout(c) PROVE TypeOK'
  BY <1>15 DEF TypeOK, Token, Timeout
<1>16. ASSUME Tick PROVE TypeOK'
  <2>1. negative' \in [Repositories -> 0..NegativeTtl]
    BY <1>16, DurationsType DEF TypeOK, Tick
  <2>2. denial' \in [Repositories -> [order : Orders \union {<<>>}, by : SUBSET Upstreams]]
    BY <1>16 DEF TypeOK, Tick, NoDenial
  <2>3. timer' \in [Tasks -> 0..ProbeTimeout]
    <3>. timer \in [Tasks -> 0..ProbeTimeout] /\ ProbeTimeout \in Nat
      BY DurationsType DEF TypeOK
    <3>1. \A c \in Tasks : pc[c] \in Probing => timer[c] < ProbeTimeout
      BY <1>16 DEF Tick
    <3>2. timer' = [c \in Tasks |-> IF pc[c] \in Probing THEN timer[c] + 1 ELSE timer[c]]
      BY <1>16 DEF Tick
    <3>. HIDE DEF Probing
    <3>. QED
      BY <3>1, <3>2
  <2>. QED
    BY <1>16, <2>1, <2>2, <2>3 DEF TypeOK, Tick
<1>17. ASSUME UNCHANGED vars PROVE TypeOK'
  BY <1>17 DEF TypeOK, vars
<1>. QED
  BY <1>1, <1>2, <1>3, <1>4, <1>5, <1>6, <1>7, <1>8, <1>9, <1>10, <1>11, <1>12, <1>13,
     <1>14, <1>15, <1>16, <1>17 DEF Next, Advance

-----------------------------------------------------------------------------
(* What a step leaves alone of a call.                                         *)
Untouched(d) ==
    /\ pc'[d] = pc[d] /\ via'[d] = via[d] /\ target'[d] = target[d] /\ at'[d] = at[d]
    /\ unreachable'[d] = unreachable[d] /\ ans'[d] = ans[d] /\ denied'[d] = denied[d]

(* The locals of the calls are functions, which is all that steps of other     *)
(* calls need to know of their types.                                          *)
PerCall(f) == f = [c \in Tasks |-> f[c]]

LocalsPerCall ==
    /\ PerCall(pc) /\ PerCall(via) /\ PerCall(target) /\ PerCall(at)
    /\ PerCall(unreachable) /\ PerCall(ans) /\ PerCall(denied)

LEMMA LocalsTyped == TypeOK => LocalsPerCall
BY DEF TypeOK, LocalsPerCall, PerCall

(* Routers stay alive, and only a new generation has a new order.              *)
LEMMA RoutersStep == TypeOK /\ RoutersCurrent /\ [Next]_vars => RoutersCurrent' /\ routers \subseteq routers'
<1>. SUFFICES ASSUME TypeOK, RoutersCurrent, [Next]_vars
              PROVE  RoutersCurrent' /\ routers \subseteq routers'
  OBVIOUS
<1>1. ASSUME NEW o \in Orders, NewRouter(o) PROVE RoutersCurrent' /\ routers \subseteq routers'
  BY <1>1 DEF TypeOK, RoutersCurrent, NewRouter, RouterOf
<1>2. CASE UNCHANGED <<routers, order, generation>>
  BY <1>2 DEF RoutersCurrent
<1>3. ASSUME NEW c \in Tasks, Advance(c) PROVE UNCHANGED <<routers, order, generation>>
  BY <1>3 DEF Advance, TakeHint, ReadMemo, TakeMemo, Discard, CheckNegative, Walk, Record,
              Negate, Timeout
<1>. QED
  BY <1>1, <1>2, <1>3
     DEF Next, Resolve, ResolveHint, ResolveUnknown, Cancel, Answer, Token, Tick, vars

(* A call that is left alone, or over, is where it should be.                  *)
LEMMA Bystander ==
    ASSUME CallsProgress, routers \subseteq routers', NEW d \in Tasks,
           Untouched(d) \/ (pc'[d] = "idle" /\ at'[d] = 1)
    PROVE  Progress(d)'
<1>1. CASE Untouched(d)
  BY <1>1 DEF CallsProgress, Progress, Untouched, OnWalk, BeforeDenied
<1>2. CASE pc'[d] = "idle" /\ at'[d] = 1
  BY <1>2 DEF Progress
<1>. QED
  BY <1>1, <1>2

LEMMA Returned ==
    ASSUME TypeOK, NEW c \in Tasks, NEW r, Return(c, r), NEW d \in Tasks
    PROVE  Untouched(d) \/ (pc'[d] = "idle" /\ at'[d] = 1)
BY LocalsTyped DEF LocalsPerCall, PerCall, Return, Goto, Untouched

LEMMA CallsStep == IInv /\ [Next]_vars => CallsProgress'
<1>. SUFFICES ASSUME IInv, [Next]_vars, NEW d \in Tasks PROVE Progress(d)'
  BY DEF CallsProgress
<1>. TypeOK /\ CallsProgress /\ Progress(d)
  BY DEF IInv, CallsProgress
<1>0. routers \subseteq routers'
  BY RoutersStep DEF IInv
<1>1. CASE Untouched(d) \/ (pc'[d] = "idle" /\ at'[d] = 1)
  BY <1>0, <1>1, Bystander
<1>2. ASSUME NEW c \in Tasks, NEW r, Return(c, r) PROVE Progress(d)'
  BY <1>0, <1>2, Returned, Bystander
<1>3. ASSUME NEW c \in Tasks, NEW r \in Repositories, NEW rt \in routers,
             \/ Resolve(c, r, rt)
             \/ \E hint \in Upstreams : ResolveHint(c, r, rt, hint)
      PROVE  Progress(d)'
  <2>1. CASE d = c
    BY <1>0, <1>3, <2>1 DEF TypeOK, Progress, Resolve, ResolveHint, Probe, Goto
  <2>2. CASE d # c
    BY <1>1, <1>3, <2>2, LocalsTyped
       DEF LocalsPerCall, PerCall, Resolve, ResolveHint, Probe, Goto, Untouched
  <2>. QED
    BY <2>1, <2>2
<1>4. ASSUME NEW c \in Tasks, ReadMemo(c) \/ TakeMemo(c) \/ Discard(c) PROVE Progress(d)'
  <2>1. CASE d = c /\ ~ \E r \in {"ok", "unreachable"} : Return(c, r)
    BY <1>0, <1>4, <2>1
       DEF TypeOK, Progress, ReadMemo, TakeMemo, Discard, Probe, GoOn, Goto
  <2>2. CASE d # c /\ ~ \E r \in {"ok", "unreachable"} : Return(c, r)
    BY <1>1, <1>4, <2>2, LocalsTyped
       DEF LocalsPerCall, PerCall, ReadMemo, TakeMemo, Discard, Probe, GoOn, Goto, Untouched
  <2>. QED
    BY <1>2, <2>1, <2>2
<1>5. ASSUME NEW c \in Tasks, CheckNegative(c) PROVE Progress(d)'
  <2>1. CASE d = c /\ ~Return(c, "missing") /\ via[c].order # <<>>
    <3>1. pc'[c] = "walk" /\ via'[c] = via[c] /\ at'[c] = 1 /\ ans'[c] = "first"
      BY <1>5, <2>1 DEF TypeOK, CheckNegative, Probe, Goto, Progress
    <3>2. target'[c] = via'[c].order[at'[c]] /\ via[c] \in routers
      BY <1>5, <2>1, <3>1 DEF TypeOK, CheckNegative, Probe, Progress
    <3>. QED
      BY <1>0, <2>1, <3>1, <3>2 DEF Progress, OnWalk, BeforeDenied
  <2>2. CASE d = c /\ ~Return(c, "missing") /\ via[c].order = <<>>
    <3>1. Listed(via[c].order) = {}
      BY <2>2 DEF Listed
    <3>2. GoOn(c, "negate")
      BY <1>5, <2>2 DEF CheckNegative
    <3>3. /\ pc'[c] = "negate" /\ via'[c] = via[c] /\ at'[c] = at[c] /\ denied'[c] = denied[c]
          /\ pc[c] = "negative"
      BY <1>5, <3>2 DEF TypeOK, CheckNegative, GoOn, Goto
    <3>. QED
      BY <1>0, <2>2, <3>1, <3>3 DEF Progress
  <2>3. CASE d # c /\ ~Return(c, "missing")
    BY <1>1, <1>5, <2>3, LocalsTyped
       DEF LocalsPerCall, PerCall, CheckNegative, Probe, GoOn, Goto, Untouched
  <2>. QED
    BY <1>2, <2>1, <2>2, <2>3
<1>6. ASSUME NEW c \in Tasks, Walk(c) PROVE Progress(d)'
  <2>. DEFINE failed == unreachable[c] \/ ans[c] = "unreachable"
  <2>0. /\ pc[c] = "walk" /\ via[c] \in routers /\ via[c].order \in Orders
        /\ target[c] = via[c].order[at[c]] /\ at[c] \in 1 .. Len(via[c].order)
        /\ BeforeDenied(c)
        /\ ~failed /\ ans[c] # "found" => target[c] \in denied[c]
    BY <1>6, RouterOfCall, OrderFacts
       DEF Walk, IInv, CallsProgress, Progress, OnWalk, TypeOK
  <2>1. CASE d # c /\ ~Return(c, "unreachable")
    BY <1>1, <1>6, <2>1, LocalsTyped
       DEF LocalsPerCall, PerCall, Walk, WalkOn, Probe, GoOn, Goto, Untouched
  <2>2. CASE d = c /\ GoOn(c, "record")
    <3>1. target[c] \in Listed(via[c].order)
      BY <2>0, OrderFacts
    <3>. QED
      BY <1>0, <2>0, <2>2, <3>1 DEF TypeOK, GoOn, Goto, Progress
  <2>3. CASE d = c /\ WalkOn(c) /\ ans[c] # "found"
             /\ unreachable' = [unreachable EXCEPT ![c] = failed]
    <3>1. /\ pc'[c] = "walk" /\ via'[c] = via[c] /\ at'[c] = at[c] + 1
          /\ target'[c] = via[c].order[at[c] + 1] /\ ans'[c] = "first"
          /\ denied'[c] = denied[c] /\ unreachable'[c] = failed
      BY <2>3 DEF TypeOK, WalkOn, Probe, Goto
    <3>2. ASSUME ~failed, NEW i \in 1 .. at[c] PROVE via[c].order[i] \in denied[c]
      <4>1. CASE i = at[c]
        BY <2>0, <2>3, <3>2, <4>1
      <4>2. CASE i # at[c]
        <5>. i \in 1 .. at[c] - 1
          BY <2>0, <4>2 DEF TypeOK
        <5>. QED
          BY <2>0, <3>2 DEF BeforeDenied
      <4>. QED
        BY <4>1, <4>2
    <3>3. at'[c] - 1 = at[c]
      BY <3>1 DEF TypeOK
    <3>4. BeforeDenied(c)'
      BY <3>1, <3>2, <3>3 DEF BeforeDenied
    <3>. QED
      BY <1>0, <2>0, <2>3, <3>1, <3>4 DEF Progress, OnWalk
  <2>4. CASE d = c /\ GoOn(c, "negate") /\ ~failed /\ ans[c] # "found" /\ at[c] = Len(via[c].order)
    <3>1. ASSUME NEW i \in 1 .. Len(via[c].order) PROVE via[c].order[i] \in denied[c]
      <4>1. CASE i = at[c]
        BY <2>0, <2>4, <4>1
      <4>2. CASE i # at[c]
        <5>. i \in 1 .. at[c] - 1
          BY <2>0, <2>4, <4>2 DEF TypeOK
        <5>. QED
          BY <2>0, <2>4 DEF BeforeDenied
      <4>. QED
        BY <4>1, <4>2
    <3>2. Listed(via[c].order) \subseteq denied[c]
      BY <2>0, <3>1, OrderFacts
    <3>. QED
      BY <1>0, <2>0, <2>4, <3>2 DEF TypeOK, GoOn, Goto, Progress
  <2>. QED
    BY <1>2, <1>6, <2>1, <2>2, <2>3, <2>4 DEF Walk
<1>7. ASSUME NEW c \in Tasks, NEW status \in Statuses, Answer(c, status) PROVE Progress(d)'
  <2>1. CASE d = c
    <3>1. /\ pc'[c] = pc[c] /\ via'[c] = via[c] /\ target'[c] = target[c] /\ at'[c] = at[c]
          /\ unreachable'[c] = unreachable[c] /\ denied[c] \subseteq denied'[c]
      BY <1>7 DEF TypeOK, Answer
    <3>2. pc[c] \in Probing
      BY <1>7 DEF Answer
    <3>3. pc[c] = "walk" /\ ans'[c] = "missing" => target[c] \in denied'[c]
      BY <1>7 DEF TypeOK, Answer, OutcomeFrom
    <3>. QED
      BY <1>0, <2>1, <3>1, <3>2, <3>3 DEF Progress, OnWalk, BeforeDenied
  <2>2. CASE d # c
    BY <1>1, <1>7, <2>2, LocalsTyped
       DEF LocalsPerCall, PerCall, Answer, Untouched
  <2>. QED
    BY <2>1, <2>2
<1>8. ASSUME NEW c \in Tasks, Token(c) \/ Timeout(c) PROVE Progress(d)'
  <2>1. CASE d = c
    <3>1. /\ pc'[c] = pc[c] /\ via'[c] = via[c] /\ target'[c] = target[c] /\ at'[c] = at[c]
          /\ unreachable'[c] = unreachable[c] /\ denied[c] = denied'[c] /\ ans'[c] # "missing"
          /\ pc[c] \in Probing
      BY <1>8 DEF TypeOK, Token, Timeout
    <3>. QED
      BY <1>0, <2>1, <3>1 DEF Progress, OnWalk, BeforeDenied
  <2>2. CASE d # c
    BY <1>1, <1>8, <2>2, LocalsTyped
       DEF LocalsPerCall, PerCall, Token, Timeout, Untouched
  <2>. QED
    BY <2>1, <2>2
<1>9. ASSUME \/ \E o \in Orders : NewRouter(o)
             \/ \E c \in Tasks : ResolveUnknown(c)
             \/ Tick
             \/ UNCHANGED vars
      PROVE  Progress(d)'
  BY <1>1, <1>9 DEF NewRouter, ResolveUnknown, Tick, vars, Untouched
<1>10. ASSUME NEW c \in Tasks, TakeHint(c) \/ Record(c) \/ Negate(c) \/ Cancel(c) PROVE Progress(d)'
  BY <1>2, <1>10 DEF TakeHint, Record, Negate, Cancel
<1>. QED
  BY <1>3, <1>4, <1>5, <1>6, <1>7, <1>8, <1>9, <1>10 DEF Next, Advance

-----------------------------------------------------------------------------
(* A call past its probes on a router of the memo's generation is on one of    *)
(* the memo's order: what it found or has been denied counts for that order.   *)
LEMMA SameOrder ==
    ASSUME IInv, NEW c \in Tasks, pc[c] # "idle", via[c].generation = generation
    PROVE  via[c].order = order
BY RouterOfCall DEF IInv, RoutersCurrent

(* What the memo says after a step was so before, or a walk has just           *)
(* established it.                                                             *)
LEMMA MemoStep == IInv /\ [Next]_vars => MemoOfCurrentOrder' /\ NegativeConfirmed'
<1>. SUFFICES ASSUME IInv, [Next]_vars PROVE MemoOfCurrentOrder' /\ NegativeConfirmed'
  OBVIOUS
<1>. TypeOK /\ MemoOfCurrentOrder /\ NegativeConfirmed
  BY DEF IInv
<1>. USE DEF MemoOfCurrentOrder, NegativeConfirmed
<1>1. CASE UNCHANGED <<entries, negative, order, entryOrder, denial>>
  BY <1>1
<1>2. ASSUME NEW o \in Orders, NewRouter(o) PROVE MemoOfCurrentOrder' /\ NegativeConfirmed'
  BY <1>1, <1>2 DEF NewRouter
<1>3. ASSUME NEW c \in Tasks, Discard(c) PROVE MemoOfCurrentOrder' /\ NegativeConfirmed'
  BY <1>3 DEF Discard, TypeOK
<1>4. ASSUME NEW c \in Tasks, Record(c) PROVE MemoOfCurrentOrder' /\ NegativeConfirmed'
  <2>1. target[c] \in Listed(via[c].order)
    BY <1>4 DEF Record, IInv, CallsProgress, Progress
  <2>2. CASE via[c].generation = generation
    <3>1. via[c].order = order
      BY <1>4, <2>2, SameOrder DEF Record
    <3>2. /\ entries' = [entries EXCEPT ![repo[c]] = target[c]]
          /\ entryOrder' = [entryOrder EXCEPT ![repo[c]] = order]
          /\ UNCHANGED <<negative, order, denial>>
      BY <1>4, <2>2, <3>1 DEF Record
    <3>. QED
      BY <2>1, <3>1, <3>2 DEF TypeOK
  <2>3. CASE via[c].generation # generation
    BY <1>1, <1>4, <2>3 DEF Record
  <2>. QED
    BY <2>2, <2>3
<1>5. ASSUME NEW c \in Tasks, Negate(c) PROVE MemoOfCurrentOrder' /\ NegativeConfirmed'
  <2>1. Listed(via[c].order) \subseteq denied[c]
    BY <1>5 DEF Negate, IInv, CallsProgress, Progress
  <2>2. CASE via[c].generation = generation
    <3>1. via[c].order = order
      BY <1>5, <2>2, SameOrder DEF Negate
    <3>2. /\ negative' = [negative EXCEPT ![repo[c]] = NegativeTtl]
          /\ denial' = [denial EXCEPT ![repo[c]] = [order |-> order, by |-> denied[c]]]
          /\ UNCHANGED <<entries, order, entryOrder>>
      BY <1>5, <2>2, <3>1 DEF Negate
    <3>. QED
      BY <2>1, <3>1, <3>2 DEF TypeOK
  <2>3. CASE via[c].generation # generation
    BY <1>1, <1>5, <2>3 DEF Negate
  <2>. QED
    BY <2>2, <2>3
<1>6. ASSUME Tick PROVE MemoOfCurrentOrder' /\ NegativeConfirmed'
  <2>1. UNCHANGED <<entries, order, entryOrder>>
    BY <1>6 DEF Tick
  <2>2. ASSUME NEW r \in Repositories, negative'[r] > 0
        PROVE  negative[r] > 0 /\ denial'[r] = denial[r]
    BY <1>6, <2>2 DEF Tick, TypeOK
  <2>. QED
    BY <2>1, <2>2
<1>7. ASSUME NEW c \in Tasks,
             TakeHint(c) \/ ReadMemo(c) \/ TakeMemo(c) \/ CheckNegative(c) \/ Walk(c) \/ Timeout(c)
      PROVE  MemoOfCurrentOrder' /\ NegativeConfirmed'
  BY <1>1, <1>7 DEF TakeHint, ReadMemo, TakeMemo, CheckNegative, Walk, Timeout
<1>8. ASSUME NEW c \in Tasks,
             \/ \E r \in Repositories, rt \in routers :
                   Resolve(c, r, rt) \/ \E hint \in Upstreams : ResolveHint(c, r, rt, hint)
             \/ ResolveUnknown(c) \/ Token(c) \/ Cancel(c)
             \/ \E status \in Statuses : Answer(c, status)
      PROVE  MemoOfCurrentOrder' /\ NegativeConfirmed'
  BY <1>1, <1>8 DEF Resolve, ResolveHint, ResolveUnknown, Token, Cancel, Answer
<1>9. CASE UNCHANGED vars
  BY <1>1, <1>9 DEF vars
<1>. QED
  BY <1>2, <1>3, <1>4, <1>5, <1>6, <1>7, <1>8, <1>9 DEF Next, Advance

(* The memo of the first router is empty.                                      *)
LEMMA InitInvariant == Init => IInv
<1>. SUFFICES ASSUME Init PROVE IInv
  OBVIOUS
<1>1. TypeOK
  BY DurationsType, RepositoriesType DEF Init, TypeOK, RouterOf, NoRouter, NoDenial
<1>. QED
  BY <1>1 DEF Init, IInv, RoutersCurrent, RouterOf, CallsProgress, Progress,
              MemoOfCurrentOrder, NegativeConfirmed

(* The invariant is inductive.                                                 *)
LEMMA InvariantStep == IInv /\ [Next]_vars => IInv'
BY TypeStep, RoutersStep, CallsStep, MemoStep DEF IInv

(* It holds of every reachable state.                                          *)
LEMMA Invariant == Spec => []IInv
BY InitInvariant, InvariantStep, PTL DEF Spec

(* TypeOK of Router for every instance: no walk leaves its list.               *)
THEOREM TypeCorrect == Spec => []TypeOK
BY Invariant, PTL DEF IInv

(* REQ-0058: calls on routers of older orders, however many changes of order   *)
(* ago, write nothing into the memo of the current one.                        *)
THEOREM MemoCurrent == Spec => []MemoOfCurrentOrder
BY Invariant, PTL DEF IInv

(* REQ-0004: a negative entry has every upstream of the order behind it, for   *)
(* lists of any length and whatever fails or is slow on the way.               *)
THEOREM NegativesConfirmed == Spec => []NegativeConfirmed
BY Invariant, PTL DEF IInv

(* REQ-0004, REQ-0056: "not found" has one walk behind it in which every       *)
(* upstream has said so.                                                       *)
THEOREM MissingHasWalk == Spec => MissingConfirmed
<1>1. ASSUME IInv, [Next]_vars, NEW c \in Tasks, Missing(c), via[c].generation = generation
      PROVE  \E by \in {denied[c], denial[repo[c]].by} : Listed(order) \subseteq by
  <2>0. TypeOK
    BY <1>1 DEF IInv
  <2>1. via[c].order = order
    BY <1>1, SameOrder DEF Missing
  <2>2. ASSUME CheckNegative(c) PROVE Listed(order) \subseteq denial[repo[c]].by
    <3>1. pc'[c] = "idle" => negative[repo[c]] > 0
      BY <2>0, <2>2 DEF CheckNegative, Probe, GoOn, Goto, TypeOK
    <3>. QED
      BY <1>1, <2>0, <3>1 DEF Missing, IInv, NegativeConfirmed, TypeOK
  <2>3. ASSUME Negate(c) PROVE Listed(order) \subseteq denied[c]
    BY <2>1, <2>3, <1>1 DEF Negate, IInv, CallsProgress, Progress
  <2>4. ASSUME NEW d \in Tasks, Advance(d) \/ Cancel(d), ~CheckNegative(c), ~Negate(c)
        PROVE  FALSE
    <3>1. CASE d # c
      <4>1. pc'[c] = pc[c]
        BY <2>0, <2>4, <3>1
           DEF TypeOK, Advance, TakeHint, ReadMemo, TakeMemo, Discard, CheckNegative, Walk,
               WalkOn, Record, Negate, Timeout, Cancel, Return, Probe, GoOn, Goto
      <4>. QED
        BY <1>1, <4>1 DEF Missing
    <3>2. CASE d = c
      <4>1. pc'[c] # "idle" \/ \E r \in {"ok", "unreachable", "none"} : Return(c, r)
        BY <2>0, <2>4, <3>2
           DEF TypeOK, Advance, TakeHint, ReadMemo, TakeMemo, Discard, Walk,
               WalkOn, Record, Timeout, Cancel, Probe, GoOn, Goto
      <4>. QED
        BY <1>1, <2>0, <4>1 DEF Missing, Return, TypeOK
    <3>. QED
      BY <3>1, <3>2
  <2>5. ASSUME NEW d \in Tasks, NEW r \in Repositories, NEW rt \in routers,
               \/ Resolve(d, r, rt)
               \/ \E hint \in Upstreams : ResolveHint(d, r, rt, hint)
        PROVE  pc'[c] = pc[c] \/ pc'[c] # "idle"
    BY <2>0, <2>5 DEF TypeOK, Resolve, ResolveHint, Probe, Goto
  <2>. QED
    BY <1>1, <2>2, <2>3, <2>4, <2>5
       DEF Missing, Next, NewRouter, ResolveUnknown, Answer, Token, Tick, vars
<1>2. IInv /\ [Next]_vars =>
         [\A c \in Tasks : Missing(c) /\ via[c].generation = generation =>
             \E by \in {denied[c], denial[repo[c]].by} : Listed(order) \subseteq by]_vars
  BY <1>1
<1>. QED
  BY <1>2, Invariant, PTL DEF Spec, MissingConfirmed
=============================================================================
