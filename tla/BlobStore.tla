------------------------------ MODULE BlobStore ------------------------------
(* What a content-addressed blob cache promises its callers, whatever its      *)
(* locks, temporary files, cancellations and crashes: the store holds a blob   *)
(* entirely or not at all, and a caller is answered "ok" only if the blob it   *)
(* asked for was there at some instant between its question and the answer.    *)
(* (An eviction may take it away again before the caller reads it.)            *)

CONSTANTS Callers, Digests

VARIABLES
    store,      \* store[d]: "absent" or "complete"
    asked,      \* asked[c]: the digest c last asked for
    waiting,    \* the callers that have asked and have no answer yet
    witnessed,  \* the callers whose blob was in the store since they asked
    outcome     \* outcome[c]: "none", or the last answer, "ok" or "err"

vars == <<store, asked, waiting, witnessed, outcome>>

Init ==
    /\ store \in [Digests -> {"absent", "complete"}]
    /\ asked \in [Callers -> Digests]
    /\ waiting = {}
    /\ witnessed = {}
    /\ outcome = [c \in Callers |-> "none"]

Ask(c, d) ==
    /\ c \notin waiting
    /\ asked' = [asked EXCEPT ![c] = d]
    /\ waiting' = waiting \union {c}
    /\ witnessed' = witnessed \ {c}
    /\ outcome' = [outcome EXCEPT ![c] = "none"]
    /\ UNCHANGED store

(* The blob of a waiting caller is in the store, put there now or before.      *)
Witness(c) ==
    /\ c \in waiting
    /\ store' \in {store, [store EXCEPT ![asked[c]] = "complete"]}
    /\ store'[asked[c]] = "complete"
    /\ witnessed' = witnessed \union {c}
    /\ UNCHANGED <<asked, waiting, outcome>>

(* The answer to c is settled; c goes on waiting for it, or has it at once.    *)
Settle(c) ==
    /\ c \in waiting
    /\ waiting' \in {waiting, waiting \ {c}}
    /\ \/ /\ c \in witnessed \/ store[asked[c]] = "complete"
          /\ outcome' = [outcome EXCEPT ![c] = "ok"]
          /\ witnessed' = witnessed \union {c}
       \/ /\ outcome' = [outcome EXCEPT ![c] = "err"]
          /\ witnessed' = witnessed \ {c}
    /\ UNCHANGED <<store, asked>>

Answer(c) ==
    /\ c \in waiting
    /\ outcome[c] # "none"
    /\ waiting' = waiting \ {c}
    /\ UNCHANGED <<store, asked, witnessed, outcome>>

Put(d)  == store' = [store EXCEPT ![d] = "complete"] /\ UNCHANGED <<asked, waiting, witnessed, outcome>>
Drop(d) == store' = [store EXCEPT ![d] = "absent"] /\ UNCHANGED <<asked, waiting, witnessed, outcome>>

(* A crash answers nobody and may lose or bring back whole blobs only.         *)
Crash ==
    /\ store' \in [Digests -> {"absent", "complete"}]
    /\ waiting' = {}
    /\ witnessed' = {}
    /\ outcome' = [c \in Callers |-> "none"]
    /\ UNCHANGED asked

Next ==
    \/ \E c \in Callers :
          \/ \E d \in Digests : Ask(c, d)
          \/ Witness(c)
          \/ Settle(c)
          \/ Answer(c)
    \/ \E d \in Digests : Put(d) \/ Drop(d)
    \/ Crash

Spec == Init /\ [][Next]_vars
=============================================================================
