------------------------------- MODULE MCRouter -------------------------------
(* Router on small instances: two upstreams, of which one configuration lists  *)
(* both, another only the second, and a third none.                            *)
EXTENDS Router

CONSTANTS hub, ghcr

BothOneNone == {<<hub, ghcr>>, <<ghcr>>, <<>>}
=============================================================================
