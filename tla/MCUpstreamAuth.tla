---------------------------- MODULE MCUpstreamAuth ----------------------------
(* UpstreamAuth for a registry that wants no tokens, one that issues them      *)
(* itself and leniently, one with a separate issuer, strict and lenient, for   *)
(* an operator with credentials, one whose issuer is not the configured one,   *)
(* and one without encryption.                                                 *)
EXTENDS UpstreamAuth

CONSTANTS registry, issuer

Realm(scheme, host, port) == [scheme |-> scheme, host |-> host, port |-> port]
Own == Realm("https", registry, 443)
OtherPort == Realm("https", registry, 8443)
Issuer == Realm("https", issuer, 443)
Plain == Realm("http", registry, 80)
AllRealms == {Own, OtherPort, Issuer, Plain}

Configured(realm, token_host, credentials) ==
    [scheme |-> realm.scheme, host |-> realm.host, port |-> realm.port,
     token_host |-> token_host, credentials |-> credentials]

Setup(upstream, demand, lenient) ==
    [upstream |-> upstream, demand |-> demand, lenient |-> lenient]

AllSetups ==
    {Setup(Configured(Own, NoHost, FALSE), Anonymous, FALSE),
     Setup(Configured(Own, NoHost, FALSE), Own, TRUE),
     Setup(Configured(Own, NoHost, FALSE), OtherPort, TRUE),
     Setup(Configured(Own, issuer, TRUE), Issuer, TRUE),
     Setup(Configured(Plain, NoHost, TRUE), Plain, FALSE)}
=============================================================================
