---------------------------- MODULE MCConnectQueue ----------------------------
(***************************************************************************)
(* Instances of CTConnectQueue for TLC: a target without a handshake, one  *)
(* with TLS, and one with TLS behind a proxy.                              *)
(***************************************************************************)
EXTENDS CTConnectQueue, TLC

CONSTANTS plain, secure, proxied

MCTargets == {plain, secure, proxied}

MCHandshakes ==
  plain :> <<>> @@ secure :> <<"tls">> @@ proxied :> <<"proxy", "tls">>
==============================================================================
