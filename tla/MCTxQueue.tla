------------------------------- MODULE MCTxQueue -------------------------------
(***************************************************************************)
(* Instances of CTTxQueue for TLC.                                         *)
(***************************************************************************)
EXTENDS CTTxQueue, TLC

CONSTANTS http, reql, q1, q2, main, other

MCConns == {http, reql}
MCQueues == {q1, q2}

\* Every connection has a txQueue of its own ...
OwnQueue == http :> q1 @@ reql :> q2

\* ... or both share one, as in the HappyEyeballs sample.
OneQueue == http :> q1 @@ reql :> q1

\* The main thread sends on both connections ...
OneSender == http :> {main} @@ reql :> {main}

\* ... or each has a thread of its own.
OwnSender == http :> {main} @@ reql :> {other}
==============================================================================
