---------------------------- MODULE MCWsReceive -----------------------------
(* Instances of WsReceive for TLC.                                         *)
EXTENDS WsReceive

AllOrNone == [server : BOOLEAN, handler : {"takes", "leaves"}]

MixedClient == {[server |-> FALSE, handler |-> "mixed"]}

=============================================================================
