--------------------------- MODULE MCWsOperation ---------------------------
(* Instances of WsOperation for TLC.                                       *)
EXTENDS WsOperation, TLC

SyncOps     == {"CONNECT", "READ", "WRITE", "DISCONNECT"}
TransferOps == {"CONNECT", "READ", "WRITE"}

Symmetry == Permutations(Wsi) \cup Permutations(Key)
=============================================================================
