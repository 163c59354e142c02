----------------------------- MODULE MCRpcClient -----------------------------
(* Small instances of RpcClient for TLC. *)
EXTENDS RpcClient
=============================================================================
