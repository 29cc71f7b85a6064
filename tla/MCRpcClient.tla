---------------------------- MODULE MCRpcClient ----------------------------
(* The main loop and one HTTP worker over pipes that hold one line.        *)
EXTENDS RpcClient
CONSTANTS main, w1
MCWorkers == {w1}
=============================================================================
