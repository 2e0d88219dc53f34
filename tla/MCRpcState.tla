----------------------------- MODULE MCRpcState -----------------------------
(***************************************************************************)
(* A session for TLC: one binder of the server and one of the client, each  *)
(* with an address of its own.                                              *)
(***************************************************************************)
EXTENDS RpcState

CONSTANTS b1, b2, a1, a2, t1, t2

MCHome == [b \in Binders |-> IF b = b1 THEN "server" ELSE "client"]
MCBinderAt == [a \in Addresses |-> IF a = a1 THEN b1 ELSE b2]

=============================================================================
