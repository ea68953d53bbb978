-------------------------- MODULE MCClientRegistry --------------------------
(***************************************************************************)
(* An instance of ClientRegistry for TLC: three connections, two of them   *)
(* from one address, and a counter that wraps around at four.              *)
(***************************************************************************)
EXTENDS ClientRegistry, TLC

CONSTANTS c1, c2, c3, a, b

MCConn == {c1, c2, c3}
MCIP == c1 :> a @@ c2 :> b @@ c3 :> a
=============================================================================
