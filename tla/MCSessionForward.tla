--------------------------- MODULE MCSessionForward ---------------------------
(***************************************************************************)
(* SessionForward with two sessions of one kind between two gateways,      *)
(* which share all maps: see the .cfg file.                                *)
(***************************************************************************)
EXTENDS SessionForward, TLC

CONSTANTS a, b, s1, s2

SameKind == {s1 :> k @@ s2 :> k : k \in {"ws", "socket"}}
FromA == s1 :> a @@ s2 :> a
ToB == s1 :> b @@ s2 :> b
===============================================================================
