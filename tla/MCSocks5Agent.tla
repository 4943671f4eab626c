---------------------------- MODULE MCSocks5Agent -----------------------------
(***************************************************************************)
(* Socks5Agent with the clients of one client agent: see the .cfg file.    *)
(***************************************************************************)
EXTENDS Socks5Agent, TLC

\* Clients are alike.
Symmetry == Permutations(Clients)
===============================================================================
