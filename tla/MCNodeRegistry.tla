---------------------------- MODULE MCNodeRegistry ----------------------------
(***************************************************************************)
(* NodeRegistry on small instances: see the .cfg files.                    *)
(***************************************************************************)
EXTENDS NodeRegistry, TLC

\* Services, peers and goroutines of one kind are interchangeable; used by the
\* runs that check safety only.
Symmetry ==
    Permutations(ServiceIds) \cup Permutations(Peers) \cup Permutations(Handlers)
    \cup Permutations(Clients)
===============================================================================
