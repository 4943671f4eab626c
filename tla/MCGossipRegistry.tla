--------------------------- MODULE MCGossipRegistry ---------------------------
(***************************************************************************)
(* GossipRegistry on a network of three gateways: see the .cfg             *)
(* files.  The gateways are named, so that the .cfg files can say which of *)
(* them are connected at the start.                                        *)
(***************************************************************************)
EXTENDS GossipRegistry

CONSTANTS n1, n2, n3
===============================================================================
