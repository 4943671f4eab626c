------------------------------- MODULE MCFraming ------------------------------
(***************************************************************************)
(* Framing with three messages, empty, shorter and longer than the buffer. *)
(***************************************************************************)
EXTENDS Framing, TLC

CONSTANTS m1, m2, m3

\* The streams between gateways, and the connections of the service agent.
StreamsAndAgent == {[keepsWrites |-> TRUE, newReader |-> TRUE],
                    [keepsWrites |-> FALSE, newReader |-> FALSE]}

\* The connection between a client and the socket forwarder, and that of the
\* client agent.
ClientSockets == {[keepsWrites |-> FALSE, newReader |-> TRUE]}

Sizes == m1 :> 0 @@ m2 :> 2 @@ m3 :> 5
===============================================================================
