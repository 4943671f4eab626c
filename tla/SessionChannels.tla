---------------------------- MODULE SessionChannels ---------------------------
(***************************************************************************)
(* What the sessions of the gateways promise: every session is a pair of   *)
(* channels, one to the service and one to the client.  A channel hands    *)
(* over the messages of its own sender, each once and in order.  When it   *)
(* is cut off, the receiver may still get the first few of those that are  *)
(* on their way; a sender may go on without noticing, and what is taken    *)
(* from it then is lost.  Messages are numbered by their sender.           *)
(***************************************************************************)
EXTENDS Naturals, Sequences

CONSTANT Channels

VARIABLES
    taken,    \* taken[c]: messages taken from the sender
    got,      \* got[c]: what the receiver has got
    due,      \* due[c]: messages it has got or may still get
    cut       \* channels that are cut off

vars == <<taken, got, due, cut>>

Init ==
    /\ taken = [c \in Channels |-> 0]
    /\ got = [c \in Channels |-> <<>>]
    /\ due = [c \in Channels |-> 0]
    /\ cut = {}

Take(c) ==
    /\ c \notin cut
    /\ taken' = [taken EXCEPT ![c] = @ + 1]
    /\ due' = [due EXCEPT ![c] = @ + 1]
    /\ UNCHANGED <<got, cut>>

Deliver(c) ==
    /\ Len(got[c]) < due[c]
    /\ got' = [got EXCEPT ![c] = Append(@, Len(@) + 1)]
    /\ UNCHANGED <<taken, due, cut>>

\* Channels are cut off; what was on its way may not arrive.
Cuts ==
    /\ cut \subseteq cut'
    /\ cut' \in SUBSET Channels
    /\ due' \in [Channels -> Nat]
    /\ \A c \in Channels : /\ Len(got[c]) <= due'[c] /\ due'[c] <= due[c]
                           /\ c \notin cut' => due'[c] = due[c]

CutOff == Cuts /\ UNCHANGED <<taken, got>>

\* A message for a channel that is cut off; other channels may be cut off when
\* the sender's side notices.
Lose(c) ==
    /\ c \in cut
    /\ taken' = [taken EXCEPT ![c] = @ + 1]
    /\ Cuts
    /\ UNCHANGED got

Next == CutOff \/ \E c \in Channels : Take(c) \/ Deliver(c) \/ Lose(c)

Spec == Init /\ [][Next]_vars

\* What was taken arrives, unless the channel is cut off.
Arrives ==
    \A c \in Channels :
      (Len(got[c]) < taken[c]) ~> (Len(got[c]) = taken[c] \/ c \in cut)
===============================================================================
