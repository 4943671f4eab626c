--------------------------- MODULE ServiceDirectory ---------------------------
(***************************************************************************)
(* What the service tables of one gateway promise the rest of the program: *)
(* a directory from service ids to (service record, peer) pairs, changed   *)
(* and read in single steps.  The gateway keeps that directory in two Go   *)
(* maps, services and servicePeerMapping, written one after the other;     *)
(* NodeRegistry is the detailed specification and implements this one.     *)
(***************************************************************************)

CONSTANTS
    Self,         \* the gateway's own peer id (selfID)
    Peers,        \* the other gateways
    ServiceIds,   \* keys of the two maps
    Contents,     \* service records (models.ApronService)
    Clients,      \* goroutines that look a service up
    None          \* no entry

VARIABLES
    directory,    \* directory[id]: the entry of id, or None
    answers       \* answers[c]: what the last lookup of c returned

dirVars == <<directory, answers>>

Entries == [svc : Contents, peer : Peers \cup {Self}]

DirInit ==
    /\ directory = [id \in ServiceIds |-> None]
    /\ answers = [c \in Clients |-> None]

\* A service is added or replaced together with the peer that serves it.
Put(id, entry) ==
    /\ directory' = [directory EXCEPT ![id] = entry]
    /\ UNCHANGED answers

\* A service is removed because somebody deleted it.
Remove(id) ==
    /\ directory' = [directory EXCEPT ![id] = None]
    /\ UNCHANGED answers

\* A lookup returns the entry the directory holds at one instant, both
\* halves of it from the same registration.
Lookup(c, id) ==
    /\ answers' = [answers EXCEPT ![c] = directory[id]]
    /\ UNCHANGED directory

\* The answer has been used; the client may ask again.
Forget(c) ==
    /\ answers' = [answers EXCEPT ![c] = None]
    /\ UNCHANGED directory

DirNext ==
    \/ \E id \in ServiceIds, entry \in Entries : Put(id, entry)
    \/ \E id \in ServiceIds : Remove(id)
    \/ \E c \in Clients, id \in ServiceIds : Lookup(c, id)
    \/ \E c \in Clients : Forget(c)

DirSpec == DirInit /\ [][DirNext]_dirVars
===============================================================================
