---------------------------- MODULE MCRequestPath -----------------------------
(***************************************************************************)
(* RequestPath with one segment of each kind the patterns tell apart.      *)
(***************************************************************************)
EXTENDS RequestPath

CONSTANTS a, b, u

Seg(version, ws, lead, ids) ==
    [version |-> version, ws |-> ws, lead |-> lead, behind |-> "other",
     runs |-> [i \in DOMAIN ids |-> [service |-> ids[i], user |-> u]]]

NoSegment == Seg(FALSE, FALSE, "none", <<>>)
Kinds ==
    {NoSegment,
     Seg(TRUE, FALSE, "all", <<>>),         \* v1
     Seg(FALSE, TRUE, "all", <<>>),         \* ws
     Seg(FALSE, FALSE, "all", <<>>),        \* testkey
     Seg(FALSE, FALSE, "all", <<a>>),       \* aaaaaaaaaahello
     Seg(FALSE, FALSE, "all", <<b>>),       \* bbbbbbbbbbhello
     Seg(FALSE, TRUE, "all", <<b>>),        \* wsbbbbbbbbhello
     Seg(FALSE, FALSE, "part", <<a>>),      \* aaaaaaaaaahello.json
     Seg(FALSE, FALSE, "none", <<a>>),      \* @aaaaaaaaaahello
     Seg(FALSE, FALSE, "part", <<a, b>>)}   \* aaaaaaaaaahello.bbbbbbbbbbhello
    \cup {[Seg(FALSE, FALSE, "part", <<a>>) EXCEPT !.behind = dots] :
             dots \in {"dot", "dots"}}      \* aaaaaaaaaahello. and ..

ProviderPath == <<[segment |-> Seg(FALSE, FALSE, "all", <<>>), from |-> "start"]>>
===============================================================================
