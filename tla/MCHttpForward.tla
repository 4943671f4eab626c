----------------------------- MODULE MCHttpForward ----------------------------
(***************************************************************************)
(* HttpForward on two gateways: see the .cfg files.                        *)
(***************************************************************************)
EXTENDS HttpForward, TLC

CONSTANTS a, b, r1, r2

\* Both requests are for services at b.
TargetBB == r1 :> b @@ r2 :> b

\* Both clients ask a.
EntryAA == r1 :> a @@ r2 :> a

\* The second client asks b itself, which cannot dial itself.
EntryAB == r1 :> a @@ r2 :> b
===============================================================================
