----------------------------- MODULE MCChannel -----------------------------
(* Instances of Channel for TLC. *)
EXTENDS Channel, TLC

CONSTANTS h1, h2, c1, c2

\* one handle per channel of the page
MCChannelOf == (h1 :> c1) @@ (h2 :> c2)

\* two messages of one handle can overtake a third, or one of another handle
MCSendBounds == {(h1 :> 3) @@ (h2 :> 0), (h1 :> 2) @@ (h2 :> 1)}

\* the page passes the same channel to two commands
MCShared == [h \in {h1, h2} |-> c1]
=============================================================================
