------------------------------ MODULE MCInvoke ------------------------------
(* Instances of Invoke for TLC. *)
EXTENDS Invoke, TLC

CONSTANTS c1, c2

\* One call of every kind, with every answer, beside one that is as it should be.
MCSends == (c1 :> Kinds) @@ (c2 :> {"plain"})
MCAnswers == (c1 :> Results) @@ (c2 :> {"ok", "error"})

\* Two calls in one page, or one call and a reload of its page.
MCBounds == {[calls |-> 2, pages |-> 1], [calls |-> 1, pages |-> 2]}
=============================================================================
