---------------------------- MODULE MCLifecycle ----------------------------
(* Instances of Lifecycle for TLC. *)
EXTENDS Lifecycle, TLC

CONSTANTS t1, t2, a, b

\* a builder with a label of its own
MCOwnLabel == t1 :> {a}

\* two builders that use the same label
MCSameLabel == [t \in {t1, t2} |-> {a}]
=============================================================================
