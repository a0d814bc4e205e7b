---------------------------- MODULE MCListeners ----------------------------
(* Instances of Listeners for TLC. *)
EXTENDS Listeners

CONSTANTS w1, w2

MCTargets == {Any, w1, w2}
\* emit (no filter) and emit_to the first label
MCFilters == {MCTargets, {w1}}
\* no filter, when every listener is registered for any target
MCAny == {{Any}}
=============================================================================
