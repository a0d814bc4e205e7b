--------------------------- MODULE OrderedChannel ---------------------------
(***************************************************************************)
(* What an IPC channel promises to the two programs at its ends: on every  *)
(* handle the messages are numbered in the order of the calls of send, and *)
(* onmessage is called with them in that order, none twice, none skipped.  *)
(* It may stop at any point (page gone, message lost): what is delivered   *)
(* is then a prefix of what was sent.                                      *)
(***************************************************************************)
EXTENDS Naturals, Sequences

CONSTANT Handles

VARIABLES
  sent,       \* how many messages were sent on each handle
  delivered   \* the numbers of the messages onmessage was called with

vars == <<sent, delivered>>

Init ==
  /\ sent = [h \in Handles |-> 0]
  /\ delivered = [h \in Handles |-> <<>>]

Send(h) ==
  /\ sent' = [sent EXCEPT ![h] = @ + 1]
  /\ UNCHANGED delivered

\* The next message, if it has been sent.
Deliver(h) ==
  /\ Len(delivered[h]) < sent[h]
  /\ delivered' = [delivered EXCEPT ![h] = Append(@, Len(@))]
  /\ UNCHANGED sent

Next == \E h \in Handles : Send(h) \/ Deliver(h)

Spec == Init /\ [][Next]_vars
=============================================================================
