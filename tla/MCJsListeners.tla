--------------------------- MODULE MCJsListeners ---------------------------
(***************************************************************************)
(* A small instance of JsListeners for TLC.                                *)
(***************************************************************************)
EXTENDS JsListeners, TLC

CONSTANTS w1, w2

Target(k, l) == [kind |-> k, label |-> l]

\* w1 listens to all events and once to those for itself; w2 listens for w1's
\* close requests.
MCListens ==
  {[webview |-> w1, event |-> "custom", target |-> [kind |-> "Any"], once |-> FALSE],
   [webview |-> w1, event |-> "custom", target |-> Target("Webview", w1), once |-> TRUE],
   [webview |-> w2, event |-> "close-requested", target |-> Target("WebviewWindow", w1), once |-> FALSE]}

MCEmits ==
  {[event |-> "custom", sel |-> Target("AnyLabel", w1)],
   [event |-> "custom", sel |-> Target("Webview", w2)]}

\* Two listeners and one emission, or one listener and two emissions.
MCBounds == {[listens |-> 2, emits |-> 1], [listens |-> 1, emits |-> 2]}

\* w1 is reloaded or created anew; w2 is a second page that listens to it.
MCMaxPages == (w1 :> 2) @@ (w2 :> 1)
=============================================================================
