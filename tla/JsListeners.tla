---------------------------- MODULE JsListeners ----------------------------
(***************************************************************************)
(* Event listeners of pages.  A page registers a handler with the listen   *)
(* command of the event plugin; a worker thread takes an id, has the page  *)
(* install the handler under that id (listen_js_script), and only then     *)
(* enters the id in js_event_listeners, the table emit reads.  Emitting    *)
(* evaluates, in every webview with matching entries, a script that calls  *)
(* the handlers of the ids found.  unlisten removes the handler, then the  *)
(* entry.                                                                  *)
(*                                                                         *)
(* Scripts of worker threads travel as EvaluateScript messages through the *)
(* event loop; the main thread evaluates its own at once.  Messages to     *)
(* different webviews commute, so the loop is one queue per webview.       *)
(* Neither a reload nor the end of a webview clears its table entries.     *)
(*                                                                         *)
(* A listener carries, besides what the program stores, the page that made *)
(* it: its handler is a property of that page's window, so an object the   *)
(* script installs in a later page has no handler.                         *)
(***************************************************************************)
EXTENDS Naturals, Sequences

CONSTANTS
  Labels,    \* labels of webview windows
  Listens,   \* what pages listen to: webview, event, target, and listen or once
  Emits,     \* what is emitted: an event and the target given to emit_to
  Bounds,    \* bounds, taken together: ids, emits and close requests
  MaxPages   \* bound: pages ever loaded under each label

VARIABLES
  webviews,            \* labels in the manager's table of webviews
  page,                \* page[l]: number of the last page loaded under l
  born,                \* born[l]: the first page of the webview that has or had l
  objects,             \* objects[l]: the listeners object of l's current page
  loop,                \* loop[l]: EvaluateScript messages under way to l
  js_event_listeners,  \* the table, over all webviews and events
  next_event_id,
  listening,           \* listen commands: the listener, and how far they are
  unlistening,         \* unlisten commands likewise
  main,                \* what the main thread is doing
  emits,               \* number of emits so far
  leaving,             \* history: ids some page called unlisten for
  heard,               \* history: handlers called, and the target emitted to
  missed,              \* history: entries an emit named and the page had no handler for
  swallowed            \* history: close requests prevented that no handler heard

vars == <<webviews, page, born, objects, loop, js_event_listeners, next_event_id,
          listening, unlistening, main, emits, leaving, heard, missed, swallowed>>

Events == {"close-requested", "custom"}

Labelled == {"AnyLabel", "Window", "Webview", "WebviewWindow"}

EventTarget == [kind : {"Any", "App"}] \cup [kind : Labelled, label : Labels]

\* emit_to's argument, or the windows-only filter of emit_to_window.
Selector == EventTarget \cup [kind : {"OfWindow"}, label : Labels]

ASSUME JsAssumption ==
  /\ Listens \subseteq [webview : Labels, event : Events, target : EventTarget, once : BOOLEAN]
  /\ Emits \subseteq [event : Events, sel : EventTarget]
  /\ Bounds \subseteq [listens : Nat, emits : Nat]
  /\ MaxPages \in [Labels -> Nat]

Listener == [id : Nat, webview : Labels, page : Nat, event : Events,
             target : EventTarget, once : BOOLEAN]

\* One of the bounds admits this many listen calls and emissions.
Within(listens, sent) == \E b \in Bounds : listens <= b.listens /\ sent <= b.emits

Idle == [at |-> "idle"]

----------------------------------------------------------------------------
\* Which listeners an emission is for.

\* The filters of emit_to and emit_to_window; emit has none.
Filter(sel, t) ==
  CASE sel.kind = "Any"      -> TRUE
    [] sel.kind = "App"      -> t.kind = "App"
    [] sel.kind = "AnyLabel" -> t.kind \in Labelled /\ t.label = sel.label
    [] sel.kind = "OfWindow" -> t.kind \in {"Window", "WebviewWindow"} /\ t.label = sel.label
    [] OTHER                 -> t.kind \in {"AnyLabel", sel.kind} /\ t.label = sel.label

MatchAnyOrFilter(sel, t) == t.kind = "Any" \/ Filter(sel, t)

\* Mutant: has_js_listener does not ask for the target.
WindowListenersOfAll(l) == {m \in js_event_listeners : m.event = "close-requested"}

\* has_js_listener asks every webview's entries, and the filter alone.
WindowListeners(l) ==
  {m \in js_event_listeners : /\ m.event = "close-requested"
                              /\ Filter([kind |-> "OfWindow", label |-> l], m.target)}

\* The entries of l an emission names: emit_js_filter.
Named(l, event, sel) ==
  {m \in js_event_listeners : /\ m.webview = l
                              /\ m.event = event
                              /\ MatchAnyOrFilter(sel, m.target)}

----------------------------------------------------------------------------
\* Scripts, and what they do in the page.

Script == [do : {"listen", "unlisten"}, listener : Listener]
            \cup [do : {"emit"}, event : Events, sel : Selector, to : SUBSET Listener]

\* m was made by the page l's webview shows now: its handler exists.
AtHome(m) == m.webview \in webviews /\ m.page = page[m.webview]

\* The listeners the emit function of the page is to call: looked up by id.
Called(l, event, to) ==
  {o \in objects[l] : /\ o.event = event
                      /\ \E m \in to : m.id = o.id
                      /\ AtHome(o)}

\* The listen script of m has not reached its page.
Underway(m) ==
  \E i \in DOMAIN loop[m.webview] :
    LET s == loop[m.webview][i] IN s.do = "listen" /\ s.listener.id = m.id

\* The handler of `once' starts an unlisten of its id.
OnceCalled(called) ==
  /\ unlistening' = unlistening \cup {[listener |-> o, at |-> "called"] : o \in {o \in called : o.once}}
  /\ leaving' = leaving \cup {o.id : o \in {o \in called : o.once}}

\* Whom the pages get to call of those due: the loop over the ids has no catch, so
\* a handler that throws ends it, and its page calls some of its listeners, not all.
Reached(due) == {called \in SUBSET due : \A o \in due : \E p \in called : p.webview = o.webview}

\* How no handler was called for the entry m; cut: its own was due, after one that threw.
Miss(m, due, overtaken) ==
  [listener |-> m, home |-> AtHome(m), overtaken |-> overtaken, cut |-> \E o \in due : o.id = m.id]

\* How the entries in `to' were heard or missed when called is who was called of
\* those due; now: the main thread emits, past the messages in the loop.
Record(called, due, event, sel, to, now) ==
  /\ heard' = heard \cup {[listener |-> o, event |-> event, sel |-> sel] : o \in called}
  /\ missed' = missed \cup {Miss(m, due, now /\ Underway(m)) :
                              m \in {m \in to : \A o \in called : o.id # m.id}}

\* The script s runs in l's page.
RunScript(l, s) ==
  \/ /\ s.do = "listen"
     /\ objects' = [objects EXCEPT ![l] =
          {o \in @ : o.id # s.listener.id \/ o.event # s.listener.event} \cup {s.listener}]
     /\ UNCHANGED <<unlistening, leaving, heard, missed>>
  \/ /\ s.do = "unlisten"
     /\ objects' = [objects EXCEPT ![l] =
          {o \in @ : o.id # s.listener.id \/ o.event # s.listener.event}]
     /\ UNCHANGED <<unlistening, leaving, heard, missed>>
  \/ /\ s.do = "emit"
     /\ LET due == Called(l, s.event, s.to)
        IN  \E called \in Reached(due) :
              /\ OnceCalled(called)
              /\ Record(called, due, s.event, s.sel, s.to, FALSE)
     /\ UNCHANGED objects

\* The main thread handles the next EvaluateScript message to l.
HandleEvaluateScript(l) ==
  /\ main = Idle
  /\ loop[l] # <<>>
  /\ loop' = [loop EXCEPT ![l] = Tail(@)]
  /\ RunScript(l, Head(loop[l]))
  /\ UNCHANGED <<webviews, page, born, js_event_listeners, next_event_id, listening,
                 main, emits, swallowed>>

\* A worker thread evaluates s in m's webview; a webview that is gone ignores it.
SendEval(m, s) ==
  loop' = IF m.webview \in webviews /\ born[m.webview] <= m.page
          THEN [loop EXCEPT ![m.webview] = Append(@, s)]
          ELSE loop

----------------------------------------------------------------------------
\* Listening and unlistening.

\* Mutant: the id is the counter after the addition.
ListenIdAfter(q) ==
  LET m == [id |-> next_event_id + 1, webview |-> q.webview, page |-> page[q.webview],
            event |-> q.event, target |-> q.target, once |-> q.once]
  IN  /\ q.webview \in webviews
      /\ Within(next_event_id + 1, emits)
      /\ next_event_id' = next_event_id + 1
      /\ listening' = listening \cup {[listener |-> m, at |-> "called"]}
      /\ UNCHANGED <<webviews, page, born, objects, loop, js_event_listeners, unlistening,
                     main, emits, leaving, heard, missed, swallowed>>

\* Mutant: ids start again when a page has no listeners.
ListenIdOfPage(q) ==
  LET id == IF objects[q.webview] = {} THEN 0 ELSE next_event_id
      m  == [id |-> id, webview |-> q.webview, page |-> page[q.webview],
             event |-> q.event, target |-> q.target, once |-> q.once]
  IN  /\ q.webview \in webviews
      /\ Within(next_event_id + 1, emits)
      /\ next_event_id' = next_event_id + 1
      /\ listening' = listening \cup {[listener |-> m, at |-> "called"]}
      /\ UNCHANGED <<webviews, page, born, objects, loop, js_event_listeners, unlistening,
                     main, emits, leaving, heard, missed, swallowed>>

\* A page calls listen or once; a worker starts listen_js and takes an id.
Listen(q) ==
  LET m == [id |-> next_event_id, webview |-> q.webview, page |-> page[q.webview],
            event |-> q.event, target |-> q.target, once |-> q.once]
  IN  /\ q.webview \in webviews
      /\ Within(next_event_id + 1, emits)
      /\ next_event_id' = next_event_id + 1
      /\ listening' = listening \cup {[listener |-> m, at |-> "called"]}
      /\ UNCHANGED <<webviews, page, born, objects, loop, js_event_listeners, unlistening,
                     main, emits, leaving, heard, missed, swallowed>>

\* Mutant: the entry is made before the listen script is evaluated.
ListenEvalLast(c) ==
  /\ c \in listening /\ c.at = "called"
  /\ js_event_listeners' = js_event_listeners \cup {c.listener}
  /\ IF c.listener \in js_event_listeners
     THEN /\ SendEval(c.listener, [do |-> "listen", listener |-> c.listener])
          /\ listening' = (listening \ {c}) \cup {[c EXCEPT !.at = "evaluated"]}
     ELSE UNCHANGED <<loop, listening>>
  /\ UNCHANGED <<webviews, page, born, objects, next_event_id, unlistening,
                 main, emits, leaving, heard, missed, swallowed>>

\* The worker evaluates the listen script.
ListenEval(c) ==
  /\ c \in listening /\ c.at = "called"
  /\ listening' = (listening \ {c}) \cup {[c EXCEPT !.at = "evaluated"]}
  /\ SendEval(c.listener, [do |-> "listen", listener |-> c.listener])
  /\ UNCHANGED <<webviews, page, born, objects, js_event_listeners, next_event_id, unlistening,
                 main, emits, leaving, heard, missed, swallowed>>

\* The worker enters the id in the table and answers the page.
ListenJs(c) ==
  /\ c \in listening /\ c.at = "evaluated"
  /\ listening' = listening \ {c}
  /\ js_event_listeners' = js_event_listeners \cup {c.listener}
  /\ UNCHANGED <<webviews, page, born, objects, loop, next_event_id, unlistening,
                 main, emits, leaving, heard, missed, swallowed>>

\* The page calls the function its listen call resolved to (at most once: a
\* second call would repeat scripts and removals that change nothing more).
Unlisten(m) ==
  /\ AtHome(m)
  /\ m.id \notin leaving
  /\ unlistening' = unlistening \cup {[listener |-> m, at |-> "called"]}
  /\ leaving' = leaving \cup {m.id}
  /\ UNCHANGED <<webviews, page, born, objects, loop, js_event_listeners, next_event_id,
                 listening, main, emits, heard, missed, swallowed>>

\* Mutant: the unlisten script is not evaluated.
UnlistenNoEval(c) ==
  /\ c \in unlistening /\ c.at = "called"
  /\ unlistening' = (unlistening \ {c}) \cup {[c EXCEPT !.at = "evaluated"]}
  /\ UNCHANGED <<webviews, page, born, objects, loop, js_event_listeners, next_event_id,
                 listening, main, emits, leaving, heard, missed, swallowed>>

\* The worker of an unlisten command evaluates the unlisten script.
UnlistenEval(c) ==
  /\ c \in unlistening /\ c.at = "called"
  /\ unlistening' = (unlistening \ {c}) \cup {[c EXCEPT !.at = "evaluated"]}
  /\ SendEval(c.listener, [do |-> "unlisten", listener |-> c.listener])
  /\ UNCHANGED <<webviews, page, born, objects, js_event_listeners, next_event_id,
                 listening, main, emits, leaving, heard, missed, swallowed>>

\* Mutant: all entries of the event are removed.
UnlistenEvent(c) ==
  /\ c \in unlistening /\ c.at = "evaluated"
  /\ unlistening' = unlistening \ {c}
  /\ js_event_listeners' = {m \in js_event_listeners : m.event # c.listener.event}
  /\ UNCHANGED <<webviews, page, born, objects, loop, next_event_id, listening,
                 main, emits, leaving, heard, missed, swallowed>>

\* It removes the id from the event's entries of every webview.
UnlistenJs(c) ==
  /\ c \in unlistening /\ c.at = "evaluated"
  /\ unlistening' = unlistening \ {c}
  /\ js_event_listeners' = {m \in js_event_listeners :
                              m.event # c.listener.event \/ m.id # c.listener.id}
  /\ UNCHANGED <<webviews, page, born, objects, loop, next_event_id, listening,
                 main, emits, leaving, heard, missed, swallowed>>

----------------------------------------------------------------------------
\* Emitting.

\* A command or a thread emits: the scripts go through the event loop.  One
\* with no ids calls nobody and is left out.  The webviews are listed just before the
\* table is read, here in one step.
EmitJs(e) ==
  /\ Within(next_event_id, emits + 1)
  /\ emits' = emits + 1
  /\ loop' = [l \in Labels |->
       LET to == Named(l, e.event, e.sel)
       IN  IF l \in webviews /\ to # {}
           THEN Append(loop[l], [do |-> "emit", event |-> e.event, sel |-> e.sel, to |-> to])
           ELSE loop[l]]
  /\ UNCHANGED <<webviews, page, born, objects, js_event_listeners, next_event_id, listening,
                 unlistening, main, leaving, heard, missed, swallowed>>

\* Whom an emission by the main thread is to call, in all webviews.
CalledNow(event, sel) == UNION {Called(l, event, Named(l, event, sel)) : l \in webviews}

NamedNow(event, sel) == UNION {Named(l, event, sel) : l \in webviews}

\* The main thread emits: its scripts overtake the messages in the loop.
EmitJsMain(e) ==
  /\ main = Idle
  /\ Within(next_event_id, emits + 1)
  /\ emits' = emits + 1
  /\ LET due == CalledNow(e.event, e.sel)
     IN  \E called \in Reached(due) :
           /\ OnceCalled(called)
           /\ Record(called, due, e.event, e.sel, NamedNow(e.event, e.sel), TRUE)
  /\ UNCHANGED <<webviews, page, born, objects, loop, js_event_listeners, next_event_id,
                 listening, main, swallowed>>

----------------------------------------------------------------------------
\* The life of pages and windows.

CloseEvent(l) == [at |-> "closing", label |-> l, seen |-> WindowListeners(l)]

\* The window l is asked to close: the handler looks for a page listener, which
\* prevents the close ...
CloseRequested(l) ==
  /\ main = Idle
  /\ l \in webviews
  /\ Within(next_event_id, emits + 1)
  /\ emits' = emits + 1
  /\ main' = CloseEvent(l)
  /\ UNCHANGED <<webviews, page, born, objects, loop, js_event_listeners, next_event_id,
                 listening, unlistening, leaving, heard, missed, swallowed>>

\* The webview of l is gone, and with it its page and the messages to it.
Gone(l) ==
  /\ webviews' = webviews \ {l}
  /\ objects' = [objects EXCEPT ![l] = {}]
  /\ loop' = [loop EXCEPT ![l] = <<>>]

\* ... then, in a second look at the table, tells the pages.
CloseEmit ==
  LET sel == [kind |-> "OfWindow", label |-> main.label]
      due == CalledNow("close-requested", sel)
  IN  /\ main.at = "closing"
      /\ main' = Idle
      /\ \E called \in Reached(due) :
           /\ OnceCalled(called)
           /\ Record(called, due, "close-requested", sel, NamedNow("close-requested", sel), TRUE)
           /\ swallowed' = IF called = {} /\ main.seen # {}
                           THEN swallowed \cup {{Miss(m, due, Underway(m)) : m \in main.seen}}
                           ELSE swallowed
      /\ IF main.seen = {} THEN Gone(main.label) ELSE UNCHANGED <<webviews, objects, loop>>
      /\ UNCHANGED <<page, born, js_event_listeners, next_event_id, listening, emits>>

\* The page of l is replaced by another; the table is not told.
Reload(l) ==
  /\ l \in webviews
  /\ page[l] < MaxPages[l]
  /\ page' = [page EXCEPT ![l] = @ + 1]
  /\ objects' = [objects EXCEPT ![l] = {}]
  /\ UNCHANGED <<webviews, born, loop, js_event_listeners, next_event_id, listening,
                 unlistening, main, emits, leaving, heard, missed, swallowed>>

\* The window l is destroyed.
Destroy(l) ==
  /\ main = Idle
  /\ l \in webviews
  /\ Gone(l)
  /\ UNCHANGED <<page, born, js_event_listeners, next_event_id, listening, unlistening,
                 main, emits, leaving, heard, missed, swallowed>>

\* A window is created under a free label.
Create(l) ==
  /\ main = Idle
  /\ l \notin webviews
  /\ page[l] < MaxPages[l]
  /\ webviews' = webviews \cup {l}
  /\ page' = [page EXCEPT ![l] = @ + 1]
  /\ born' = [born EXCEPT ![l] = page[l] + 1]
  /\ UNCHANGED <<objects, loop, js_event_listeners, next_event_id, listening, unlistening,
                 main, emits, leaving, heard, missed, swallowed>>

Init ==
  /\ webviews = {}
  /\ page = [l \in Labels |-> 0]
  /\ born = [l \in Labels |-> 0]
  /\ objects = [l \in Labels |-> {}]
  /\ loop = [l \in Labels |-> <<>>]
  /\ js_event_listeners = {}
  /\ next_event_id = 0
  /\ listening = {} /\ unlistening = {}
  /\ main = Idle
  /\ emits = 0
  /\ leaving = {} /\ heard = {} /\ missed = {} /\ swallowed = {}

\* What worker threads and the event loop do with what was begun.
Progress ==
  \/ \E l \in Labels : HandleEvaluateScript(l)
  \/ \E c \in listening : ListenEval(c) \/ ListenJs(c)
  \/ \E c \in unlistening : UnlistenEval(c) \/ UnlistenJs(c)
  \/ CloseEmit

Next ==
  \/ Progress
  \/ \E q \in Listens : Listen(q)
  \/ \E m \in js_event_listeners : Unlisten(m)
  \/ \E e \in Emits : EmitJs(e) \/ EmitJsMain(e)
  \/ \E l \in Labels : CloseRequested(l) \/ Reload(l) \/ Destroy(l) \/ Create(l)

Spec == Init /\ [][Next]_vars

\* The event loop and the async runtime run: a message in the loop is handled,
\* a command that was started ends.
FairSpec == Spec /\ WF_vars(Progress)

----------------------------------------------------------------------------
\* Properties.

Outcome == [listener : Listener, home : BOOLEAN, overtaken : BOOLEAN, cut : BOOLEAN]

\* Every table, queue and history holds what its code stores; a page's objects
\* were installed by the scripts of its own webview, under ids already taken.
TypeOK ==
  /\ webviews \subseteq Labels
  /\ page \in [Labels -> Nat]
  /\ born \in [Labels -> Nat]
  /\ objects \in [Labels -> SUBSET Listener]
  /\ loop \in [Labels -> Seq(Script)]
  /\ js_event_listeners \subseteq Listener
  /\ next_event_id \in Nat
  /\ listening \subseteq [listener : Listener, at : {"called", "evaluated"}]
  /\ unlistening \subseteq [listener : Listener, at : {"called", "evaluated"}]
  /\ main \in {Idle} \cup [at : {"closing"}, label : Labels, seen : SUBSET Listener]
  /\ emits \in Nat
  /\ leaving \subseteq Nat
  /\ heard \subseteq [listener : Listener, event : Events, sel : Selector]
  /\ missed \subseteq Outcome
  /\ swallowed \subseteq SUBSET Outcome
  /\ \A l \in Labels : \A o \in objects[l] : o.webview = l /\ o.id < next_event_id

\* listen_js evaluates the listen script before it enters the id, and messages
\* of the event loop keep their order: an emission that names a listener of the
\* page on show calls its handler, unless the page called unlisten for it, the main
\* thread emitted past a listen script still in the loop, or a handler the page
\* called before it for the same emission threw and ended the page's loop.
NothingMissed ==
  \A r \in missed : r.home => r.overtaken \/ r.cut \/ r.listener.id \in leaving

\* A close request that a page listener prevented (has_js_listener) is heard by
\* some page, unless every listener that prevented it is of a page that is gone,
\* is being removed, or has its listen script still in the loop: table entries of
\* gone pages are the one lasting way a close request is swallowed.
CloseHeard ==
  \A s \in swallowed : \A r \in s : r.home => r.overtaken \/ r.listener.id \in leaving

\* Ids name one listener across all webviews and pages, so the lookup by id in
\* the page calls only handlers whose own event and target the emission matches,
\* whatever was reloaded, removed or created while the script was under way.
RightListener ==
  \A h \in heard : /\ h.event = h.listener.event
                   /\ MatchAnyOrFilter(h.sel, h.listener.target)

\* A handler a page still holds is one emissions will find: its entry is in the
\* table, about to be, or the page itself called unlisten for it.
NoDeafListener ==
  \A l \in webviews : \A o \in objects[l] :
    AtHome(o) => \/ o \in js_event_listeners
                 \/ [listener |-> o, at |-> "evaluated"] \in listening
                 \/ o.id \in leaving

\* No entry and no handler of the page on show has the id i.
Removed(i) ==
  /\ \A m \in js_event_listeners : m.id # i
  /\ \A l \in Labels : \A o \in objects[l] : AtHome(o) => o.id # i

\* unlisten_js removes the handler and the entry for good: once pages have made
\* their calls, every listener they called unlisten for goes, no script under
\* way brings its handler back, and no late listen_js its entry.
UnlistenTakesEffect == <>[](\A i \in leaving : Removed(i))
=============================================================================
