-------------------------- MODULE JsListenersProofs --------------------------
(***************************************************************************)
(* The safety properties of page listeners, for any labels, listeners,     *)
(* emissions and page loads.  The invariant says that an id names one      *)
(* listener wherever it appears (Ids), what the scripts under way are for  *)
(* (Sites), that a handler was or will be entered in the table (Backed),   *)
(* and that a listener the table, a script or a close request names is     *)
(* installed in its page, or its listen script comes first (Ready).        *)
(***************************************************************************)
EXTENDS JsListeners, TLAPS

-----------------------------------------------------------------------------
(* The invariant *)

\* s speaks of m.
Mentions(s, m) == IF s.do = "emit" THEN m \in s.to ELSE s.listener = m

\* m is somewhere in the program.
Known(m) ==
  \/ m \in js_event_listeners
  \/ \E c \in listening \cup unlistening : c.listener = m
  \/ \E l \in Labels : m \in objects[l]
  \/ \E l \in Labels : \E i \in 1..Len(loop[l]) : Mentions(loop[l][i], m)
  \/ main # Idle /\ m \in main.seen

\* Ids name one listener, and were made by pages up to the one on show.
Ids ==
  /\ \A m \in Listener : Known(m) => m.id < next_event_id /\ m.page <= page[m.webview]
  /\ \A m, n \in Listener : Known(m) /\ Known(n) /\ m.id = n.id => m = n
  /\ \A l \in Labels : born[l] <= page[l]

\* The script s goes to the webview of its listeners; if it unlistens, the page asked
\* for it, if it emits, it names entries that match.
Sited(l, s, ids) ==
  /\ s.do # "emit" => s.listener.webview = l
  /\ s.do = "unlisten" => s.listener.id \in ids
  /\ s.do = "emit" => \A m \in s.to : /\ m.webview = l
                                      /\ m.event = s.event
                                      /\ MatchAnyOrFilter(s.sel, m.target)

\* An unlisten command was called by the page, and every script is where it belongs.
Sites ==
  /\ \A c \in unlistening : c.listener.id \in leaving
  /\ \A l \in Labels : \A i \in 1..Len(loop[l]) : Sited(l, loop[l][i], leaving)

\* The entry of m is in the table or about to be, unless its page let go of it.
Entered(m) ==
  \/ m \in js_event_listeners
  \/ [listener |-> m, at |-> "evaluated"] \in listening
  \/ m.id \in leaving

\* Handlers, and those scripts bring, are entered.
Backed ==
  /\ \A l \in Labels : \A o \in objects[l] : Entered(o)
  /\ \A l \in Labels : \A i \in 1..Len(loop[l]) :
       loop[l][i].do = "listen" => Entered(loop[l][i].listener)

\* The handler of m is in its page, or will be after n messages.
Installed(m, n) ==
  \/ m \in objects[m.webview]
  \/ \E k \in 1..n : loop[m.webview][k] = [do |-> "listen", listener |-> m]

\* m is of a page on show, which has not let go of it.
Live(m) == AtHome(m) /\ m.id \notin leaving

\* Entries whose listen script was evaluated.
Evaluated(m) ==
  \/ m \in js_event_listeners
  \/ [listener |-> m, at |-> "evaluated"] \in listening
  \/ main # Idle /\ m \in main.seen

\* Whoever can be named is ready.
Ready ==
  /\ \A m \in Listener : Evaluated(m) /\ Live(m) => Installed(m, Len(loop[m.webview]))
  /\ \A l \in Labels : \A j \in 1..Len(loop[l]) :
       loop[l][j].do = "emit" =>
         \A m \in loop[l][j].to : Live(m) => Installed(m, j - 1)

\* The entries that prevented a close stay in the table until let go of.
Seen ==
  main # Idle =>
    \A m \in main.seen :
      /\ m \in js_event_listeners \/ m.id \in leaving
      /\ m.event = "close-requested"
      /\ Filter([kind |-> "OfWindow", label |-> main.label], m.target)

Inv == Ids /\ Sites /\ Backed /\ Ready /\ Seen

-----------------------------------------------------------------------------
(* Sequences, and what steps do to the loop *)

\* Append keeps what was there and adds one at the end.
LEMMA AppendFacts ==
  ASSUME NEW S, NEW q \in Seq(S), NEW x \in S
  PROVE  /\ Append(q, x) \in Seq(S)
         /\ Len(q) \in Nat
         /\ Len(Append(q, x)) = Len(q) + 1
         /\ \A i \in 1..Len(q) : Append(q, x)[i] = q[i]
         /\ Append(q, x)[Len(q) + 1] = x
  OBVIOUS

\* Handling a message takes the first one and moves the others up.
LEMMA TailFacts ==
  ASSUME NEW S, NEW q \in Seq(S), q # <<>>
  PROVE  /\ Tail(q) \in Seq(S)
         /\ Head(q) = q[1] /\ q[1] \in S
         /\ Len(q) \in Nat /\ Len(q) >= 1
         /\ Len(Tail(q)) = Len(q) - 1
         /\ \A i \in 1..(Len(q) - 1) : Tail(q)[i] = q[i + 1]
  OBVIOUS

\* The script s is added to the messages to l.
Longer(l, s) ==
  /\ Len(loop'[l]) = Len(loop[l]) + 1
  /\ \A i \in 1..Len(loop[l]) : loop'[l][i] = loop[l][i]
  /\ loop'[l][Len(loop[l]) + 1] = s

\* The first of the messages to l is taken.
Popped(l) ==
  /\ Len(loop[l]) >= 1
  /\ Len(loop'[l]) = Len(loop[l]) - 1
  /\ \A i \in 1..Len(loop'[l]) : loop'[l][i] = loop[l][i + 1]

\* Scripts and the main thread's records are told apart by one field.
LEMMA Forms ==
  ASSUME TypeOK
  PROVE  /\ main # Idle <=> main.at = "closing"
         /\ main # Idle => main.label \in Labels /\ main.seen \subseteq Listener
         /\ \A s \in Script :
              /\ s.do \in {"listen", "unlisten", "emit"}
              /\ s.do # "emit" => s.listener \in Listener
              /\ s.do # "emit" => s = [do |-> s.do, listener |-> s.listener]
              /\ s.do = "emit" => s.to \subseteq Listener /\ s.event \in Events /\ s.sel \in Selector
         /\ \A l \in Labels : Len(loop[l]) \in Nat
         /\ \A l \in Labels : \A i \in 1..Len(loop[l]) : loop[l][i] \in Script
<1>1. main # Idle <=> main.at = "closing"
  BY DEF TypeOK, Idle
<1>2. main # Idle => main.label \in Labels /\ main.seen \subseteq Listener
  BY Zenon DEF TypeOK, Idle
<1>3. \A s \in Script : s.do \in {"listen", "unlisten", "emit"}
  BY Zenon DEF Script
<1>4. ASSUME NEW s \in Script, s.do # "emit"
      PROVE  s.listener \in Listener /\ s = [do |-> s.do, listener |-> s.listener]
  BY Zenon, <1>4 DEF Script
<1>5. ASSUME NEW s \in Script, s.do = "emit"
      PROVE  s.to \subseteq Listener /\ s.event \in Events /\ s.sel \in Selector
  BY Zenon, <1>5 DEF Script
<1>6. ASSUME NEW l \in Labels PROVE Len(loop[l]) \in Nat
  <2>1. loop[l] \in Seq(Script)
    BY Zenon DEF TypeOK
  <2> QED BY <2>1
<1>7. \A l \in Labels : \A i \in 1..Len(loop[l]) : loop[l][i] \in Script
  BY DEF TypeOK
<1> QED BY Zenon, <1>1, <1>2, <1>3, <1>4, <1>5, <1>6, <1>7

\* A script a worker evaluates joins the messages to its webview, or is ignored.
LEMMA Sending ==
  ASSUME TypeOK, NEW m \in Listener, NEW d \in {"listen", "unlisten"},
         SendEval(m, [do |-> d, listener |-> m])
  PROVE  /\ loop' \in [Labels -> Seq(Script)]
         /\ \A l \in Labels : l # m.webview => loop'[l] = loop[l]
         /\ \/ /\ ~(m.webview \in webviews /\ born[m.webview] <= m.page)
               /\ loop' = loop
            \/ Longer(m.webview, [do |-> d, listener |-> m])
<1> DEFINE s == [do |-> d, listener |-> m]
<1>1. s \in Script /\ m.webview \in Labels
  BY Zenon DEF Script, Listener
<1> HIDE DEF s
<1>2. CASE loop' = loop /\ ~(m.webview \in webviews /\ born[m.webview] <= m.page)
  BY Zenon, <1>2 DEF TypeOK
<1>3. CASE loop' = [loop EXCEPT ![m.webview] = Append(@, s)]
  <2>1. loop[m.webview] \in Seq(Script) /\ loop \in [Labels -> Seq(Script)]
    BY Zenon, <1>1 DEF TypeOK
  <2>2. loop'[m.webview] = Append(loop[m.webview], s)
    BY Zenon, <1>1, <1>3, <2>1
  <2>3. Longer(m.webview, s)
    BY <1>1, <2>1, <2>2, AppendFacts DEF Longer
  <2>4. loop' \in [Labels -> Seq(Script)] /\ \A l \in Labels : l # m.webview => loop'[l] = loop[l]
    BY Zenon, <1>1, <1>3, <2>1, AppendFacts
  <2> QED BY Zenon, <2>3, <2>4 DEF s
<1> QED BY Zenon, <1>2, <1>3 DEF SendEval, s

\* An emission adds one script naming table entries to some webviews.
LEMMA Emitting ==
  ASSUME TypeOK, NEW e \in Emits, EmitJs(e)
  PROVE  /\ loop' \in [Labels -> Seq(Script)]
         /\ \A l \in Labels :
              \/ loop'[l] = loop[l]
              \/ Longer(l, [do |-> "emit", event |-> e.event, sel |-> e.sel,
                            to |-> Named(l, e.event, e.sel)])
<1>1. e.event \in Events /\ e.sel \in Selector
  BY Zenon, JsAssumption DEF Selector
<1> DEFINE s(l) == [do |-> "emit", event |-> e.event, sel |-> e.sel,
                    to |-> Named(l, e.event, e.sel)]
<1>2. \A l \in Labels : s(l) \in Script
  <2>1. \A l \in Labels : Named(l, e.event, e.sel) \in SUBSET Listener
    BY Zenon DEF Named, TypeOK
  <2> QED BY Zenon, <1>1, <2>1 DEF Script
<1>3. \A l \in Labels : loop[l] \in Seq(Script)
  BY Zenon DEF TypeOK
<1>4. loop' = [l \in Labels |-> IF l \in webviews /\ Named(l, e.event, e.sel) # {}
                                THEN Append(loop[l], s(l)) ELSE loop[l]]
  BY Zenon DEF EmitJs
<1> HIDE DEF s
<1>5. ASSUME NEW l \in Labels
      PROVE  loop'[l] = loop[l] \/ loop'[l] = Append(loop[l], s(l))
  BY Zenon, <1>4
<1>6. ASSUME NEW l \in Labels, loop'[l] = Append(loop[l], s(l)) PROVE Longer(l, s(l))
  BY <1>2, <1>3, <1>6, AppendFacts DEF Longer
<1>7. loop' \in [Labels -> Seq(Script)]
  BY Zenon, <1>2, <1>3, <1>4, AppendFacts
<1> QED BY Zenon, <1>5, <1>6, <1>7 DEF s

\* The event loop takes the first message to l.
LEMMA Handling ==
  ASSUME TypeOK, NEW l \in Labels, HandleEvaluateScript(l)
  PROVE  /\ loop' \in [Labels -> Seq(Script)]
         /\ Popped(l)
         /\ \A k \in Labels : k # l => loop'[k] = loop[k]
         /\ loop[l][1] \in Script
         /\ RunScript(l, loop[l][1])
<1>1. loop \in [Labels -> Seq(Script)] /\ loop[l] \in Seq(Script) /\ loop[l] # <<>>
  BY Zenon DEF TypeOK, HandleEvaluateScript
<1>2. loop' = [loop EXCEPT ![l] = Tail(@)] /\ RunScript(l, Head(loop[l]))
  BY Zenon DEF HandleEvaluateScript
<1>3. loop'[l] = Tail(loop[l]) /\ \A k \in Labels : k # l => loop'[k] = loop[k]
  BY Zenon, <1>1, <1>2
<1>4. Popped(l)
  BY <1>1, <1>3, TailFacts DEF Popped
<1>5. loop' \in [Labels -> Seq(Script)]
  BY Zenon, <1>1, <1>2, TailFacts
<1>6. Head(loop[l]) = loop[l][1] /\ loop[l][1] \in Script
  BY Zenon, <1>1, TailFacts
<1> QED BY Zenon, <1>2, <1>3, <1>4, <1>5, <1>6

-----------------------------------------------------------------------------
(* Types *)

\* Whom an emission names is in the table, whom it calls is in a page on show.
LEMMA Naming ==
  ASSUME TypeOK
  PROVE  /\ \A event, sel : /\ NamedNow(event, sel) \subseteq Listener
                            /\ CalledNow(event, sel) \subseteq Listener
         /\ \A l \in Labels : \A event, to : Called(l, event, to) \subseteq Listener
         /\ \A event, sel : \A o \in CalledNow(event, sel) : \E l \in Labels : o \in objects[l]
         /\ \A l : WindowListeners(l) \subseteq Listener
<1>1. js_event_listeners \subseteq Listener /\ webviews \subseteq Labels
      /\ \A l \in Labels : objects[l] \subseteq Listener
  BY Zenon DEF TypeOK
<1>2. \A event, sel : NamedNow(event, sel) \subseteq Listener
  BY Zenon, <1>1 DEF NamedNow, Named
<1>3. \A l \in Labels : \A event, to : Called(l, event, to) \subseteq Listener
  BY Zenon, <1>1 DEF Called
<1>4. \A event, sel : \A o \in CalledNow(event, sel) : \E l \in Labels : o \in objects[l]
  BY Zenon, <1>1 DEF CalledNow, Called
<1>5. \A l : WindowListeners(l) \subseteq Listener
  BY Zenon, <1>1 DEF WindowListeners
<1> QED BY Zenon, <1>1, <1>2, <1>3, <1>4, <1>5

\* Pages call some of those due, and somebody unless nobody is.
LEMMA Reaching ==
  ASSUME NEW due, NEW called \in Reached(due)
  PROVE  called \subseteq due /\ (called = {} => due = {})
  BY Zenon DEF Reached

\* A miss is an outcome of the listener missed.
LEMMA MissType ==
  ASSUME NEW m \in Listener, NEW due, NEW overtaken \in BOOLEAN
  PROVE  Miss(m, due, overtaken) \in Outcome
<1>1. AtHome(m) \in BOOLEAN /\ (\E o \in due : o.id = m.id) \in BOOLEAN
  BY Zenon DEF AtHome
<1> HIDE DEF AtHome
<1> QED BY Zenon, <1>1 DEF Miss, Outcome

\* The history holds calls and misses of listeners.
LEMMA Recording ==
  ASSUME TypeOK, NEW called \in SUBSET Listener, NEW due, NEW event \in Events, NEW sel \in Selector,
         NEW to \in SUBSET Listener, NEW now, Record(called, due, event, sel, to, now)
  PROVE  /\ heard' \subseteq [listener : Listener, event : Events, sel : Selector]
         /\ missed' \subseteq Outcome
<1>1. heard \subseteq [listener : Listener, event : Events, sel : Selector] /\ missed \subseteq Outcome
  BY Zenon DEF TypeOK
<1>2. heard' \subseteq [listener : Listener, event : Events, sel : Selector]
  BY <1>1 DEF Record
<1>3. ASSUME NEW m \in Listener PROVE Miss(m, due, now /\ Underway(m)) \in Outcome
  <2>1. (now /\ Underway(m)) \in BOOLEAN
    BY Zenon
  <2> QED BY Zenon, <2>1, MissType
<1>4. missed' \subseteq Outcome
  BY Zenon, <1>1, <1>3 DEF Record
<1> QED BY Zenon, <1>2, <1>4

\* Handlers of once that were called start to unlisten.
LEMMA OnceType ==
  ASSUME TypeOK, NEW called \in SUBSET Listener, OnceCalled(called)
  PROVE  /\ unlistening' \subseteq [listener : Listener, at : {"called", "evaluated"}]
         /\ leaving' \subseteq Nat
         /\ leaving \subseteq leaving'
<1>1. /\ unlistening \subseteq [listener : Listener, at : {"called", "evaluated"}]
      /\ leaving \subseteq Nat
      /\ \A m \in Listener : m.id \in Nat
  BY Zenon DEF TypeOK, Listener
<1>2. \A m \in Listener : [listener |-> m, at |-> "called"] \in [listener : Listener, at : {"called", "evaluated"}]
  BY Zenon
<1>3. unlistening' \subseteq [listener : Listener, at : {"called", "evaluated"}]
  BY Zenon, <1>1, <1>2 DEF OnceCalled
<1>4. leaving' \subseteq Nat /\ leaving \subseteq leaving'
  BY Zenon, <1>1 DEF OnceCalled
<1> QED BY Zenon, <1>3, <1>4

\* Every step keeps the types; a page's objects have its webview and a taken id.
LEMMA NextType == TypeOK /\ Ids /\ Sites /\ [Next]_vars => TypeOK'
<1> SUFFICES ASSUME TypeOK, Ids, Sites, [Next]_vars PROVE TypeOK'
  BY Zenon
<1> DEFINE Homes == \A l \in Labels : \A o \in objects'[l] :
                      o.webview = l /\ o.id < next_event_id'
<1>0. UNCHANGED <<objects, next_event_id>> => Homes
  BY Zenon DEF TypeOK
<1>1. ASSUME NEW l \in Labels, HandleEvaluateScript(l) PROVE TypeOK'
  <2> DEFINE s == loop[l][1]
  <2>1. /\ s \in Script /\ RunScript(l, s) /\ loop' \in [Labels -> Seq(Script)]
        /\ Len(loop[l]) >= 1 /\ Len(loop[l]) \in Nat
    BY Zenon, <1>1, Handling, Forms DEF Popped
  <2>2. Mentions(s, s.listener) \/ s.do = "emit"
    BY Zenon DEF Mentions
  <2>3. s.do # "emit" => /\ s.listener \in Listener /\ s.listener.webview = l
                         /\ s.listener.id < next_event_id
    <3>1. s.do # "emit" => s.listener \in Listener /\ s.listener.webview = l
      BY <2>1, Forms DEF Sites, Sited
    <3>2. s.do # "emit" => Known(s.listener)
      BY <2>1, <2>2 DEF Known
    <3> QED BY Zenon, <3>1, <3>2 DEF Ids
  <2> HIDE DEF s
  <2> DEFINE due == Called(l, s.event, s.to)
  <2>4. ASSUME s.do = "emit", UNCHANGED objects, NEW called \in Reached(due),
               OnceCalled(called), Record(called, due, s.event, s.sel, s.to, FALSE)
        PROVE  TypeOK'
    <3>1. called \in SUBSET Listener
      BY Zenon, Naming, Reaching
    <3> HIDE DEF due
    <3>2. s.event \in Events /\ s.sel \in Selector /\ s.to \in SUBSET Listener
      BY Zenon, <2>1, <2>4, Forms
    <3>3. /\ heard' \subseteq [listener : Listener, event : Events, sel : Selector]
          /\ missed' \subseteq Outcome
      BY Zenon, <2>4, <3>1, <3>2, Recording
    <3>4. /\ unlistening' \subseteq [listener : Listener, at : {"called", "evaluated"}]
          /\ leaving' \subseteq Nat
      BY Zenon, <2>4, <3>1, OnceType
    <3> QED BY Zenon, <1>0, <1>1, <2>1, <2>4, <3>3, <3>4 DEF HandleEvaluateScript, TypeOK
  <2>5. ASSUME s.do # "emit", UNCHANGED <<unlistening, leaving, heard, missed>>,
               \E keep \in SUBSET objects[l] :
                 \/ objects' = [objects EXCEPT ![l] = keep]
                 \/ objects' = [objects EXCEPT ![l] = keep \cup {s.listener}]
        PROVE  TypeOK'
    <3>1. objects \in [Labels -> SUBSET Listener]
      BY Zenon DEF TypeOK
    <3>2. objects' \in [Labels -> SUBSET Listener]
      BY <2>3, <2>5, <3>1
    <3>3. Homes
      <4>1. next_event_id' = next_event_id
        BY Zenon, <1>1 DEF HandleEvaluateScript
      <4>2. \A k \in Labels : \A o \in objects'[k] : o \in objects[k] \/ (k = l /\ o = s.listener)
        BY Zenon, <2>5, <3>1
      <4> QED BY Zenon, <2>3, <2>5, <4>1, <4>2 DEF TypeOK
    <3> QED BY Zenon, <1>1, <2>1, <2>5, <3>2, <3>3 DEF HandleEvaluateScript, TypeOK
  <2>6. CASE s.do = "listen"
    <3>1. {o \in objects[l] : o.id # s.listener.id \/ o.event # s.listener.event} \in SUBSET objects[l]
      BY Zenon
    <3>2. objects' = [objects EXCEPT ![l] =
            {o \in objects[l] : o.id # s.listener.id \/ o.event # s.listener.event} \cup {s.listener}]
      BY Zenon, <2>1, <2>6 DEF RunScript
    <3> QED BY Zenon, <2>1, <2>5, <2>6, <3>1, <3>2 DEF RunScript
  <2>7. CASE s.do = "unlisten"
    <3>1. {o \in objects[l] : o.id # s.listener.id \/ o.event # s.listener.event} \in SUBSET objects[l]
      BY Zenon
    <3>2. objects' = [objects EXCEPT ![l] =
            {o \in objects[l] : o.id # s.listener.id \/ o.event # s.listener.event}]
      BY Zenon, <2>1, <2>7 DEF RunScript
    <3> QED BY Zenon, <2>1, <2>5, <2>7, <3>1, <3>2 DEF RunScript
  <2>8. s.do = "emit" => /\ UNCHANGED objects
                         /\ \E called \in Reached(due) :
                              OnceCalled(called) /\ Record(called, due, s.event, s.sel, s.to, FALSE)
    BY Zenon, <2>1 DEF RunScript
  <2>9. s.do \in {"listen", "unlisten", "emit"}
    BY Zenon, <2>1, Forms
  <2> QED BY Zenon, <2>4, <2>6, <2>7, <2>8, <2>9
<1>2. ASSUME NEW q \in Listens, Listen(q) PROVE TypeOK'
  <2> DEFINE m == [id |-> next_event_id, webview |-> q.webview, page |-> page[q.webview],
                   event |-> q.event, target |-> q.target, once |-> q.once]
  <2>1. m \in Listener /\ next_event_id \in Nat
    BY Zenon, JsAssumption DEF TypeOK, Listener
  <2>2. listening' = listening \cup {[listener |-> m, at |-> "called"]} /\ next_event_id' = next_event_id + 1
    BY Zenon, <1>2 DEF Listen
  <2> HIDE DEF m
  <2>3. listening' \subseteq [listener : Listener, at : {"called", "evaluated"}]
    BY <2>1, <2>2 DEF TypeOK
  <2>4. Homes
    BY <1>2, <2>1, <2>2 DEF TypeOK, Listen, Listener
  <2>5. next_event_id' \in Nat
    BY <2>1, <2>2
  <2> QED BY Zenon, <1>2, <2>3, <2>4, <2>5 DEF Listen, TypeOK
<1>3. ASSUME NEW c \in listening, ListenEval(c) PROVE TypeOK'
  <2>1. c \in [listener : Listener, at : {"called", "evaluated"}]
    BY Zenon DEF TypeOK
  <2>2. c.listener \in Listener /\ [c EXCEPT !.at = "evaluated"] = [listener |-> c.listener, at |-> "evaluated"]
    BY <2>1
  <2>3. listening' \subseteq [listener : Listener, at : {"called", "evaluated"}]
    BY Zenon, <1>3, <2>2 DEF TypeOK, ListenEval
  <2>4. loop' \in [Labels -> Seq(Script)]
    BY Zenon, <1>3, <2>2, Sending DEF ListenEval
  <2> QED BY Zenon, <1>0, <1>3, <2>3, <2>4 DEF ListenEval, TypeOK
<1>4. ASSUME NEW c \in listening, ListenJs(c) PROVE TypeOK'
  <2>1. c.listener \in Listener
    BY Zenon DEF TypeOK
  <2> QED BY ZenonT(30), <1>0, <1>4, <2>1 DEF ListenJs, TypeOK
<1>5. ASSUME NEW m \in js_event_listeners, Unlisten(m) PROVE TypeOK'
  <2>1. m \in Listener /\ m.id \in Nat
    BY Zenon DEF TypeOK, Listener
  <2>2. /\ unlistening' \subseteq [listener : Listener, at : {"called", "evaluated"}]
        /\ leaving' \subseteq Nat
    <3>1. [listener |-> m, at |-> "called"] \in [listener : Listener, at : {"called", "evaluated"}]
      BY Zenon, <2>1
    <3> QED BY Zenon, <1>5, <2>1, <3>1 DEF Unlisten, TypeOK
  <2> QED BY Zenon, <1>0, <1>5, <2>2 DEF Unlisten, TypeOK
<1>6. ASSUME NEW c \in unlistening, UnlistenEval(c) PROVE TypeOK'
  <2>1. c \in [listener : Listener, at : {"called", "evaluated"}]
    BY Zenon DEF TypeOK
  <2>2. c.listener \in Listener /\ [c EXCEPT !.at = "evaluated"] = [listener |-> c.listener, at |-> "evaluated"]
    BY <2>1
  <2>3. unlistening' \subseteq [listener : Listener, at : {"called", "evaluated"}]
    BY Zenon, <1>6, <2>2 DEF TypeOK, UnlistenEval
  <2>4. loop' \in [Labels -> Seq(Script)]
    BY Zenon, <1>6, <2>2, Sending DEF UnlistenEval
  <2> QED BY Zenon, <1>0, <1>6, <2>3, <2>4 DEF UnlistenEval, TypeOK
<1>7. ASSUME NEW c \in unlistening, UnlistenJs(c) PROVE TypeOK'
  BY Zenon, <1>0, <1>7 DEF UnlistenJs, TypeOK
<1>8. ASSUME NEW e \in Emits, EmitJs(e) PROVE TypeOK'
  <2>1. loop' \in [Labels -> Seq(Script)]
    BY Zenon, <1>8, Emitting
  <2>2. emits' \in Nat
    BY <1>8 DEF EmitJs, TypeOK
  <2> QED BY Zenon, <1>0, <1>8, <2>1, <2>2 DEF EmitJs, TypeOK
<1>9. ASSUME NEW event \in Events, NEW sel \in Selector, NEW called \in Reached(CalledNow(event, sel)),
             OnceCalled(called),
             Record(called, CalledNow(event, sel), event, sel, NamedNow(event, sel), TRUE)
      PROVE  /\ heard' \subseteq [listener : Listener, event : Events, sel : Selector]
             /\ missed' \subseteq Outcome
             /\ unlistening' \subseteq [listener : Listener, at : {"called", "evaluated"}]
             /\ leaving' \subseteq Nat
  <2>1. called \in SUBSET Listener /\ NamedNow(event, sel) \in SUBSET Listener
    BY Zenon, Naming, Reaching
  <2> QED BY Zenon, <1>9, <2>1, Recording, OnceType
<1>10. ASSUME NEW e \in Emits, EmitJsMain(e) PROVE TypeOK'
  <2>1. e.event \in Events /\ e.sel \in Selector
    BY Zenon, JsAssumption DEF Selector
  <2>2. emits' \in Nat
    BY <1>10 DEF EmitJsMain, TypeOK
  <2>3. /\ heard' \subseteq [listener : Listener, event : Events, sel : Selector]
        /\ missed' \subseteq Outcome
        /\ unlistening' \subseteq [listener : Listener, at : {"called", "evaluated"}]
        /\ leaving' \subseteq Nat
    BY Zenon, <1>9, <1>10, <2>1 DEF EmitJsMain
  <2> QED BY Zenon, <1>0, <1>10, <2>2, <2>3 DEF EmitJsMain, TypeOK
<1>11. ASSUME NEW l \in Labels, CloseRequested(l) PROVE TypeOK'
  <2>1. main' \in [at : {"closing"}, label : Labels, seen : SUBSET Listener]
    BY Zenon, <1>11, Naming DEF CloseRequested, CloseEvent
  <2>2. emits' \in Nat
    BY <1>11 DEF CloseRequested, TypeOK
  <2> QED BY Zenon, <1>0, <1>11, <2>1, <2>2 DEF CloseRequested, TypeOK
<1>12. ASSUME NEW l \in Labels, Gone(l)
       PROVE  /\ webviews' \subseteq Labels
              /\ objects' \in [Labels -> SUBSET Listener]
              /\ loop' \in [Labels -> Seq(Script)]
              /\ UNCHANGED next_event_id => Homes
  <2>1. webviews \subseteq Labels /\ objects \in [Labels -> SUBSET Listener]
        /\ loop \in [Labels -> Seq(Script)]
    BY Zenon DEF TypeOK
  <2>2. loop' \in [Labels -> Seq(Script)]
    BY <1>12, <2>1 DEF Gone
  <2>3. \A k \in Labels : objects'[k] \subseteq objects[k]
    BY Zenon, <1>12, <2>1 DEF Gone
  <2> QED BY <1>12, <2>1, <2>2, <2>3 DEF Gone, TypeOK
<1>13. CASE CloseEmit
  <2>1. main # Idle /\ main.label \in Labels /\ main.seen \in SUBSET Listener
    BY Zenon, <1>13, Forms DEF CloseEmit
  <2> DEFINE sel == [kind |-> "OfWindow", label |-> main.label]
  <2>2. sel \in Selector /\ "close-requested" \in Events
    BY Zenon, <2>1 DEF Selector, Events
  <2> DEFINE due == CalledNow("close-requested", sel)
  <2>3. PICK called \in Reached(due) :
             /\ OnceCalled(called)
             /\ Record(called, due, "close-requested", sel, NamedNow("close-requested", sel), TRUE)
             /\ \/ UNCHANGED swallowed
                \/ swallowed' = swallowed \cup {{Miss(m, due, Underway(m)) : m \in main.seen}}
    BY Zenon, <1>13 DEF CloseEmit
  <2>4. /\ webviews' \subseteq Labels
        /\ objects' \in [Labels -> SUBSET Listener]
        /\ loop' \in [Labels -> Seq(Script)]
        /\ Homes
    BY Zenon, <1>0, <1>12, <1>13, <2>1 DEF CloseEmit, TypeOK
  <2>5. swallowed' \subseteq SUBSET Outcome
    <3> HIDE DEF due
    <3>1. ASSUME NEW m \in Listener PROVE Miss(m, due, Underway(m)) \in Outcome
      <4>1. Underway(m) \in BOOLEAN
        BY Zenon DEF Underway
      <4> QED BY Zenon, <4>1, MissType
    <3>2. {Miss(m, due, Underway(m)) : m \in main.seen} \in SUBSET Outcome
      BY Zenon, <2>1, <3>1
    <3> QED BY Zenon, <2>3, <3>2 DEF TypeOK
  <2> HIDE DEF sel
  <2> QED BY Zenon, <1>9, <1>13, <2>2, <2>3, <2>4, <2>5 DEF CloseEmit, TypeOK
<1>14. ASSUME NEW l \in Labels, Reload(l) PROVE TypeOK'
  <2>1. /\ page' \in [Labels -> Nat] /\ objects' \in [Labels -> SUBSET Listener]
        /\ \A k \in Labels : objects'[k] \subseteq objects[k]
    BY <1>14 DEF Reload, TypeOK
  <2>2. Homes
    BY Zenon, <1>14, <2>1 DEF Reload, TypeOK
  <2> QED BY Zenon, <1>14, <2>1, <2>2 DEF Reload, TypeOK
<1>15. ASSUME NEW l \in Labels, Destroy(l) PROVE TypeOK'
  BY Zenon, <1>12, <1>15 DEF Destroy, TypeOK
<1>16. ASSUME NEW l \in Labels, Create(l) PROVE TypeOK'
  <2>1. page' \in [Labels -> Nat] /\ born' \in [Labels -> Nat] /\ webviews' \subseteq Labels
    BY <1>16 DEF Create, TypeOK
  <2> QED BY Zenon, <1>0, <1>16, <2>1 DEF Create, TypeOK
<1>17. CASE UNCHANGED vars
  BY Zenon, <1>0, <1>17 DEF vars, TypeOK
<1> QED BY Zenon, <1>1, <1>2, <1>3, <1>4, <1>5, <1>6, <1>7, <1>8, <1>10, <1>11, <1>13, <1>14,
           <1>15, <1>16, <1>17 DEF Next, Progress

-----------------------------------------------------------------------------
(* Ids *)

\* A message to l after a step was there before, or is the one that was added.
LEMMA Messages ==
  ASSUME TypeOK, NEW l \in Labels, NEW i \in 1..Len(loop'[l]), loop' \in [Labels -> Seq(Script)]
  PROVE  /\ loop'[l] = loop[l] \/ Popped(l) =>
              \E j \in 1..Len(loop[l]) : loop'[l][i] = loop[l][j]
         /\ \A s : Longer(l, s) =>
              \/ i \in 1..Len(loop[l]) /\ loop'[l][i] = loop[l][i]
              \/ i = Len(loop[l]) + 1 /\ loop'[l][i] = s
<1>1. Len(loop[l]) \in Nat /\ i \in Nat /\ i >= 1 /\ i <= Len(loop'[l])
  <2>1. loop'[l] \in Seq(Script)
    BY Zenon
  <2>2. Len(loop'[l]) \in Nat
    BY <2>1
  <2> QED BY <2>2, Forms
<1>2. ASSUME loop'[l] = loop[l] PROVE \E j \in 1..Len(loop[l]) : loop'[l][i] = loop[l][j]
  BY Zenon, <1>1, <1>2
<1>3. ASSUME Popped(l) PROVE \E j \in 1..Len(loop[l]) : loop'[l][i] = loop[l][j]
  <2>1. i + 1 \in 1..Len(loop[l]) /\ loop'[l][i] = loop[l][i + 1]
    BY SMTT(20), <1>1, <1>3 DEF Popped
  <2> QED BY Zenon, <2>1
<1>4. ASSUME NEW s, Longer(l, s)
      PROVE  \/ i \in 1..Len(loop[l]) /\ loop'[l][i] = loop[l][i]
             \/ i = Len(loop[l]) + 1 /\ loop'[l][i] = s
  BY <1>1, <1>4 DEF Longer
<1>5. loop'[l] = loop[l] \/ Popped(l) => \E j \in 1..Len(loop[l]) : loop'[l][i] = loop[l][j]
  BY Zenon, <1>2, <1>3
<1> QED BY Zenon, <1>4, <1>5

\* No step but listen brings a listener that was nowhere.
LEMMA StaysKnown ==
  ASSUME TypeOK, TypeOK', Sites, NEW m \in Listener, Known(m)', [Next]_vars,
         \A q \in Listens : ~Listen(q)
  PROVE  Known(m)
<1> DEFINE Told == \A l \in Labels : \A i \in 1..Len(loop'[l]) :
                     Mentions(loop'[l][i], m) => Known(m)
<1>0. loop' \in [Labels -> Seq(Script)]
  BY Zenon DEF TypeOK
<1>1. ASSUME Told,
             m \in js_event_listeners' => Known(m),
             \A c \in listening' \cup unlistening' : c.listener = m => Known(m),
             \A l \in Labels : m \in objects'[l] => Known(m),
             main' # Idle /\ m \in main'.seen => Known(m)
      PROVE  Known(m)
  BY Zenon, <1>1 DEF Known
<1>2. ASSUME \A l \in Labels : loop'[l] = loop[l] \/ Popped(l) PROVE Told
  <2> SUFFICES ASSUME NEW l \in Labels, NEW i \in 1..Len(loop'[l]), Mentions(loop'[l][i], m)
               PROVE  Known(m)
    BY Zenon
  <2>1. \E j \in 1..Len(loop[l]) : loop'[l][i] = loop[l][j]
    BY Zenon, <1>0, <1>2, Messages
  <2> QED BY Zenon, <2>1 DEF Known
<1>3. ASSUME NEW S, \A l \in Labels : loop'[l] = loop[l] \/ \E s \in S : Longer(l, s),
             \A s \in S : Mentions(s, m) => Known(m)
      PROVE  Told
  <2> SUFFICES ASSUME NEW l \in Labels, NEW i \in 1..Len(loop'[l]), Mentions(loop'[l][i], m)
               PROVE  Known(m)
    BY Zenon
  <2>1. (\E j \in 1..Len(loop[l]) : loop'[l][i] = loop[l][j]) \/ loop'[l][i] \in S
    <3>1. CASE loop'[l] = loop[l]
      BY Zenon, <1>0, <3>1, Messages
    <3>2. CASE \E s \in S : Longer(l, s)
      <4>1. PICK s \in S : Longer(l, s)
        BY Zenon, <3>2
      <4>2. (i \in 1..Len(loop[l]) /\ loop'[l][i] = loop[l][i]) \/ loop'[l][i] = s
        BY ZenonT(30), <1>0, <4>1, Messages
      <4> QED BY Zenon, <4>2
    <3> QED BY Zenon, <1>3, <3>1, <3>2
  <2> QED BY Zenon, <1>3, <2>1 DEF Known
<1>4. UNCHANGED loop => Told
  BY Zenon, <1>2
<1>5. ASSUME NEW called, OnceCalled(called), \A o \in called : \E l \in Labels : o \in objects[l]
      PROVE  \A c \in unlistening' : c.listener = m => Known(m)
  BY <1>5 DEF OnceCalled, Known
<1> HIDE DEF Told
<1>6. ASSUME NEW l \in Labels, HandleEvaluateScript(l) PROVE Known(m)
  <2> DEFINE s == loop[l][1]
  <2>1. /\ s \in Script /\ RunScript(l, s) /\ Popped(l)
        /\ \A k \in Labels : k # l => loop'[k] = loop[k]
    BY Zenon, <1>6, Handling
  <2>2. Told
    BY Zenon, <1>2, <2>1
  <2>3. Mentions(s, m) => Known(m)
    <3>1. 1 \in 1..Len(loop[l])
      BY <2>1, Forms DEF Popped
    <3> QED BY Zenon, <3>1 DEF Known
  <2> HIDE DEF s
  <2>4. \A k \in Labels : m \in objects'[k] => Known(m)
    <3>1. \A k \in Labels : m \in objects'[k] =>
            m \in objects[k] \/ (s.do = "listen" /\ m = s.listener)
      <4>1. objects \in [Labels -> SUBSET Listener]
        BY Zenon DEF TypeOK
      <4>2. CASE s.do = "listen" /\ objects' = [objects EXCEPT ![l] =
                   {o \in @ : o.id # s.listener.id \/ o.event # s.listener.event} \cup {s.listener}]
        BY Zenon, <4>1, <4>2
      <4>3. CASE objects' = [objects EXCEPT ![l] =
                   {o \in @ : o.id # s.listener.id \/ o.event # s.listener.event}]
        BY Zenon, <4>1, <4>3
      <4>4. CASE UNCHANGED objects
        BY Zenon, <4>4
      <4> QED BY Zenon, <2>1, <4>2, <4>3, <4>4 DEF RunScript
    <3> QED BY Zenon, <2>3, <3>1 DEF Known, Mentions
  <2>5. \A c \in unlistening' : c.listener = m => Known(m)
    <3>1. CASE UNCHANGED unlistening
      BY Zenon, <3>1 DEF Known
    <3>2. ASSUME NEW called \in Reached(Called(l, s.event, s.to)), OnceCalled(called)
          PROVE  \A c \in unlistening' : c.listener = m => Known(m)
      BY Zenon, <1>5, <3>2, Reaching DEF Called
    <3> QED BY Zenon, <2>1, <3>1, <3>2 DEF RunScript
  <2>6. UNCHANGED <<js_event_listeners, listening, main>>
    BY Zenon, <1>6 DEF HandleEvaluateScript
  <2>7. \A c \in listening' : c.listener = m => Known(m)
    BY Zenon, <2>6 DEF Known
  <2>8. (m \in js_event_listeners' => Known(m)) /\ (main' # Idle /\ m \in main'.seen => Known(m))
    BY Zenon, <2>6 DEF Known
  <2> QED BY Zenon, <1>1, <2>2, <2>4, <2>5, <2>7, <2>8
<1>7. ASSUME NEW c \in listening, ListenEval(c) PROVE Known(m)
  <2>1. /\ c.listener \in Listener
        /\ [c EXCEPT !.at = "evaluated"] = [listener |-> c.listener, at |-> "evaluated"]
    BY DEF TypeOK
  <2> DEFINE s == [do |-> "listen", listener |-> c.listener]
  <2>2. \A l \in Labels : loop'[l] = loop[l] \/ \E x \in {s} : Longer(l, x)
    BY Zenon, <1>7, <2>1, Sending DEF ListenEval
  <2>3. \A x \in {s} : Mentions(x, m) => Known(m)
    BY DEF Mentions, Known
  <2> HIDE DEF s
  <2>4. Told
    BY Zenon, <1>3, <2>2, <2>3
  <2>5. \A d \in listening' : d.listener = m => Known(m)
    <3>1. [c EXCEPT !.at = "evaluated"].listener = c.listener
      BY Zenon, <2>1
    <3> QED BY ZenonT(30), <1>7, <3>1 DEF ListenEval, Known
  <2> QED BY Zenon, <1>1, <1>7, <2>4, <2>5 DEF ListenEval, Known
<1>8. ASSUME NEW c \in listening, ListenJs(c) PROVE Known(m)
  BY Zenon, <1>1, <1>4, <1>8 DEF ListenJs, Known
<1>9. ASSUME NEW n \in js_event_listeners, Unlisten(n) PROVE Known(m)
  <2>1. \A d \in unlistening' : d.listener = m => Known(m)
    BY <1>9 DEF Unlisten, Known
  <2> QED BY Zenon, <1>1, <1>4, <1>9, <2>1 DEF Unlisten, Known
<1>10. ASSUME NEW c \in unlistening, UnlistenEval(c) PROVE Known(m)
  <2>1. /\ c.listener \in Listener
        /\ [c EXCEPT !.at = "evaluated"] = [listener |-> c.listener, at |-> "evaluated"]
    BY DEF TypeOK
  <2> DEFINE s == [do |-> "unlisten", listener |-> c.listener]
  <2>2. \A l \in Labels : loop'[l] = loop[l] \/ \E x \in {s} : Longer(l, x)
    BY Zenon, <1>10, <2>1, Sending DEF UnlistenEval
  <2>3. \A x \in {s} : Mentions(x, m) => Known(m)
    BY DEF Mentions, Known
  <2> HIDE DEF s
  <2>4. Told
    BY Zenon, <1>3, <2>2, <2>3
  <2>5. \A d \in unlistening' : d.listener = m => Known(m)
    <3>1. [c EXCEPT !.at = "evaluated"].listener = c.listener
      BY Zenon, <2>1
    <3> QED BY ZenonT(30), <1>10, <3>1 DEF UnlistenEval, Known
  <2> QED BY Zenon, <1>1, <1>10, <2>4, <2>5 DEF UnlistenEval, Known
<1>11. ASSUME NEW c \in unlistening, UnlistenJs(c) PROVE Known(m)
  BY Zenon, <1>1, <1>4, <1>11 DEF UnlistenJs, Known
<1>12. ASSUME NEW e \in Emits, EmitJs(e) PROVE Known(m)
  <2> DEFINE S == {[do |-> "emit", event |-> e.event, sel |-> e.sel,
                    to |-> Named(l, e.event, e.sel)] : l \in Labels}
  <2>1. \A l \in Labels : loop'[l] = loop[l] \/ \E s \in S : Longer(l, s)
    BY Zenon, <1>12, Emitting
  <2>2. \A s \in S : Mentions(s, m) => Known(m)
    BY DEF Mentions, Known, Named
  <2> HIDE DEF S
  <2>3. Told
    BY Zenon, <1>3, <2>1, <2>2
  <2> QED BY Zenon, <1>1, <1>12, <2>3 DEF EmitJs, Known
<1>13. ASSUME NEW e \in Emits, EmitJsMain(e) PROVE Known(m)
  <2>1. PICK called \in Reached(CalledNow(e.event, e.sel)) : OnceCalled(called)
    BY Zenon, <1>13 DEF EmitJsMain
  <2>2. \A o \in called : \E l \in Labels : o \in objects[l]
    BY Zenon, Naming, Reaching
  <2>3. \A c \in unlistening' : c.listener = m => Known(m)
    BY Zenon, <1>5, <2>1, <2>2
  <2> QED BY Zenon, <1>1, <1>4, <1>13, <2>3 DEF EmitJsMain, Known
<1>14. ASSUME NEW l \in Labels, CloseRequested(l) PROVE Known(m)
  <2>1. main'.seen \subseteq js_event_listeners
    BY Zenon, <1>14 DEF CloseRequested, CloseEvent, WindowListeners
  <2> QED BY Zenon, <1>1, <1>4, <1>14, <2>1 DEF CloseRequested, Known
<1>15. ASSUME NEW l \in Labels, Gone(l)
       PROVE  Told /\ \A k \in Labels : m \in objects'[k] => m \in objects[k]
  <2>1. \A k \in Labels : objects'[k] \subseteq objects[k]
    BY <1>15 DEF Gone, TypeOK
  <2>2. \A k \in Labels : loop'[k] = loop[k] \/ loop'[k] = <<>>
    BY Zenon, <1>15 DEF Gone, TypeOK
  <2>3. ASSUME NEW k \in Labels, NEW i \in 1..Len(loop'[k]), Mentions(loop'[k][i], m)
        PROVE  Known(m)
    <3>1. CASE loop'[k] = <<>>
      BY <2>3, <3>1
    <3>2. CASE loop'[k] = loop[k]
      BY Zenon, <2>3, <3>2 DEF Known
    <3> QED BY Zenon, <2>2, <3>1, <3>2
  <2> QED BY Zenon, <2>1, <2>3 DEF Told
<1>16. CASE CloseEmit
  <2>1. main # Idle /\ main.label \in Labels /\ main' = Idle
    BY Zenon, <1>16, Forms DEF CloseEmit
  <2>2. \A c \in unlistening' : c.listener = m => Known(m)
    <3>1. PICK sel : \E called \in Reached(CalledNow("close-requested", sel)) : OnceCalled(called)
      BY Zenon, <1>16 DEF CloseEmit
    <3>2. PICK called \in Reached(CalledNow("close-requested", sel)) : OnceCalled(called)
      BY Zenon, <3>1
    <3>3. \A o \in called : \E l \in Labels : o \in objects[l]
      BY Zenon, Naming, Reaching
    <3> QED BY Zenon, <1>5, <3>2, <3>3
  <2>3. Told /\ \A k \in Labels : m \in objects'[k] => m \in objects[k]
    BY Zenon, <1>4, <1>15, <1>16, <2>1 DEF CloseEmit
  <2> QED BY Zenon, <1>1, <1>16, <2>1, <2>2, <2>3 DEF CloseEmit, Known
<1>17. ASSUME NEW l \in Labels, Reload(l) PROVE Known(m)
  <2>1. \A k \in Labels : objects'[k] \subseteq objects[k]
    BY ZenonT(30), <1>17 DEF Reload, TypeOK
  <2> QED BY Zenon, <1>1, <1>4, <1>17, <2>1 DEF Reload, Known
<1>18. ASSUME NEW l \in Labels, Destroy(l) PROVE Known(m)
  BY Zenon, <1>1, <1>15, <1>18 DEF Destroy, Known
<1>19. ASSUME NEW l \in Labels, Create(l) PROVE Known(m)
  BY Zenon, <1>1, <1>4, <1>19 DEF Create, Known
<1>20. CASE UNCHANGED vars
  BY Zenon, <1>1, <1>4, <1>20 DEF vars, Known
<1> QED BY Zenon, <1>6, <1>7, <1>8, <1>9, <1>10, <1>11, <1>12, <1>13, <1>14, <1>16, <1>17,
           <1>18, <1>19, <1>20 DEF Next, Progress

\* What was let go of stays so, ids and pages only go up, and a webview that is new
\* has a new page.
LEMMA Growth ==
  ASSUME TypeOK, Ids, [Next]_vars
  PROVE  /\ leaving \subseteq leaving'
         /\ next_event_id <= next_event_id'
         /\ \A l \in Labels : /\ page[l] <= page'[l]
                              /\ born'[l] <= page'[l]
                              /\ l \in webviews' => l \in webviews \/ page[l] < page'[l]
<1> DEFINE Up == \A l \in Labels : /\ page[l] <= page'[l]
                                   /\ born'[l] <= page'[l]
                                   /\ l \in webviews' => l \in webviews \/ page[l] < page'[l]
<1>1. page \in [Labels -> Nat] /\ born \in [Labels -> Nat] /\ next_event_id \in Nat
  BY Zenon DEF TypeOK
<1>2. UNCHANGED <<page, born>> /\ webviews' \subseteq webviews => Up
  BY <1>1 DEF Ids
<1>3. next_event_id' = next_event_id => next_event_id <= next_event_id'
  BY <1>1
<1>4. ASSUME NEW called, OnceCalled(called) PROVE leaving \subseteq leaving'
  BY Zenon, <1>4 DEF OnceCalled
<1>5. ASSUME NEW l \in Labels, Reload(l) PROVE Up
  BY <1>1, <1>5 DEF Reload, Ids
<1>6. ASSUME NEW l \in Labels, Create(l) PROVE Up
  BY <1>1, <1>6 DEF Create, Ids
<1>7. ASSUME NEW q \in Listens, Listen(q) PROVE next_event_id <= next_event_id'
  BY <1>1, <1>7 DEF Listen
<1> HIDE DEF Up
<1>8. ASSUME NEW l \in Labels, HandleEvaluateScript(l)
      PROVE  Up /\ next_event_id <= next_event_id' /\ leaving \subseteq leaving'
  BY Zenon, <1>2, <1>3, <1>4, <1>8 DEF HandleEvaluateScript, RunScript
<1>9. ASSUME CloseEmit
      PROVE  Up /\ next_event_id <= next_event_id' /\ leaving \subseteq leaving'
  BY Zenon, <1>2, <1>3, <1>4, <1>9 DEF CloseEmit, Gone
<1>10. ASSUME NEW e \in Emits, EmitJs(e) \/ EmitJsMain(e)
       PROVE  Up /\ next_event_id <= next_event_id' /\ leaving \subseteq leaving'
  BY Zenon, <1>2, <1>3, <1>4, <1>10 DEF EmitJs, EmitJsMain
<1>11. ASSUME NEW c, ListenEval(c) \/ ListenJs(c) \/ UnlistenEval(c) \/ UnlistenJs(c) \/ Unlisten(c)
       PROVE  Up /\ next_event_id <= next_event_id' /\ leaving \subseteq leaving'
  BY Zenon, <1>2, <1>3, <1>11 DEF ListenEval, ListenJs, UnlistenEval, UnlistenJs, Unlisten
<1>12. ASSUME NEW q \in Listens, Listen(q)
       PROVE  Up /\ next_event_id <= next_event_id' /\ leaving \subseteq leaving'
  BY Zenon, <1>2, <1>7, <1>12 DEF Listen
<1>13. ASSUME NEW l \in Labels, CloseRequested(l) \/ Reload(l) \/ Destroy(l) \/ Create(l)
       PROVE  Up /\ next_event_id <= next_event_id' /\ leaving \subseteq leaving'
  BY Zenon, <1>2, <1>3, <1>5, <1>6, <1>13 DEF CloseRequested, Reload, Destroy, Create, Gone
<1>14. ASSUME UNCHANGED vars
       PROVE  Up /\ next_event_id <= next_event_id' /\ leaving \subseteq leaving'
  BY Zenon, <1>2, <1>3, <1>14 DEF vars
<1>15. Up /\ next_event_id <= next_event_id' /\ leaving \subseteq leaving'
  BY Zenon, <1>8, <1>9, <1>10, <1>11, <1>12, <1>13, <1>14 DEF Next, Progress
<1> QED BY Zenon, <1>15 DEF Up

\* Every step keeps Ids: only listen makes a listener, with the next id.
LEMMA NextIds == TypeOK /\ TypeOK' /\ Ids /\ Sites /\ [Next]_vars => Ids'
<1> SUFFICES ASSUME TypeOK, TypeOK', Ids, Sites, [Next]_vars PROVE Ids'
  BY Zenon
<1>1. /\ next_event_id \in Nat /\ next_event_id' \in Nat /\ next_event_id <= next_event_id'
      /\ \A l \in Labels : /\ page[l] \in Nat /\ page'[l] \in Nat
                           /\ page[l] <= page'[l] /\ born'[l] <= page'[l]
      /\ \A m \in Listener : m.id \in Nat /\ m.page \in Nat /\ m.webview \in Labels
  BY Zenon, Growth DEF TypeOK, Listener
<1>2. \A m \in Listener : Known(m) => m.id < next_event_id /\ m.id < next_event_id'
                                      /\ m.page <= page'[m.webview]
  BY <1>1 DEF Ids
<1>3. CASE \A q \in Listens : ~Listen(q)
  <2>1. \A m \in Listener : Known(m)' => Known(m)
    BY Zenon, <1>3, StaysKnown
  <2> QED BY Zenon, <1>1, <1>2, <2>1 DEF Ids
<1>4. ASSUME NEW q \in Listens, Listen(q) PROVE Ids'
  <2> DEFINE n == [id |-> next_event_id, webview |-> q.webview, page |-> page[q.webview],
                   event |-> q.event, target |-> q.target, once |-> q.once]
  <2>1. /\ n.id = next_event_id /\ n.webview = q.webview /\ n.page = page[q.webview]
        /\ q.webview \in Labels
    BY Zenon, JsAssumption
  <2>2. /\ listening' = listening \cup {[listener |-> n, at |-> "called"]}
        /\ next_event_id' = next_event_id + 1
        /\ UNCHANGED <<page, objects, loop, js_event_listeners, unlistening, main>>
    BY Zenon, <1>4 DEF Listen
  <2>3. [listener |-> n, at |-> "called"].listener = n
    BY Zenon
  <2> HIDE DEF n
  <2>4. \A m \in Listener : Known(m)' => Known(m) \/ m = n
    BY Zenon, <2>2, <2>3 DEF Known
  <2>5. n.id < next_event_id' /\ n.page <= page'[n.webview]
    BY <1>1, <2>1, <2>2
  <2>6. \A m \in Listener : Known(m) => m.id # n.id
    BY <1>1, <1>2, <2>1
  <2> QED BY Zenon, <1>1, <1>2, <2>4, <2>5, <2>6 DEF Ids
<1> QED BY Zenon, <1>3, <1>4

-----------------------------------------------------------------------------
(* What a step does to one webview *)

\* The messages to l and its objects stay.
Still(l) == loop'[l] = loop[l] /\ objects'[l] = objects[l]

\* A script joins the messages to l: a listen script of a listener that is evaluated
\* with it, an unlisten script the page asked for, or an emit script with entries of
\* the table.
Joined(l, s) ==
  /\ s \in Script /\ Longer(l, s) /\ objects'[l] = objects[l]
  /\ Sited(l, s, leaving)
  /\ s.do = "listen" => [listener |-> s.listener, at |-> "evaluated"] \in listening'
  /\ s.do = "emit" => s.to \subseteq js_event_listeners

\* The webview l shows another page, or none.
Renewed(l) ==
  /\ objects'[l] = {}
  /\ \/ loop'[l] = loop[l] /\ page[l] < page'[l]
     \/ loop'[l] = <<>> /\ l \notin webviews'

\* These, and the event loop taking the first message, are all that steps do.
LEMMA StepOf ==
  ASSUME TypeOK, Sites, [Next]_vars, NEW l \in Labels
  PROVE  Still(l) \/ HandleEvaluateScript(l) \/ Renewed(l) \/ \E s : Joined(l, s)
<1> DEFINE Goal == Still(l) \/ HandleEvaluateScript(l) \/ Renewed(l) \/ \E s : Joined(l, s)
<1>1. UNCHANGED <<loop, objects>> => Goal
  BY Zenon DEF Still
<1>2. ASSUME NEW k \in Labels, HandleEvaluateScript(k) PROVE Goal
  <2>1. k # l => loop'[l] = loop[l]
    BY Zenon, <1>2, Handling
  <2>2. k # l => objects'[l] = objects[l]
    <3>1. objects \in [Labels -> SUBSET Listener] /\ RunScript(k, loop[k][1])
      BY Zenon, <1>2, Handling DEF TypeOK
    <3> QED BY Zenon, <3>1 DEF RunScript
  <2> QED BY Zenon, <1>2, <2>1, <2>2 DEF Still
<1>3. ASSUME NEW m \in Listener, NEW d \in {"listen", "unlisten"},
             SendEval(m, [do |-> d, listener |-> m]), UNCHANGED objects,
             d = "unlisten" => m.id \in leaving,
             d = "listen" => [listener |-> m, at |-> "evaluated"] \in listening'
      PROVE  Goal
  <2> DEFINE s == [do |-> d, listener |-> m]
  <2>1. s \in Script /\ s.do = d /\ s.listener = m
    BY Zenon DEF Script
  <2>2. /\ l # m.webview => loop'[l] = loop[l]
        /\ loop' = loop \/ Longer(m.webview, s)
    BY Zenon, <1>3, Sending
  <2>3. d # "emit"
    BY Zenon
  <2> HIDE DEF s
  <2>4. l = m.webview /\ Longer(l, s) => Joined(l, s)
    <3>1. l = m.webview => Sited(l, s, leaving)
      BY Zenon, <1>3, <2>1, <2>3 DEF Sited
    <3> QED BY Zenon, <1>3, <2>1, <2>3, <3>1 DEF Joined
  <2> QED BY Zenon, <1>3, <2>2, <2>4 DEF Still
<1>4. ASSUME NEW c \in listening, ListenEval(c) PROVE Goal
  <2>1. /\ c.listener \in Listener
        /\ [c EXCEPT !.at = "evaluated"] = [listener |-> c.listener, at |-> "evaluated"]
    BY DEF TypeOK
  <2>2. [listener |-> c.listener, at |-> "evaluated"] \in listening'
    BY Zenon, <1>4, <2>1 DEF ListenEval
  <2>3. "listen" # "unlisten"
    BY Zenon
  <2> HIDE DEF Goal
  <2> QED BY Zenon, <1>3, <1>4, <2>1, <2>2, <2>3 DEF ListenEval
<1>5. ASSUME NEW c \in unlistening, UnlistenEval(c) PROVE Goal
  <2>1. c.listener \in Listener /\ c.listener.id \in leaving
    BY Zenon DEF TypeOK, Sites
  <2>2. "listen" # "unlisten"
    BY Zenon
  <2> HIDE DEF Goal
  <2> QED BY Zenon, <1>3, <1>5, <2>1, <2>2 DEF UnlistenEval
<1>6. ASSUME NEW e \in Emits, EmitJs(e) PROVE Goal
  <2> DEFINE s == [do |-> "emit", event |-> e.event, sel |-> e.sel, to |-> Named(l, e.event, e.sel)]
  <2>1. loop'[l] = loop[l] \/ Longer(l, s)
    BY Zenon, <1>6, Emitting
  <2>2. /\ s \in Script /\ s.do = "emit" /\ s.to = Named(l, e.event, e.sel)
        /\ s.event = e.event /\ s.sel = e.sel
    <3>1. e.event \in Events /\ e.sel \in Selector
      BY Zenon, JsAssumption DEF Selector
    <3>2. Named(l, e.event, e.sel) \in SUBSET Listener
      BY Zenon DEF Named, TypeOK
    <3> QED BY Zenon, <3>1, <3>2 DEF Script
  <2> HIDE DEF s
  <2>3. "emit" # "listen" /\ "emit" # "unlisten"
    BY Zenon
  <2>4. Sited(l, s, leaving) /\ s.to \subseteq js_event_listeners
    BY Zenon, <2>2, <2>3 DEF Sited, Named
  <2>5. objects'[l] = objects[l]
    BY Zenon, <1>6 DEF EmitJs
  <2>6. Longer(l, s) => Joined(l, s)
    BY Zenon, <2>2, <2>3, <2>4, <2>5 DEF Joined
  <2> QED BY Zenon, <2>1, <2>5, <2>6 DEF Still
<1>7. ASSUME NEW k \in Labels, Gone(k) PROVE Goal
  <2>1. /\ k # l => Still(l)
        /\ k = l => objects'[l] = {} /\ loop'[l] = <<>> /\ l \notin webviews'
    BY Zenon, <1>7 DEF Gone, TypeOK, Still
  <2> QED BY Zenon, <2>1 DEF Renewed
<1>8. ASSUME NEW k \in Labels, Reload(k) PROVE Goal
  <2>1. /\ k # l => Still(l)
        /\ k = l => objects'[l] = {} /\ loop'[l] = loop[l] /\ page[l] < page'[l]
    BY <1>8 DEF Reload, TypeOK, Still
  <2> QED BY Zenon, <2>1 DEF Renewed
<1> HIDE DEF Goal
<1>9. ASSUME CloseEmit PROVE Goal
  <2>1. main # Idle /\ main.label \in Labels
    BY Zenon, <1>9, Forms DEF CloseEmit
  <2> QED BY Zenon, <1>1, <1>7, <1>9, <2>1 DEF CloseEmit
<1>10. ASSUME NEW e \in Emits, EmitJsMain(e) PROVE Goal
  BY Zenon, <1>1, <1>10 DEF EmitJsMain
<1>11. ASSUME NEW c, ListenJs(c) \/ UnlistenJs(c) \/ Unlisten(c) \/ Listen(c) PROVE Goal
  BY Zenon, <1>1, <1>11 DEF ListenJs, UnlistenJs, Unlisten, Listen
<1>12. ASSUME NEW k \in Labels, CloseRequested(k) \/ Destroy(k) \/ Create(k) PROVE Goal
  BY Zenon, <1>1, <1>7, <1>12 DEF CloseRequested, Destroy, Create
<1>13. ASSUME UNCHANGED vars PROVE Goal
  BY Zenon, <1>1, <1>13 DEF vars
<1>14. Goal
  BY Zenon, <1>2, <1>4, <1>5, <1>6, <1>8, <1>9, <1>10, <1>11, <1>12, <1>13 DEF Next, Progress
<1> QED BY Zenon, <1>14 DEF Goal

\* A message after a step is one from before, or the one that joined.
LEMMA OldOrJoined ==
  ASSUME TypeOK, TypeOK', Sites, [Next]_vars, NEW l \in Labels, NEW i \in 1..Len(loop'[l])
  PROVE  \/ \E j \in 1..Len(loop[l]) : loop'[l][i] = loop[l][j]
         \/ Joined(l, loop'[l][i])
<1>1. loop' \in [Labels -> Seq(Script)]
  BY Zenon DEF TypeOK
<1>2. CASE loop'[l] = loop[l] \/ Popped(l)
  BY Zenon, <1>1, <1>2, Messages
<1>3. CASE loop'[l] = <<>>
  BY <1>3
<1>4. ASSUME NEW s, Joined(l, s)
      PROVE  (\E j \in 1..Len(loop[l]) : loop'[l][i] = loop[l][j]) \/ Joined(l, loop'[l][i])
  <2>1. (i \in 1..Len(loop[l]) /\ loop'[l][i] = loop[l][i]) \/ loop'[l][i] = s
    BY Zenon, <1>1, <1>4, Messages DEF Joined
  <2> QED BY Zenon, <1>4, <2>1
<1>5. HandleEvaluateScript(l) => Popped(l)
  BY Zenon, Handling
<1> QED BY Zenon, <1>2, <1>3, <1>4, <1>5, StepOf DEF Still, Renewed

-----------------------------------------------------------------------------
(* Sites, Backed and Seen *)

\* Every step keeps Sites.
LEMMA NextSites == TypeOK /\ TypeOK' /\ Ids /\ Sites /\ [Next]_vars => Sites'
<1> SUFFICES ASSUME TypeOK, TypeOK', Ids, Sites, [Next]_vars PROVE Sites'
  BY Zenon
<1>1. leaving \subseteq leaving'
  BY Zenon, Growth
<1>2. ASSUME NEW l \in Labels, NEW i \in 1..Len(loop'[l]) PROVE Sited(l, loop'[l][i], leaving')
  <2>1. Sited(l, loop'[l][i], leaving)
    BY Zenon, OldOrJoined DEF Sites, Joined
  <2> QED BY Zenon, <1>1, <2>1 DEF Sited
<1> DEFINE Asked == \A c \in unlistening' : c.listener.id \in leaving'
<1>3. ASSUME unlistening' \subseteq unlistening PROVE Asked
  BY Zenon, <1>1, <1>3 DEF Sites
<1>4. ASSUME NEW called, OnceCalled(called) PROVE Asked
  <2>1. ASSUME NEW o \in called, o.once PROVE o.id \in leaving'
    BY Zenon, <1>4, <2>1 DEF OnceCalled
  <2>2. \A o : [listener |-> o, at |-> "called"].listener = o
    BY Zenon
  <2>3. \A c \in unlistening' : c \in unlistening \/ \E o \in called : o.once /\ c = [listener |-> o, at |-> "called"]
    BY Zenon, <1>4 DEF OnceCalled
  <2> QED BY Zenon, <1>1, <2>1, <2>2, <2>3 DEF Sites
<1>5. ASSUME NEW m, Unlisten(m) PROVE Asked
  <2>1. [listener |-> m, at |-> "called"].listener = m
    BY Zenon
  <2> QED BY Zenon, <1>1, <1>5, <2>1 DEF Unlisten, Sites
<1>6. ASSUME NEW c \in unlistening, UnlistenEval(c) PROVE Asked
  <2>1. [c EXCEPT !.at = "evaluated"].listener = c.listener
    BY ZenonT(30) DEF TypeOK
  <2> QED BY Zenon, <1>1, <1>6, <2>1 DEF UnlistenEval, Sites
<1> HIDE DEF Asked
<1>7. ASSUME NEW l \in Labels, HandleEvaluateScript(l) PROVE Asked
  BY Zenon, <1>3, <1>4, <1>7 DEF HandleEvaluateScript, RunScript
<1>8. ASSUME NEW e, EmitJs(e) \/ EmitJsMain(e) PROVE Asked
  BY Zenon, <1>3, <1>4, <1>8 DEF EmitJs, EmitJsMain
<1>9. ASSUME NEW c, ListenEval(c) \/ ListenJs(c) \/ UnlistenJs(c) \/ Listen(c) PROVE Asked
  BY Zenon, <1>3, <1>9 DEF ListenEval, ListenJs, UnlistenJs, Listen
<1>10. ASSUME NEW l, CloseRequested(l) \/ Reload(l) \/ Destroy(l) \/ Create(l) PROVE Asked
  BY Zenon, <1>3, <1>10 DEF CloseRequested, Reload, Destroy, Create
<1>11. CloseEmit => Asked
  BY Zenon, <1>4 DEF CloseEmit
<1>12. UNCHANGED vars => Asked
  BY Zenon, <1>3 DEF vars
<1>13. Asked
  BY Zenon, <1>5, <1>6, <1>7, <1>8, <1>9, <1>10, <1>11, <1>12 DEF Next, Progress
<1> QED BY Zenon, <1>2, <1>13 DEF Sites, Asked

\* Entries leave the table, and listen commands leave the stage, only when the page
\* let go of the listener or the entry is made.
LEMMA Kept ==
  ASSUME TypeOK, Sites, [Next]_vars, NEW m \in Listener
  PROVE  /\ m \in js_event_listeners => m \in js_event_listeners' \/ m.id \in leaving
         /\ [listener |-> m, at |-> "evaluated"] \in listening =>
              \/ [listener |-> m, at |-> "evaluated"] \in listening'
              \/ m \in js_event_listeners'
<1> DEFINE d == [listener |-> m, at |-> "evaluated"]
           Goal == /\ m \in js_event_listeners => m \in js_event_listeners' \/ m.id \in leaving
                   /\ d \in listening => d \in listening' \/ m \in js_event_listeners'
<1>1. d.listener = m /\ d.at = "evaluated" /\ "evaluated" # "called"
  BY Zenon
<1>2. ASSUME NEW c \in listening, ListenEval(c) PROVE Goal
  <2> HIDE DEF d
  <2>1. d # c
    BY Zenon, <1>1, <1>2 DEF ListenEval
  <2> QED BY Zenon, <1>2, <2>1 DEF ListenEval
<1>3. ASSUME NEW c \in listening, ListenJs(c) PROVE Goal
  <2> HIDE DEF d
  <2> QED BY Zenon, <1>1, <1>3 DEF ListenJs
<1>4. ASSUME NEW c \in unlistening, UnlistenJs(c) PROVE Goal
  <2> HIDE DEF d
  <2>1. c.listener.id \in leaving
    BY Zenon DEF Sites
  <2> QED BY Zenon, <1>4, <2>1 DEF UnlistenJs
<1>5. UNCHANGED js_event_listeners /\ listening \subseteq listening' => Goal
  BY Zenon
<1> HIDE DEF Goal, d
<1>6. ASSUME NEW l \in Labels, HandleEvaluateScript(l) PROVE Goal
  BY Zenon, <1>5, <1>6 DEF HandleEvaluateScript
<1>7. ASSUME NEW e, EmitJs(e) \/ EmitJsMain(e) PROVE Goal
  BY Zenon, <1>5, <1>7 DEF EmitJs, EmitJsMain
<1>8. ASSUME NEW c, UnlistenEval(c) \/ Unlisten(c) \/ Listen(c) PROVE Goal
  BY Zenon, <1>5, <1>8 DEF UnlistenEval, Unlisten, Listen
<1>9. ASSUME NEW l, CloseRequested(l) \/ Reload(l) \/ Destroy(l) \/ Create(l) PROVE Goal
  BY Zenon, <1>5, <1>9 DEF CloseRequested, Reload, Destroy, Create
<1>10. CloseEmit => Goal
  BY Zenon, <1>5 DEF CloseEmit
<1>11. UNCHANGED vars => Goal
  BY Zenon, <1>5 DEF vars
<1>12. Goal
  BY Zenon, <1>2, <1>3, <1>4, <1>6, <1>7, <1>8, <1>9, <1>10, <1>11 DEF Next, Progress
<1> QED BY Zenon, <1>12 DEF Goal, d

\* Every step keeps Backed: listen_js evaluates the script and then makes the entry.
LEMMA NextBacked == TypeOK /\ TypeOK' /\ Ids /\ Sites /\ Backed /\ [Next]_vars => Backed'
<1> SUFFICES ASSUME TypeOK, TypeOK', Ids, Sites, Backed, [Next]_vars PROVE Backed'
  BY Zenon
<1> DEFINE EnteredNext(m) == \/ m \in js_event_listeners'
                             \/ [listener |-> m, at |-> "evaluated"] \in listening'
                             \/ m.id \in leaving'
<1>1. ASSUME NEW m \in Listener, Entered(m) PROVE EnteredNext(m)
  BY Zenon, <1>1, Kept, Growth DEF Entered
<1>2. ASSUME NEW l \in Labels, NEW i \in 1..Len(loop[l]), loop[l][i].do = "listen"
      PROVE  EnteredNext(loop[l][i].listener)
  <2>1. loop[l][i].listener \in Listener
    BY Zenon, <1>2, Forms
  <2> QED BY Zenon, <1>1, <1>2, <2>1 DEF Backed
<1>3. ASSUME NEW l \in Labels, NEW i \in 1..Len(loop'[l]), loop'[l][i].do = "listen"
      PROVE  EnteredNext(loop'[l][i].listener)
  <2>1. CASE Joined(l, loop'[l][i])
    BY Zenon, <1>3, <2>1 DEF Joined
  <2>2. CASE \E j \in 1..Len(loop[l]) : loop'[l][i] = loop[l][j]
    <3>1. PICK j \in 1..Len(loop[l]) : loop'[l][i] = loop[l][j]
      BY Zenon, <2>2
    <3> QED BY Zenon, <1>2, <1>3, <3>1
  <2> QED BY Zenon, <2>1, <2>2, OldOrJoined
<1>4. ASSUME NEW l \in Labels, NEW o \in objects'[l] PROVE EnteredNext(o)
  <2>1. objects'[l] = objects[l] => EnteredNext(o)
    BY Zenon, <1>1 DEF TypeOK, Backed
  <2>2. ASSUME HandleEvaluateScript(l) PROVE EnteredNext(o)
    <3>1. /\ objects \in [Labels -> SUBSET Listener] /\ RunScript(l, loop[l][1])
          /\ 1 \in 1..Len(loop[l]) /\ o \in Listener
      <4>1. RunScript(l, loop[l][1]) /\ Popped(l) /\ Len(loop[l]) \in Nat
        BY Zenon, <2>2, Handling, Forms
      <4>2. 1 \in 1..Len(loop[l])
        BY <4>1 DEF Popped
      <4>3. objects \in [Labels -> SUBSET Listener] /\ o \in Listener
        BY Zenon DEF TypeOK
      <4> QED BY Zenon, <4>1, <4>2, <4>3
    <3>2. o \in objects[l] \/ (loop[l][1].do = "listen" /\ o = loop[l][1].listener)
      BY Zenon, <3>1 DEF RunScript
    <3>3. o \in objects[l] => EnteredNext(o)
      BY Zenon, <1>1, <3>1 DEF Backed
    <3>4. Entered(o) => EnteredNext(o)
      BY Zenon, <1>1, <3>1
    <3>5. loop[l][1].do = "listen" => Entered(loop[l][1].listener)
      BY Zenon, <3>1 DEF Backed
    <3> QED BY Zenon, <3>2, <3>3, <3>4, <3>5
  <2> QED BY Zenon, <2>1, <2>2, StepOf DEF Still, Joined, Renewed
<1> QED BY Zenon, <1>3, <1>4 DEF Backed, Entered

\* Every step keeps Seen.
LEMMA NextSeen == TypeOK /\ Ids /\ Sites /\ Seen /\ [Next]_vars => Seen'
<1> SUFFICES ASSUME TypeOK, Ids, Sites, Seen, [Next]_vars PROVE Seen'
  BY Zenon
<1>1. ASSUME NEW l \in Labels, CloseRequested(l) PROVE Seen'
  <2>1. main'.label = l /\ main'.seen = WindowListeners(l) /\ UNCHANGED js_event_listeners
    BY Zenon, <1>1 DEF CloseRequested, CloseEvent
  <2> QED BY Zenon, <2>1 DEF Seen, WindowListeners
<1>2. main' = Idle => Seen'
  BY Zenon DEF Seen
<1>3. ASSUME UNCHANGED main PROVE Seen'
  <2>1. main # Idle => main.seen \subseteq Listener
    BY Zenon, Forms
  <2> QED BY Zenon, <1>3, <2>1, Kept, Growth DEF Seen
<1>4. main' = main \/ main' = Idle \/ \E l \in Labels : CloseRequested(l)
  BY Zenon DEF Next, Progress, vars, HandleEvaluateScript, ListenEval, ListenJs, UnlistenEval,
     UnlistenJs, CloseEmit, Listen, Unlisten, EmitJs, EmitJsMain, Reload, Destroy, Create
<1> QED BY Zenon, <1>1, <1>2, <1>3, <1>4

-----------------------------------------------------------------------------
(* Ready *)

\* A known listener that is live after a step was so before, on the same page.
LEMMA LiveBefore ==
  ASSUME TypeOK, Ids, [Next]_vars, NEW m \in Listener, Known(m), Live(m)'
  PROVE  Live(m) /\ page'[m.webview] = page[m.webview] /\ m.webview \in webviews'
<1>1. m.webview \in Labels /\ m.page \in Nat
  BY Zenon DEF Listener
<1>2. m.webview \in webviews' /\ m.page = page'[m.webview] /\ m.id \notin leaving'
  BY Zenon DEF Live, AtHome
<1>3. /\ m.page <= page[m.webview] /\ page[m.webview] <= page'[m.webview]
      /\ page[m.webview] \in Nat
      /\ leaving \subseteq leaving'
      /\ m.webview \in webviews \/ page[m.webview] < page'[m.webview]
  BY Zenon, <1>1, <1>2, Growth DEF Ids, TypeOK
<1>4. m.page = page[m.webview] /\ ~(page[m.webview] < page'[m.webview])
  BY <1>1, <1>2, <1>3
<1> QED BY Zenon, <1>2, <1>3, <1>4 DEF Live, AtHome

\* After the step, the handler of m is in its page, or will be after n messages.
InstalledNext(m, n) ==
  \/ m \in objects'[m.webview]
  \/ \E k \in 1..n : loop'[m.webview][k] = [do |-> "listen", listener |-> m]

\* A live listener that is installed stays so: a script for its id is its own, and an
\* unlisten script would have been asked for by its page.
LEMMA Persists ==
  ASSUME TypeOK, Ids, Sites, [Next]_vars, NEW m \in Listener, Known(m), Live(m)',
         NEW n \in Nat, n <= Len(loop[m.webview]), Installed(m, n)
  PROVE  \/ Popped(m.webview) /\ InstalledNext(m, n - 1)
         \/ /\ loop'[m.webview] = loop[m.webview] \/ \E s : Joined(m.webview, s)
            /\ InstalledNext(m, n)
<1> DEFINE w == m.webview
           mine == [do |-> "listen", listener |-> m]
<1>1. w \in Labels /\ Len(loop[w]) \in Nat
  BY Zenon, Forms DEF Listener
<1>2. Live(m) /\ page'[w] = page[w] /\ w \in webviews' /\ m.id \notin leaving
  BY Zenon, LiveBefore DEF Live
<1>3. ~Renewed(w)
  BY <1>1, <1>2 DEF Renewed, TypeOK
<1>4. mine.do = "listen" /\ mine.listener = m
  BY Zenon
<1>5. m \in objects[w] \/ \E k \in 1..n : loop[w][k] = mine
  BY Zenon DEF Installed
<1> HIDE DEF mine
<1>6. CASE Still(w)
  BY Zenon, <1>5, <1>6 DEF Still, InstalledNext, mine
<1>7. ASSUME NEW s, Joined(w, s) PROVE InstalledNext(m, n)
  <2>1. ASSUME NEW k \in 1..n, loop[w][k] = mine PROVE InstalledNext(m, n)
    <3>1. k \in 1..Len(loop[w])
      BY <1>1
    <3>2. loop'[w][k] = mine
      BY Zenon, <1>7, <2>1, <3>1 DEF Joined, Longer
    <3> QED BY Zenon, <3>2 DEF InstalledNext, mine
  <2>2. m \in objects[w] => InstalledNext(m, n)
    BY Zenon, <1>7 DEF Joined, InstalledNext
  <2> QED BY Zenon, <1>5, <2>1, <2>2
<1>8. ASSUME HandleEvaluateScript(w) PROVE Popped(w) /\ InstalledNext(m, n - 1)
  <2> DEFINE s == loop[w][1]
  <2>1. /\ Popped(w) /\ s \in Script /\ RunScript(w, s)
        /\ 1 \in 1..Len(loop[w]) /\ Len(loop'[w]) = Len(loop[w]) - 1
        /\ objects \in [Labels -> SUBSET Listener]
    <3>1. Popped(w) /\ s \in Script /\ RunScript(w, s)
      BY Zenon, <1>1, <1>8, Handling
    <3>2. 1 \in 1..Len(loop[w]) /\ Len(loop'[w]) = Len(loop[w]) - 1
      BY <1>1, <3>1 DEF Popped
    <3> QED BY Zenon, <3>1, <3>2 DEF TypeOK
  <2>2. s.do = "listen" /\ s.listener.id = m.id => s.listener = m
    <3>1. s.do = "listen" => s.listener \in Listener /\ Known(s.listener)
      BY Zenon, <1>1, <2>1, Forms DEF Known, Mentions
    <3> QED BY Zenon, <3>1 DEF Ids
  <2>3. s.do = "unlisten" => s.listener.id # m.id
    BY ZenonT(30), <1>1, <1>2, <2>1 DEF Sites, Sited
  <2>4. s = mine => m \in objects'[w]
    BY ZenonT(30), <1>1, <1>4, <2>1 DEF RunScript
  <2>5. m \in objects[w] => m \in objects'[w]
    <3> HIDE DEF s
    <3>1. CASE s.do = "listen" /\ objects' = [objects EXCEPT ![w] =
                 {o \in @ : o.id # s.listener.id \/ o.event # s.listener.event} \cup {s.listener}]
      <4>1. objects'[w] = {o \in objects[w] : o.id # s.listener.id \/ o.event # s.listener.event}
                            \cup {s.listener}
        BY Zenon, <1>1, <2>1, <3>1
      <4> QED BY Zenon, <2>2, <3>1, <4>1
    <3>2. CASE s.do = "unlisten" /\ objects' = [objects EXCEPT ![w] =
                 {o \in @ : o.id # s.listener.id \/ o.event # s.listener.event}]
      <4>1. objects'[w] = {o \in objects[w] : o.id # s.listener.id \/ o.event # s.listener.event}
        BY Zenon, <1>1, <2>1, <3>2
      <4> QED BY Zenon, <2>3, <3>2, <4>1
    <3>3. CASE UNCHANGED objects
      BY Zenon, <3>3
    <3> QED BY Zenon, <2>1, <3>1, <3>2, <3>3 DEF RunScript
  <2>6. ASSUME NEW k \in 1..n, loop[w][k] = mine, k # 1 PROVE InstalledNext(m, n - 1)
    <3>1. k - 1 \in 1..(n - 1) /\ k - 1 \in 1..Len(loop'[w]) /\ (k - 1) + 1 = k
      BY <1>1, <2>1, <2>6
    <3>2. loop'[w][k - 1] = mine
      BY Zenon, <2>1, <2>6, <3>1 DEF Popped
    <3> QED BY Zenon, <3>1, <3>2 DEF InstalledNext, mine
  <2>7. m \in objects'[w] => InstalledNext(m, n - 1)
    BY Zenon DEF InstalledNext
  <2> QED BY Zenon, <1>5, <2>1, <2>4, <2>5, <2>6, <2>7
<1> QED BY Zenon, <1>1, <1>3, <1>6, <1>7, <1>8, StepOf DEF Still

\* A listener is evaluated by a step only with its listen script sent.
LEMMA Evaluating ==
  ASSUME TypeOK, Ids, [Next]_vars, NEW m \in Listener, Evaluated(m)', Live(m)', ~Evaluated(m)
  PROVE  Longer(m.webview, [do |-> "listen", listener |-> m])
<1> DEFINE d == [listener |-> m, at |-> "evaluated"]
<1>1. d.listener = m
  BY Zenon
<1>2. ASSUME NEW c \in listening, ListenEval(c)
      PROVE  Longer(m.webview, [do |-> "listen", listener |-> m])
  <2>1. /\ c.listener \in Listener
        /\ [c EXCEPT !.at = "evaluated"] = [listener |-> c.listener, at |-> "evaluated"]
        /\ [c EXCEPT !.at = "evaluated"].listener = c.listener
    BY DEF TypeOK
  <2>2. d = [c EXCEPT !.at = "evaluated"]
    BY Zenon, <1>2 DEF ListenEval, Evaluated
  <2>3. c.listener = m
    BY Zenon, <1>1, <2>1, <2>2
  <2>4. Known(m) /\ m.webview \in Labels
    BY Zenon, <2>3 DEF Known, Listener
  <2>5. m.webview \in webviews /\ m.page = page[m.webview] /\ born[m.webview] <= page[m.webview]
    BY Zenon, <2>4, LiveBefore DEF Live, AtHome, Ids
  <2>6. "listen" \in {"listen", "unlisten"}
    BY Zenon
  <2>7. m.webview \in webviews /\ born[m.webview] <= m.page
    BY Zenon, <2>5
  <2> QED BY Zenon, <1>2, <2>3, <2>6, <2>7, Sending DEF ListenEval
<1>3. ASSUME NEW c \in listening, ListenJs(c) PROVE Evaluated(m)
  <2>1. c = [listener |-> c.listener, at |-> "evaluated"]
    BY Zenon, <1>3 DEF TypeOK, ListenJs
  <2> QED BY Zenon, <1>3, <2>1 DEF ListenJs, Evaluated
<1>4. ASSUME NEW q \in Listens, Listen(q) PROVE Evaluated(m)
  <2>1. \A n : [listener |-> n, at |-> "called"] # d
    BY Zenon
  <2> QED BY Zenon, <1>4, <2>1 DEF Listen, Evaluated
<1>5. ASSUME NEW l \in Labels, CloseRequested(l) PROVE Evaluated(m)
  <2>1. main'.seen = WindowListeners(l)
    BY Zenon, <1>5 DEF CloseRequested, CloseEvent
  <2> QED BY Zenon, <1>5, <2>1 DEF CloseRequested, WindowListeners, Evaluated
<1> HIDE DEF d
<1>6. ASSUME js_event_listeners' \subseteq js_event_listeners, UNCHANGED listening,
             main' = main \/ main' = Idle
      PROVE  Evaluated(m)
  BY Zenon, <1>6 DEF Evaluated
<1>7. ASSUME NEW c, UnlistenEval(c) \/ UnlistenJs(c) \/ Unlisten(c) PROVE Evaluated(m)
  BY Zenon, <1>6, <1>7 DEF UnlistenEval, UnlistenJs, Unlisten
<1>8. ASSUME NEW e, EmitJs(e) \/ EmitJsMain(e) PROVE Evaluated(m)
  BY Zenon, <1>6, <1>8 DEF EmitJs, EmitJsMain
<1>9. ASSUME NEW l, HandleEvaluateScript(l) \/ Reload(l) \/ Destroy(l) \/ Create(l)
      PROVE  Evaluated(m)
  BY Zenon, <1>6, <1>9 DEF HandleEvaluateScript, Reload, Destroy, Create
<1>10. CloseEmit => Evaluated(m)
  BY Zenon, <1>6 DEF CloseEmit
<1>11. UNCHANGED vars => Evaluated(m)
  BY Zenon, <1>6 DEF vars
<1> QED BY Zenon, <1>2, <1>3, <1>4, <1>5, <1>7, <1>8, <1>9, <1>10, <1>11 DEF Next, Progress

\* Every step keeps Ready: the loop keeps the order of a listener's listen script and
\* the emit scripts that name it.
LEMMA NextReady == TypeOK /\ TypeOK' /\ Ids /\ Sites /\ Ready /\ [Next]_vars => Ready'
<1> SUFFICES ASSUME TypeOK, TypeOK', Ids, Sites, Ready, [Next]_vars PROVE Ready'
  BY Zenon
<1>1. \A l \in Labels : Len(loop[l]) \in Nat /\ Len(loop'[l]) \in Nat
  <2>1. ASSUME NEW l \in Labels PROVE Len(loop'[l]) \in Nat
    <3>1. loop'[l] \in Seq(Script)
      BY Zenon DEF TypeOK
    <3> QED BY <3>1
  <2> QED BY Zenon, <2>1, Forms
<1>2. \A m \in Listener : m.webview \in Labels
  BY Zenon DEF Listener
<1>3. ASSUME NEW m \in Listener, Evaluated(m)', Live(m)'
      PROVE  InstalledNext(m, Len(loop'[m.webview]))
  <2> DEFINE w == m.webview
  <2>1. CASE ~Evaluated(m)
    <3>1. Longer(w, [do |-> "listen", listener |-> m])
      BY Zenon, <1>3, <2>1, Evaluating
    <3>2. Len(loop[w]) + 1 \in 1..Len(loop'[w])
      BY <1>1, <1>2, <3>1 DEF Longer
    <3> QED BY Zenon, <3>1, <3>2 DEF Longer, InstalledNext
  <2>2. CASE Evaluated(m)
    <3>1. Known(m)
      <4>1. [listener |-> m, at |-> "evaluated"].listener = m
        BY Zenon
      <4> QED BY Zenon, <2>2, <4>1 DEF Evaluated, Known
    <3>2. Installed(m, Len(loop[w]))
      BY Zenon, <1>3, <2>2, <3>1, LiveBefore DEF Ready
    <3>3. Len(loop[w]) \in Nat /\ Len(loop[w]) <= Len(loop[w]) /\ Len(loop'[w]) \in Nat
      BY <1>1, <1>2
    <3>4. \/ Popped(w) /\ InstalledNext(m, Len(loop[w]) - 1)
          \/ /\ loop'[w] = loop[w] \/ \E s : Joined(w, s)
             /\ InstalledNext(m, Len(loop[w]))
      BY Zenon, <1>3, <3>1, <3>2, <3>3, Persists
    <3>5. CASE Popped(w) /\ InstalledNext(m, Len(loop[w]) - 1)
      BY Zenon, <3>5 DEF Popped
    <3>6. CASE loop'[w] = loop[w] /\ InstalledNext(m, Len(loop[w]))
      BY Zenon, <3>6
    <3>7. ASSUME NEW s, Joined(w, s), InstalledNext(m, Len(loop[w]))
          PROVE  InstalledNext(m, Len(loop'[w]))
      <4>1. \A k \in 1..Len(loop[w]) : k \in 1..Len(loop'[w])
        BY <3>3, <3>7 DEF Joined, Longer
      <4> QED BY Zenon, <3>7, <4>1 DEF InstalledNext
    <3> QED BY Zenon, <3>4, <3>5, <3>6, <3>7
  <2> QED BY Zenon, <2>1, <2>2
<1>4. ASSUME NEW l \in Labels, NEW j \in 1..Len(loop'[l]), loop'[l][j].do = "emit",
             NEW m \in loop'[l][j].to, Live(m)'
      PROVE  InstalledNext(m, j - 1)
  <2>0. /\ loop' \in [Labels -> Seq(Script)]
        /\ j \in Nat /\ 1 <= j /\ j - 1 \in Nat /\ (j + 1) - 1 \in Nat /\ (j + 1) - 1 = j
    BY <1>1 DEF TypeOK
  <2>1. loop'[l][j] \in Script
    BY <2>0
  <2>2. m \in Listener
    BY Zenon, <1>4, <2>1, Forms
  <2>3. m.webview = l
    BY ZenonT(30), <1>4, NextSites DEF Sites, Sited
  <2>4. ASSUME NEW i \in 1..Len(loop[l]), loop'[l][j] = loop[l][i]
        PROVE  Known(m) /\ Installed(m, i - 1) /\ i - 1 \in Nat /\ i - 1 <= Len(loop[l])
    <3>1. Known(m)
      BY Zenon, <1>4, <2>4 DEF Known, Mentions
    <3>2. Installed(m, i - 1)
      BY Zenon, <1>4, <2>2, <2>4, <3>1, LiveBefore DEF Ready
    <3> QED BY <1>1, <3>1, <3>2
  <2>5. ASSUME Joined(l, loop'[l][j]), j = Len(loop[l]) + 1 PROVE InstalledNext(m, j - 1)
    <3>1. m \in js_event_listeners
      BY Zenon, <1>4, <2>5 DEF Joined
    <3>2. Known(m) /\ Evaluated(m)
      BY Zenon, <3>1 DEF Known, Evaluated
    <3>3. Installed(m, Len(loop[l])) /\ Len(loop[l]) \in Nat /\ Len(loop[l]) <= Len(loop[l])
          /\ j - 1 = Len(loop[l])
      <4>1. Live(m)
        BY Zenon, <1>4, <2>2, <3>2, LiveBefore
      <4>2. Installed(m, Len(loop[l]))
        BY Zenon, <2>2, <2>3, <3>2, <4>1 DEF Ready
      <4> QED BY <1>1, <2>5, <4>2
    <3>4. ~Popped(l)
      BY <1>1, <2>5 DEF Joined, Longer, Popped
    <3>5. InstalledNext(m, Len(loop[l]))
      BY Zenon, <1>4, <2>2, <2>3, <3>2, <3>3, <3>4, Persists
    <3> QED BY Zenon, <3>3, <3>5
  <2>6. CASE Popped(l)
    <3>1. j + 1 \in 1..Len(loop[l]) /\ loop'[l][j] = loop[l][j + 1]
      BY <1>1, <2>6 DEF Popped
    <3>2. Known(m) /\ Installed(m, j) /\ j <= Len(loop[l])
      BY Zenon, <2>0, <2>4, <3>1
    <3>3. loop'[l] # loop[l] /\ \A s : ~Joined(l, s)
      BY <1>1, <2>6 DEF Popped, Joined, Longer
    <3> QED BY Zenon, <1>4, <2>0, <2>2, <2>3, <3>2, <3>3, Persists
  <2>7. ASSUME j \in 1..Len(loop[l]), loop'[l][j] = loop[l][j], ~Popped(l)
        PROVE  InstalledNext(m, j - 1)
    <3>1. Known(m) /\ Installed(m, j - 1) /\ j - 1 \in Nat /\ j - 1 <= Len(loop[l])
      BY Zenon, <2>4, <2>7
    <3> QED BY Zenon, <1>4, <2>2, <2>3, <2>7, <3>1, Persists
  <2>8. CASE loop'[l] = loop[l]
    <3>1. ~Popped(l)
      BY <1>1, <2>8 DEF Popped
    <3> QED BY Zenon, <2>7, <2>8, <3>1
  <2>9. ASSUME NEW s, Joined(l, s) PROVE InstalledNext(m, j - 1)
    <3>1. ~Popped(l)
      BY <1>1, <2>9 DEF Joined, Longer, Popped
    <3>2. \/ j \in 1..Len(loop[l]) /\ loop'[l][j] = loop[l][j]
          \/ j = Len(loop[l]) + 1 /\ loop'[l][j] = s
      BY Zenon, <2>0, <2>9, Messages DEF Joined
    <3> QED BY Zenon, <2>5, <2>7, <2>9, <3>1, <3>2
  <2>10. CASE loop'[l] = <<>>
    BY <2>10
  <2>11. HandleEvaluateScript(l) => Popped(l)
    BY Zenon, Handling
  <2> QED BY Zenon, <2>6, <2>8, <2>9, <2>10, <2>11, StepOf DEF Still, Renewed
<1> QED BY Zenon, <1>3, <1>4 DEF Ready, Installed, InstalledNext

-----------------------------------------------------------------------------
(* The invariant holds *)

\* Nothing is listened to when the program starts.
LEMMA InitInv == Init => TypeOK /\ Inv
<1> SUFFICES ASSUME Init PROVE TypeOK /\ Inv
  BY Zenon
<1>1. /\ js_event_listeners = {} /\ listening = {} /\ unlistening = {} /\ main = Idle
      /\ \A l \in Labels : objects[l] = {} /\ loop[l] = <<>> /\ born[l] = 0 /\ page[l] = 0
  BY Zenon DEF Init
<1>2. \A l \in Labels : Len(loop[l]) = 0
  <2>1. Len(<<>>) = 0
    BY Zenon
  <2> QED BY Zenon, <1>1, <2>1
<1>3. \A l \in Labels : \A i \in 1..Len(loop[l]) : FALSE
  BY <1>2
<1>4. \A m : ~Known(m) /\ ~Evaluated(m)
  BY Zenon, <1>1, <1>3 DEF Known, Evaluated
<1>5. Ids
  BY <1>1, <1>4 DEF Ids
<1>6. Sites /\ Backed /\ Ready /\ Seen
  BY Zenon, <1>1, <1>3, <1>4 DEF Sites, Backed, Ready, Seen
<1>7. TypeOK
  BY DEF Init, TypeOK
<1> QED BY Zenon, <1>5, <1>6, <1>7 DEF Inv

\* The invariant of every run.
LEMMA Invariance == Spec => [](TypeOK /\ Inv)
<1>1. TypeOK /\ Inv /\ [Next]_vars => (TypeOK /\ Inv)'
  BY Zenon, NextType, NextIds, NextSites, NextBacked, NextReady, NextSeen DEF Inv
<1> QED BY InitInv, <1>1, PTL DEF Spec

\* Types: next_event_id, the tables, the queues and the histories hold what the code
\* puts there, and a page's objects have the page's webview and a taken id.
THEOREM TypeCorrect == Spec => []TypeOK
  BY Invariance, PTL

\* No deaf listener: listen_js makes the entry of every handler its script installs, and
\* unlisten_js removes entries of listeners their page let go of only.
THEOREM NoneDeaf == Spec => []NoDeafListener
<1>1. TypeOK /\ Inv => NoDeafListener
  BY Zenon DEF Inv, Backed, Entered, NoDeafListener, TypeOK
<1> QED BY <1>1, Invariance, PTL

-----------------------------------------------------------------------------
(* What emissions find *)

\* Whoever is live, named and has its handler in the page is called.
LEMMA CalledIf ==
  ASSUME NEW m \in Listener, AtHome(m), NEW event, m.event = event, NEW to, m \in to,
         m \in objects[m.webview]
  PROVE  m \in Called(m.webview, event, to)
  BY Zenon DEF Called

\* An emission of the main thread calls a live entry of the table it names, or the
\* entry's listen script is under way.
LEMMA CalledOrUnderway ==
  ASSUME TypeOK, Inv, NEW m \in js_event_listeners, Live(m), NEW event, NEW sel,
         m.event = event, MatchAnyOrFilter(sel, m.target)
  PROVE  m \in CalledNow(event, sel) \/ Underway(m)
<1>1. m \in Listener /\ m.webview \in Labels /\ m.webview \in webviews
  BY Zenon DEF TypeOK, Live, AtHome, Listener
<1>2. Installed(m, Len(loop[m.webview]))
  BY Zenon, <1>1 DEF Inv, Ready, Evaluated
<1>3. m \in Named(m.webview, event, sel)
  BY Zenon DEF Named
<1>4. ASSUME m \in objects[m.webview] PROVE m \in CalledNow(event, sel)
  <2>1. m \in Called(m.webview, event, Named(m.webview, event, sel))
    BY Zenon, <1>1, <1>3, <1>4, CalledIf DEF Live
  <2> QED BY Zenon, <1>1, <2>1 DEF CalledNow
<1>5. ASSUME NEW k \in 1..Len(loop[m.webview]),
             loop[m.webview][k] = [do |-> "listen", listener |-> m]
      PROVE  Underway(m)
  <2>1. k \in DOMAIN loop[m.webview]
    BY <1>1 DEF TypeOK
  <2>2. loop[m.webview][k].do = "listen" /\ loop[m.webview][k].listener.id = m.id
    BY <1>5
  <2> QED BY Zenon, <2>1, <2>2 DEF Underway
<1> QED BY Zenon, <1>2, <1>4, <1>5 DEF Installed

\* Whoever an emission calls has the event and a target that matches: the entry with
\* the handler's id is the handler's own.
LEMMA CalledRight ==
  ASSUME TypeOK, Inv, NEW l \in Labels, NEW event, NEW sel, NEW to, to \subseteq Listener,
         \A m \in to : Known(m) /\ m.event = event /\ MatchAnyOrFilter(sel, m.target),
         NEW o \in Called(l, event, to)
  PROVE  o.event = event /\ MatchAnyOrFilter(sel, o.target)
<1>1. PICK m \in to : m.id = o.id
  BY Zenon DEF Called
<1>2. o \in objects[l] /\ o \in Listener
  BY Zenon DEF Called, TypeOK
<1>3. Known(o)
  BY Zenon, <1>2 DEF Known
<1>4. m = o
  BY Zenon, <1>1, <1>2, <1>3 DEF Inv, Ids
<1> QED BY Zenon, <1>4

\* The fields of what was heard.
LEMMA HeardFields ==
  \A o, e, s : LET h == [listener |-> o, event |-> e, sel |-> s]
               IN  h.listener = o /\ h.event = e /\ h.sel = s
  BY Zenon

\* A step that emits has called some of those due, unless nobody was.  Those due have the
\* event and match, and whoever was named and is live was due or overtaken.
Emitted(called, due, event, sel, to, now) ==
  /\ Record(called, due, event, sel, to, now)
  /\ called \subseteq due
  /\ \A o \in due : o.event = event /\ MatchAnyOrFilter(sel, o.target)
  /\ \A m \in to : Live(m) => (\E o \in due : o.id = m.id) \/ (now /\ Underway(m))

\* A handled emit script emits: the listen scripts of its listeners came before it.
LEMMA HandleEmits ==
  ASSUME TypeOK, Inv, NEW l \in Labels, HandleEvaluateScript(l)
  PROVE  \/ UNCHANGED <<heard, missed>>
         \/ \E called, due, event, sel, to : Emitted(called, due, event, sel, to, FALSE)
<1> DEFINE s == loop[l][1]
<1>1. s \in Script /\ RunScript(l, s) /\ Popped(l) /\ Len(loop[l]) \in Nat
  BY Zenon, Handling, Forms
<1>2. 1 \in 1..Len(loop[l]) /\ 1 - 1 = 0 /\ 1..0 = {}
  BY <1>1 DEF Popped
<1>3. Sited(l, s, leaving) /\ \A m : Mentions(s, m) => Known(m)
  BY Zenon, <1>2 DEF Inv, Sites, Known
<1>4. s.do = "emit" => \A m \in s.to : Live(m) => Installed(m, 0)
  BY Zenon, <1>2 DEF Inv, Ready
<1> HIDE DEF s
<1>5. CASE UNCHANGED <<heard, missed>>
  BY Zenon, <1>5
<1>6. ASSUME s.do = "emit", NEW called \in Reached(Called(l, s.event, s.to)),
             Record(called, Called(l, s.event, s.to), s.event, s.sel, s.to, FALSE)
      PROVE  \E due : Emitted(called, due, s.event, s.sel, s.to, FALSE)
  <2>1. s.to \subseteq Listener
    BY Zenon, <1>1, <1>6, Forms
  <2>2. \A m \in s.to : /\ Known(m) /\ m.webview = l
                        /\ m.event = s.event /\ MatchAnyOrFilter(s.sel, m.target)
    BY Zenon, <1>3, <1>6 DEF Sited, Mentions
  <2>3. \A o \in Called(l, s.event, s.to) : o.event = s.event /\ MatchAnyOrFilter(s.sel, o.target)
    <3>1. \A m \in s.to : Known(m) /\ m.event = s.event /\ MatchAnyOrFilter(s.sel, m.target)
      BY Zenon, <2>2
    <3> QED BY Zenon, <2>1, <3>1, CalledRight
  <2>4. ASSUME NEW m \in s.to, Live(m) PROVE m \in Called(l, s.event, s.to)
    <3>1. m \in objects[m.webview]
      BY Zenon, <1>2, <1>4, <1>6, <2>4 DEF Installed
    <3> QED BY Zenon, <2>1, <2>2, <2>4, <3>1, CalledIf DEF Live
  <2>5. called \subseteq Called(l, s.event, s.to)
    BY Zenon, Reaching
  <2>6. Emitted(called, Called(l, s.event, s.to), s.event, s.sel, s.to, FALSE)
    BY Zenon, <1>6, <2>3, <2>4, <2>5 DEF Emitted
  <2> QED BY Zenon, <2>6
<1> QED BY Zenon, <1>1, <1>5, <1>6 DEF RunScript

\* An emission of the main thread emits.
LEMMA MainEmits ==
  ASSUME TypeOK, Inv, NEW event, NEW sel, NEW called \in Reached(CalledNow(event, sel)),
         Record(called, CalledNow(event, sel), event, sel, NamedNow(event, sel), TRUE)
  PROVE  Emitted(called, CalledNow(event, sel), event, sel, NamedNow(event, sel), TRUE)
<1>1. \A m \in NamedNow(event, sel) : /\ m \in js_event_listeners /\ m.event = event
                                      /\ MatchAnyOrFilter(sel, m.target)
  BY Zenon DEF NamedNow, Named
<1>2. ASSUME NEW o \in CalledNow(event, sel)
      PROVE  o.event = event /\ MatchAnyOrFilter(sel, o.target)
  <2>1. PICK l \in webviews : o \in Called(l, event, Named(l, event, sel))
    BY Zenon, <1>2 DEF CalledNow
  <2>2. l \in Labels /\ Named(l, event, sel) \subseteq Listener
    BY Zenon DEF TypeOK, Named
  <2>3. \A m \in Named(l, event, sel) : Known(m) /\ m.event = event /\ MatchAnyOrFilter(sel, m.target)
    BY Zenon DEF Named, Known
  <2> QED BY Zenon, <2>1, <2>2, <2>3, CalledRight
<1>3. ASSUME NEW m \in NamedNow(event, sel), Live(m)
      PROVE  (\E o \in CalledNow(event, sel) : o.id = m.id) \/ Underway(m)
  BY Zenon, <1>1, <1>3, CalledOrUnderway
<1> QED BY Zenon, <1>2, <1>3, Reaching DEF Emitted

\* What every step does to the history of calls and misses.
LEMMA Histories ==
  ASSUME TypeOK, Inv, [Next]_vars
  PROVE  \/ UNCHANGED <<heard, missed>>
         \/ \E called, due, event, sel, to, now : Emitted(called, due, event, sel, to, now)
<1> DEFINE Goal == \/ UNCHANGED <<heard, missed>>
                   \/ \E called, due, event, sel, to, now : Emitted(called, due, event, sel, to, now)
<1>1. ASSUME NEW l \in Labels, HandleEvaluateScript(l) PROVE Goal
  BY Zenon, <1>1, HandleEmits
<1>2. ASSUME NEW e \in Emits, EmitJsMain(e) PROVE Goal
  BY Zenon, <1>2, MainEmits DEF EmitJsMain
<1>3. ASSUME CloseEmit PROVE Goal
  BY Zenon, <1>3, MainEmits DEF CloseEmit
<1> HIDE DEF Goal
<1>4. UNCHANGED <<heard, missed>> => Goal
  BY Zenon DEF Goal
<1>5. ASSUME NEW c, \/ ListenEval(c) \/ ListenJs(c) \/ UnlistenEval(c) \/ UnlistenJs(c)
                    \/ Listen(c) \/ Unlisten(c) \/ EmitJs(c)
      PROVE  Goal
  BY Zenon, <1>4, <1>5 DEF ListenEval, ListenJs, UnlistenEval, UnlistenJs, Listen, Unlisten, EmitJs
<1>6. ASSUME NEW l, CloseRequested(l) \/ Reload(l) \/ Destroy(l) \/ Create(l) PROVE Goal
  BY Zenon, <1>4, <1>6 DEF CloseRequested, Reload, Destroy, Create
<1>7. UNCHANGED vars => Goal
  BY Zenon, <1>4 DEF vars
<1>8. Goal
  BY Zenon, <1>1, <1>2, <1>3, <1>5, <1>6, <1>7 DEF Next, Progress
<1> QED BY Zenon, <1>8 DEF Goal

\* Nothing missed: an emission that names a listener of the page on show calls its
\* handler, because listen_js has the script evaluated before it makes the entry and the
\* event loop keeps the order.  Only the main thread's own emissions can be too early, and
\* only a handler of the same page that throws can end the loop before it.
THEOREM NoneMissed == Spec => []NothingMissed
<1>1. Init => NothingMissed
  BY Zenon DEF Init, NothingMissed
<1>2. TypeOK /\ Inv /\ NothingMissed /\ [Next]_vars => NothingMissed'
  <2> SUFFICES ASSUME TypeOK, Inv, NothingMissed, [Next]_vars PROVE NothingMissed'
    BY Zenon
  <2>1. leaving \subseteq leaving'
    BY Zenon, Growth DEF Inv
  <2>2. CASE UNCHANGED missed
    BY Zenon, <2>1, <2>2 DEF NothingMissed
  <2>3. ASSUME NEW called, NEW due, NEW event, NEW sel, NEW to, NEW now,
               Emitted(called, due, event, sel, to, now), NEW r \in missed', r.home
        PROVE  r.overtaken \/ r.cut \/ r.listener.id \in leaving'
    <3>1. CASE r \in missed
      BY Zenon, <2>1, <2>3, <3>1 DEF NothingMissed
    <3>2. CASE r \notin missed
      <4>1. PICK m \in to : r = Miss(m, due, now /\ Underway(m))
        BY Zenon, <2>3, <3>2 DEF Emitted, Record
      <4>2. /\ r.listener = m /\ r.home = AtHome(m) /\ r.overtaken = (now /\ Underway(m))
            /\ r.cut = (\E o \in due : o.id = m.id)
        BY Zenon, <4>1 DEF Miss
      <4>3. AtHome(m)
        BY Zenon, <2>3, <4>2
      <4>4. m.id \in leaving \/ (now /\ Underway(m)) \/ \E o \in due : o.id = m.id
        BY Zenon, <2>3, <4>3 DEF Emitted, Live
      <4> QED BY Zenon, <2>1, <4>2, <4>4
    <3> QED BY Zenon, <3>1, <3>2
  <2>4. CASE \E called, due, event, sel, to, now : Emitted(called, due, event, sel, to, now)
    BY Zenon, <2>3, <2>4 DEF NothingMissed
  <2> QED BY Zenon, <2>2, <2>4, Histories
<1> QED BY <1>1, <1>2, Invariance, PTL DEF Spec

\* The right listener: the page's lookup by id calls only handlers whose own event and
\* target the emission matches, since next_event_id never repeats an id.
THEOREM OnlyRight == Spec => []RightListener
<1>1. Init => RightListener
  BY Zenon DEF Init, RightListener
<1>2. TypeOK /\ Inv /\ RightListener /\ [Next]_vars => RightListener'
  <2> SUFFICES ASSUME TypeOK, Inv, RightListener, [Next]_vars PROVE RightListener'
    BY Zenon
  <2>1. CASE UNCHANGED heard
    BY Zenon, <2>1 DEF RightListener
  <2>2. ASSUME NEW called, NEW due, NEW event, NEW sel, NEW to, NEW now,
               Emitted(called, due, event, sel, to, now), NEW h \in heard'
        PROVE  h.event = h.listener.event /\ MatchAnyOrFilter(h.sel, h.listener.target)
    <3>1. CASE h \in heard
      BY Zenon, <3>1 DEF RightListener
    <3>2. CASE h \notin heard
      <4>1. PICK o \in called : h = [listener |-> o, event |-> event, sel |-> sel]
        BY Zenon, <2>2, <3>2 DEF Emitted, Record
      <4>2. h.listener = o /\ h.event = event /\ h.sel = sel
        BY Zenon, <4>1, HeardFields
      <4> QED BY Zenon, <2>2, <4>2 DEF Emitted
    <3> QED BY Zenon, <3>1, <3>2
  <2>3. CASE \E called, due, event, sel, to, now : Emitted(called, due, event, sel, to, now)
    BY Zenon, <2>2, <2>3 DEF RightListener
  <2> QED BY Zenon, <2>1, <2>3, Histories
<1> QED BY <1>1, <1>2, Invariance, PTL DEF Spec

\* Close requests are heard: when has_js_listener prevents a close, an entry of the page on
\* show that it saw is told, unless the page let it go or its listen script is under way.
THEOREM CloseTold == Spec => []CloseHeard
<1>1. Init => CloseHeard
  BY Zenon DEF Init, CloseHeard
<1>2. TypeOK /\ Inv /\ CloseHeard /\ [Next]_vars => CloseHeard'
  <2> SUFFICES ASSUME TypeOK, Inv, CloseHeard, [Next]_vars PROVE CloseHeard'
    BY Zenon
  <2>1. leaving \subseteq leaving'
    BY Zenon, Growth DEF Inv
  <2>2. CASE UNCHANGED swallowed
    BY Zenon, <2>1, <2>2 DEF CloseHeard
  <2>3. ASSUME CloseEmit, NEW s \in swallowed', NEW r \in s, r.home
        PROVE  r.overtaken \/ r.listener.id \in leaving'
    <3>1. CASE s \in swallowed
      BY Zenon, <2>1, <2>3, <3>1 DEF CloseHeard
    <3> DEFINE sel == [kind |-> "OfWindow", label |-> main.label]
    <3>2. CASE s \notin swallowed
      <4> DEFINE due == CalledNow("close-requested", sel)
      <4>1. due = {} /\ s = {Miss(m, due, Underway(m)) : m \in main.seen}
        <5>1. PICK called \in Reached(due) :
                swallowed' = IF called = {} /\ main.seen # {}
                             THEN swallowed \cup {{Miss(m, due, Underway(m)) : m \in main.seen}}
                             ELSE swallowed
          BY Zenon, <2>3 DEF CloseEmit
        <5>2. called = {} /\ s = {Miss(m, due, Underway(m)) : m \in main.seen}
          BY Zenon, <2>3, <3>2, <5>1
        <5> QED BY Zenon, <5>2, Reaching
      <4>2. PICK m \in main.seen : r = Miss(m, due, Underway(m))
        BY Zenon, <2>3, <4>1
      <4>3. r.listener = m /\ r.home = AtHome(m) /\ r.overtaken = Underway(m)
        BY Zenon, <4>2 DEF Miss
      <4>4. main # Idle
        BY Zenon, <2>3, Forms DEF CloseEmit
      <4>5. /\ m \in js_event_listeners \/ m.id \in leaving
            /\ m.event = "close-requested" /\ MatchAnyOrFilter(sel, m.target)
        BY Zenon, <4>4 DEF Inv, Seen, MatchAnyOrFilter
      <4>6. AtHome(m)
        BY Zenon, <2>3, <4>3
      <4> HIDE DEF sel
      <4>7. m.id \in leaving \/ Underway(m)
        BY Zenon, <4>1, <4>5, <4>6, CalledOrUnderway DEF Live
      <4> QED BY Zenon, <2>1, <4>3, <4>7
    <3> QED BY Zenon, <3>1, <3>2
  <2>4. CASE CloseEmit
    BY Zenon, <2>3, <2>4 DEF CloseHeard
  <2>5. UNCHANGED swallowed \/ CloseEmit
    BY Zenon DEF Next, Progress, vars, HandleEvaluateScript, ListenEval, ListenJs, UnlistenEval,
       UnlistenJs, Listen, Unlisten, EmitJs, EmitJsMain, CloseRequested, Reload, Destroy, Create
  <2> QED BY Zenon, <2>2, <2>4, <2>5
<1> QED BY <1>1, <1>2, Invariance, PTL DEF Spec
=============================================================================
