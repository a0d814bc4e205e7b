--------------------------- MODULE LifecycleProofs ---------------------------
(***************************************************************************)
(* Theorems about Lifecycle, for any number of threads, labels and         *)
(* windows: types, the invariants of the runtime that the theorems about   *)
(* the tables rest on, and that the managers hear of the events of every   *)
(* window in their tables: listeners go through the queue, windows that    *)
(* the main thread builds do not.                                          *)
(***************************************************************************)
EXTENDS Lifecycle, TLAPS

(* The inductive invariants *)

\* The places of build once the window has its id.
After == {"listen_window", "insert_window", "listen_webview", "insert_webview",
          "first"}

\* A thread inside build uses one of its own labels, and has an id once it has
\* asked for the window.
BuildersInv ==
  \A t \in Threads :
    /\ pc[t] \in {"prepare", "create"} \cup After => label[t] \in MayUse[t]
    /\ pc[t] \in After => id[t] \in Ids

TypeInv == TypeOK /\ BuildersInv

\* Message p of the queue creates window i.
Creates(p, i) == queue[p].kind = "create" /\ queue[p].id = i

\* An id is taken from the counter once, and its window is created once.
FreshInv ==
  /\ \A p \in DOMAIN queue, i \in Ids : Creates(p, i) =>
       /\ i < next_window_id
       /\ ~Stored(i)
       /\ i \notin closed
       /\ \A q \in DOMAIN queue : Creates(q, i) => q = p
  /\ \A w \in store : w.id < next_window_id
  /\ \A v, w \in store : v.id = w.id => v = w
  /\ \A i \in closed : i < next_window_id

\* The managers are told once that a window is destroyed, after its native window
\* is gone and before its wrapper is.
NativeInv ==
  /\ \A w \in store : w.inner => w.id \notin native \cup closed
  /\ \A i \in native : i \notin closed /\ Stored(i)
  /\ main = "destroyed" => dying \in closed

RuntimeInv == FreshInv /\ NativeInv

\* Window i of label l is about to be created, or exists and the managers have not
\* been told otherwise.
Living(i, l) ==
  \/ Queued(CreateMessage(i, l))
  \/ \E w \in store : w.id = i /\ w.label = l /\ i \notin closed

-----------------------------------------------------------------------------
(* The queue *)

\* What the kind of a message of the event loop says about its fields.
LEMMA MessageKinds ==
  ASSUME NEW m \in Message
  PROVE  /\ m.kind = "create" => m.id \in Ids /\ m.label \in Labels
                                 /\ m = CreateMessage(m.id, m.label)
         /\ m.kind = "listen" => m.id \in Ids /\ m.to \in Kinds
                                 /\ m = ListenMessage(m.id, m.to)
         /\ m.kind \in {"close", "destroy"} => m.id \in Ids
BY Zenon DEF Message, Create, Listen, Ask, RequestExit, CreateMessage, ListenMessage

\* The messages that builders and callers send through the proxy are messages.
LEMMA Messages ==
  /\ \A i \in Ids, l \in Labels : CreateMessage(i, l) \in Message
  /\ \A i \in Ids, k \in Kinds : ListenMessage(i, k) \in Message
  /\ Ask \subseteq Message
  /\ [kind |-> "exit"] \in Message
BY Zenon DEF Message, Create, Listen, RequestExit, CreateMessage, ListenMessage

\* proxy.send_event puts one message at the end of the queue.
LEMMA Appended ==
  ASSUME NEW q \in Seq(Message), NEW m \in Message
  PROVE  /\ Append(q, m) \in Seq(Message)
         /\ DOMAIN q = 1 .. Len(q) /\ Len(q) \in Nat
         /\ DOMAIN Append(q, m) = 1 .. (Len(q) + 1)
         /\ \A p \in DOMAIN q : Append(q, m)[p] = q[p]
         /\ Append(q, m)[Len(q) + 1] = m
OBVIOUS

\* Two messages at once are two messages one after the other.
LEMMA AppendedTwo ==
  ASSUME NEW q \in Seq(Message), NEW m \in Message, NEW n \in Message
  PROVE  q \o <<m, n>> = Append(Append(q, m), n)
OBVIOUS

\* Both messages sent one after the other are in the queue, behind those that were.
LEMMA BothQueued ==
  ASSUME NEW q \in Seq(Message), NEW m \in Message, NEW n \in Message,
         NEW r, r = Append(Append(q, m), n)
  PROVE  /\ \E p \in DOMAIN r : r[p] = m
         /\ \E p \in DOMAIN r : r[p] = n
         /\ \A p \in DOMAIN q : p \in DOMAIN r /\ r[p] = q[p]
<1> DEFINE s == Append(q, m)
<1>1. /\ s \in Seq(Message) /\ DOMAIN q = 1 .. Len(q) /\ Len(q) \in Nat
      /\ DOMAIN s = 1 .. (Len(q) + 1) /\ s[Len(q) + 1] = m
      /\ \A p \in DOMAIN q : s[p] = q[p]
  BY Appended
<1> HIDE DEF s
<1>2. /\ DOMAIN s = 1 .. Len(s) /\ Len(s) \in Nat
      /\ DOMAIN Append(s, n) = 1 .. (Len(s) + 1) /\ Append(s, n)[Len(s) + 1] = n
      /\ \A p \in DOMAIN s : Append(s, n)[p] = s[p]
  BY <1>1, Appended
<1>3. r = Append(s, n)
  BY DEF s
<1>4. Len(q) + 1 \in DOMAIN s /\ Len(s) + 1 \in DOMAIN r /\ DOMAIN s \subseteq DOMAIN r
  BY <1>1, <1>2, <1>3
<1>5. DOMAIN q \subseteq DOMAIN s
  BY <1>1
<1> QED
  BY Zenon, <1>1, <1>2, <1>3, <1>4, <1>5

\* The event loop takes the first message and leaves the others in their order.
LEMMA Taken ==
  ASSUME NEW q \in Seq(Message), q # <<>>
  PROVE  /\ Tail(q) \in Seq(Message)
         /\ Head(q) = q[1] /\ Head(q) \in Message
         /\ DOMAIN q = 1 .. Len(q) /\ Len(q) \in Nat \ {0}
         /\ DOMAIN Tail(q) = 1 .. (Len(q) - 1)
         /\ \A p \in DOMAIN Tail(q) : Tail(q)[p] = q[p + 1]
OBVIOUS

-----------------------------------------------------------------------------
(* Types *)

\* create_window makes a wrapper ...
LEMMA NewWrapper ==
  ASSUME NEW i \in Ids, NEW l \in Labels
  PROVE  [id |-> i, label |-> l, inner |-> TRUE, listeners |-> {}] \in Wrapper
BY Zenon DEF Wrapper

\* ... and on_window_close leaves one.
LEMMA ClosedWrapper ==
  ASSUME NEW w \in Wrapper
  PROVE  [w EXCEPT !.inner = FALSE] \in Wrapper
BY Zenon DEF Wrapper

\* Every state of the managers, the runtime and the builders that a step reaches
\* from one with the right types has the right types.
LEMMA TypeStep == TypeInv /\ [Next]_vars => TypeInv'
<1> SUFFICES ASSUME TypeInv, [Next]_vars PROVE TypeInv'
  BY Zenon
<1> USE LifecycleAssumption
<1>a. TypeOK /\ BuildersInv
  BY Zenon DEF TypeInv
<1>b. Ids \subseteq Nat /\ NoWindow \notin Ids
  BY DEF Ids
<1>c. next_window_id < MaxWindows => next_window_id \in Ids /\ next_window_id + 1 \in 0 .. MaxWindows
  BY <1>a DEF TypeOK, Ids
<1>1. ASSUME NEW t \in Threads, PrepareWebview(t) PROVE TypeInv'
  BY <1>a, <1>1 DEF TypeInv, TypeOK, BuildersInv, PrepareWebview, Goto, tables, runtime,
     history, After
<1>2. ASSUME NEW t \in Threads, PrepareWindow(t) PROVE TypeInv'
  <2>1. CASE Goto(t, "create") /\ UNCHANGED <<label, id>>
    BY Zenon, <1>a, <1>2, <2>1 DEF TypeInv, TypeOK, BuildersInv, PrepareWindow, Goto, tables,
       runtime, history, After
  <2>2. CASE Leave(t, "idle")
    BY Zenon, <1>a, <1>2, <2>2 DEF TypeInv, TypeOK, BuildersInv, PrepareWindow, Goto, Leave, tables,
       runtime, history, After
  <2> QED
    BY Zenon, <1>2, <2>1, <2>2 DEF PrepareWindow
<1>3. ASSUME NEW t \in Threads, CreateWindow(t) PROVE TypeInv'
  <2>1. CreateMessage(FreshId, label[t]) \in Message
    BY Zenon, <1>a, <1>c, <1>3, Messages DEF BuildersInv, CreateWindow, TakeId, FreshId
  <2>2. queue' \in Seq(Message)
    BY Zenon, <1>a, <1>3, <2>1, Appended DEF TypeOK, CreateWindow, Send
  <2>3. TypeOK'
    BY Zenon, <1>a, <1>c, <1>3, <2>2 DEF TypeOK, CreateWindow, TakeId, FreshId, Goto, tables, history
  <2>4. BuildersInv'
    BY Zenon, <1>a, <1>c, <1>3 DEF TypeOK, BuildersInv, CreateWindow, TakeId, FreshId, Goto, After
  <2> QED
    BY Zenon, <2>3, <2>4 DEF TypeInv
<1>4. ASSUME NEW t \in Threads, AddListener(t) PROVE TypeInv'
  <2>0. id[t] \in Ids
    BY Zenon, <1>a, <1>4 DEF BuildersInv, AddListener, After
  <2>m. ListenMessage(id[t], "window") \in Message /\ ListenMessage(id[t], "webview") \in Message
    BY Zenon, <2>0, Messages DEF Kinds
  <2>1. queue' \in Seq(Message)
    <3>1. PICK m \in Message : queue' = Append(queue, m)
      BY Zenon, <1>4, <2>m DEF AddListener, Send
    <3> QED
      BY Zenon, <1>a, <3>1, Appended DEF TypeOK
  <2>2. TypeOK'
    BY Zenon, <1>a, <1>4, <2>1 DEF TypeOK, AddListener, Goto, tables, history
  <2>3. BuildersInv'
    BY ZenonT(30), <1>a, <1>4 DEF TypeOK, BuildersInv, AddListener, Goto, After
  <2> QED
    BY Zenon, <2>2, <2>3 DEF TypeInv
<1>5. ASSUME NEW t \in Threads, InsertWindow(t) \/ InsertWebview(t) PROVE TypeInv'
  <2>1. id[t] \in Ids /\ label[t] \in Labels
    BY Zenon, <1>a, <1>5 DEF BuildersInv, InsertWindow, InsertWebview, After
  <2>2. BuildersInv'
    BY <1>a, <1>5 DEF TypeOK, BuildersInv, InsertWindow, InsertWebview, Goto, After
  <2>3. (attached \in SUBSET (Kinds \X Ids) /\ late \in SUBSET (Kinds \X Ids))'
    BY <1>a, <1>5, <2>1 DEF TypeOK, InsertWindow, InsertWebview, Attach, Kinds
  <2>4. TypeOK'
    BY ZenonT(30), <1>a, <1>5, <2>1, <2>3 DEF TypeOK, InsertWindow, InsertWebview, Goto, runtime
  <2> QED
    BY Zenon, <2>2, <2>4 DEF TypeInv
<1>6. ASSUME NEW t \in Threads, FirstWebview(t) PROVE TypeInv'
  BY Zenon, <1>a, <1>6 DEF TypeInv, TypeOK, BuildersInv, FirstWebview, Goto, Leave, tables,
     runtime, history, After
<1>7. ASSUME NEW m \in Ask, AskWindow(m) PROVE TypeInv'
  <2>1. queue' \in Seq(Message)
    BY Zenon, <1>a, <1>7, Messages, Appended DEF TypeOK, AskWindow, Send
  <2> QED
    BY <1>a, <1>7, <2>1 DEF TypeInv, TypeOK, BuildersInv, AskWindow, tables, local
<1>8. ASSUME Exit PROVE TypeInv'
  <2>1. queue' \in Seq(Message)
    BY Zenon, <1>a, <1>8, Messages, Appended DEF TypeOK, Exit, Send
  <2> QED
    BY <1>a, <1>8, <2>1 DEF TypeInv, TypeOK, BuildersInv, Exit, tables, local
<1>9. ASSUME NEW l \in MainLabels, BuildOnMain(l) PROVE TypeInv'
  <2>1. FreshId \in Ids /\ l \in Labels /\ next_window_id' \in 0 .. MaxWindows
    BY Zenon, <1>c, <1>9 DEF BuildOnMain, TakeId, FreshId
  <2>2. queue' \in Seq(Message)
    BY <1>a, <1>9, <2>1, Messages, Appended, AppendedTwo DEF TypeOK, BuildOnMain, Kinds
  <2>3. store' \in SUBSET Wrapper /\ failed' \in SUBSET Ids
    BY <1>a, <1>9, <2>1, NewWrapper DEF TypeOK, BuildOnMain
  <2>4. attached' \in SUBSET (Kinds \X Ids)
    BY <1>a, <1>9, <2>1 DEF TypeOK, BuildOnMain
  <2>5. (windows \in [Labels -> Ids \cup {NoWindow}] /\ webviews \in [Labels -> Ids \cup {NoWindow}])'
    BY Zenon, <1>a, <1>9, <2>1 DEF TypeOK, BuildOnMain
  <2>6. UNCHANGED <<native, main, dying, control, pc, label, id, requests, closed, late, prevented>>
    BY Zenon, <1>9 DEF BuildOnMain, local
  <2>7. TypeOK'
    BY Zenon, <1>a, <2>1, <2>2, <2>3, <2>4, <2>5, <2>6 DEF TypeOK
  <2>8. BuildersInv'
    BY Zenon, <1>a, <2>6 DEF BuildersInv
  <2> QED
    BY Zenon, <2>7, <2>8 DEF TypeInv
<1>10. ASSUME HandleMessage PROVE TypeInv'
  <2>1. queue' \in Seq(Message) /\ Head(queue) \in Message
    BY ZenonT(60), <1>a, <1>10, Taken DEF TypeOK, HandleMessage, HandleCreate, HandleListen, HandleClose,
       HandleDestroy, HandleRequestExit, Receive
  <2>2. store' \in SUBSET Wrapper /\ failed' \in SUBSET Ids
    <3>1. CASE HandleCreate
      <4>1. Head(queue).id \in Ids /\ Head(queue).label \in Labels
        BY Zenon, <2>1, <3>1, MessageKinds DEF HandleCreate, Receive
      <4> QED
        BY <1>a, <3>1, <4>1, NewWrapper DEF TypeOK, HandleCreate
    <3>2. CASE HandleListen
      <4>1. Head(queue).to \in Kinds
        BY Zenon, <2>1, <3>2, MessageKinds DEF HandleListen, Receive
      <4>2. ASSUME NEW w \in store
            PROVE  [w EXCEPT !.listeners = @ \cup {Head(queue).to}] \in Wrapper
        BY <1>a, <4>1, <4>2 DEF TypeOK, Wrapper
      <4> QED
        BY <1>a, <3>2, <4>2 DEF TypeOK, HandleListen, history
    <3>3. ASSUME NEW w \in store PROVE [w EXCEPT !.inner = FALSE] \in Wrapper
      BY Zenon, <1>a, <3>3, ClosedWrapper DEF TypeOK
    <3>4. CASE HandleClose \/ HandleDestroy \/ HandleRequestExit
      BY <1>a, <3>3, <3>4 DEF TypeOK, HandleClose, HandleDestroy, HandleRequestExit,
         OnCloseRequested, OnWindowClose, history
    <3> QED
      BY Zenon, <1>10, <3>1, <3>2, <3>4 DEF HandleMessage
  <2>3. native' \in SUBSET Ids
    BY <1>a, <1>10 DEF TypeOK, Wrapper, HandleMessage, HandleCreate, HandleListen, HandleClose,
       HandleDestroy, HandleRequestExit, OnCloseRequested, OnWindowClose
  <2>4. /\ UNCHANGED <<windows, webviews, next_window_id, dying, control, pc, label, id>>
        /\ UNCHANGED <<requests, attached, closed, late, prevented>>
        /\ main' \in {main, "exit_requested"}
    BY Zenon, <1>10 DEF HandleMessage, HandleCreate, HandleListen, HandleClose, HandleDestroy,
       HandleRequestExit, tables, local, history
  <2>5. TypeOK'
    BY Zenon, <1>a, <2>1, <2>2, <2>3, <2>4 DEF TypeOK
  <2>6. BuildersInv'
    BY Zenon, <1>a, <2>4 DEF BuildersInv
  <2> QED
    BY Zenon, <2>5, <2>6 DEF TypeInv
<1>11. ASSUME NEW w \in store, UserCloses(w) PROVE TypeInv'
  <2>1. store' \in SUBSET Wrapper
    <3>1. ASSUME NEW v \in store PROVE [v EXCEPT !.inner = FALSE] \in Wrapper
      BY Zenon, <1>a, <3>1, ClosedWrapper DEF TypeOK
    <3> QED
      BY <1>a, <1>11, <3>1 DEF TypeOK, UserCloses, OnCloseRequested, OnWindowClose
  <2>2. native' \in SUBSET Ids
    BY <1>a, <1>11 DEF TypeOK, Wrapper, UserCloses, OnCloseRequested, OnWindowClose
  <2> QED
    BY Zenon, <1>a, <1>11, <2>1, <2>2 DEF TypeInv, TypeOK, BuildersInv, UserCloses, tables, local, history
<1>12. ASSUME NEW w \in store, Destroyed(w) PROVE TypeInv'
  <2>1. w.id \in Ids /\ w.label \in Labels
    BY Zenon, <1>a DEF TypeOK, Wrapper
  <2>2. TypeOK'
    BY Zenon, <1>a, <1>12, <2>1 DEF TypeOK, Destroyed, ForgetWindow, local
  <2>3. BuildersInv'
    BY Zenon, <1>a, <1>12 DEF BuildersInv, Destroyed, local
  <2> QED
    BY Zenon, <2>2, <2>3 DEF TypeInv
<1>13. ASSUME MainStep PROVE TypeInv'
  <2>1. BuildersInv'
    BY Zenon, <1>a, <1>13 DEF BuildersInv, MainStep, RemoveWindow, ExitRequested, LoopDestroyed, local
  <2>2. TypeOK'
    BY Zenon, <1>a, <1>13 DEF TypeOK, MainStep, RemoveWindow, ExitRequested, LoopDestroyed, tables,
       local, history
  <2> QED
    BY Zenon, <2>1, <2>2 DEF TypeInv
<1>14. ASSUME UNCHANGED vars PROVE TypeInv'
  BY Zenon, <1>a, <1>14 DEF TypeInv, TypeOK, BuildersInv, vars, tables, runtime, local, history
<1> QED
  BY Zenon, <1>1, <1>2, <1>3, <1>4, <1>5, <1>6, <1>7, <1>8, <1>9, <1>10, <1>11, <1>12, <1>13, <1>14
     DEF Next, Build

\* The initial state of the managers and of the event loop has the right types.
LEMMA InitTypeInv == Init => TypeInv
<1> SUFFICES ASSUME Init PROVE TypeOK /\ BuildersInv
  BY Zenon DEF TypeInv
<1> USE LifecycleAssumption
<1>1. prevented \in BOOLEAN
  BY Zenon DEF Init
<1>2. TypeOK
  BY <1>1 DEF Init, TypeOK
<1>3. BuildersInv
  BY Zenon DEF Init, BuildersInv, After
<1> QED
  BY Zenon, <1>2, <1>3

\* The tables, the store, the queue and the builders have their types, for any
\* number of threads, labels, windows and requests.
THEOREM TypeCorrect == Spec => []TypeOK
<1>1. TypeInv => TypeOK
  BY Zenon DEF TypeInv
<1> QED
  BY <1>1, InitTypeInv, TypeStep, PTL DEF Spec

-----------------------------------------------------------------------------
(* The runtime: ids, the store and the window system *)

\* A message that is not about a new window creates none.
LEMMA SendOther ==
  ASSUME TypeOK, NEW m \in Message, queue' = Append(queue, m), m.kind # "create"
  PROVE  \A p \in DOMAIN queue', i \in Ids :
           Creates(p, i)' => p \in DOMAIN queue /\ Creates(p, i)
<1>1. queue \in Seq(Message)
  BY Zenon DEF TypeOK
<1> QED
  BY <1>1, Appended DEF Creates

\* Taking a message leaves the others, one place nearer.
LEMMA ReceiveOther ==
  ASSUME TypeOK, queue # <<>>, queue' = Tail(queue)
  PROVE  \A p \in DOMAIN queue' :
           /\ p + 1 \in DOMAIN queue /\ p \in Nat \ {0}
           /\ queue'[p] = queue[p + 1]
           /\ \A i \in Ids : Creates(p, i)' <=> Creates(p + 1, i)
<1>1. queue \in Seq(Message)
  BY Zenon DEF TypeOK
<1> QED
  BY <1>1, Taken DEF Creates

\* Ids stay fresh, and the window system reports a window once, whatever the event
\* loop and the builders do.
LEMMA RuntimeStep == TypeInv /\ RuntimeInv /\ [Next]_vars => RuntimeInv'
<1> SUFFICES ASSUME TypeInv, RuntimeInv, [Next]_vars PROVE RuntimeInv'
  BY Zenon
<1> USE LifecycleAssumption
<1>a. TypeOK /\ BuildersInv /\ FreshInv /\ NativeInv
  BY Zenon DEF TypeInv, RuntimeInv
<1>b. Ids \subseteq Nat /\ next_window_id \in Nat
  BY <1>a DEF TypeOK, Ids
<1>c. \A w \in store : w \in Wrapper /\ w.id \in Ids /\ w.label \in Labels
  BY Zenon, <1>a DEF TypeOK, Wrapper
<1>d. FreshId \in Nat /\ (\A w \in store : w.id \in Nat) /\ (\A i \in closed : i \in Nat)
  BY Zenon, <1>a, <1>b, <1>c DEF TypeOK, FreshId
<1>s. ASSUME UNCHANGED <<store, queue, native, next_window_id, main, dying, closed>>
      PROVE  RuntimeInv'
  BY Zenon, <1>a, <1>s DEF RuntimeInv, FreshInv, NativeInv, Creates, Stored
<1>q. ASSUME NEW m \in Message, queue' = Append(queue, m), m.kind # "create",
             UNCHANGED <<store, native, next_window_id, main, dying, closed>>
      PROVE  RuntimeInv'
  <2>1. NativeInv'
    BY Zenon, <1>a, <1>q DEF NativeInv, Stored
  <2>2. FreshInv'
    BY Zenon, <1>a, <1>q, SendOther DEF FreshInv, Stored
  <2> QED
    BY Zenon, <2>1, <2>2 DEF RuntimeInv
<1>1. ASSUME NEW t \in Threads, Build(t) PROVE RuntimeInv'
  <2>1. CASE CreateWindow(t)
    <3>1. /\ FreshId \in Ids /\ label[t] \in Labels /\ next_window_id' = FreshId + 1
          /\ CreateMessage(FreshId, label[t]) \in Message
          /\ queue' = Append(queue, CreateMessage(FreshId, label[t]))
      BY <1>a, <2>1, Messages
         DEF TypeOK, BuildersInv, CreateWindow, TakeId, FreshId, Send, Ids
    <3>2. UNCHANGED <<store, native, main, dying, closed>>
      BY Zenon, <2>1 DEF CreateWindow, history
    <3>3. NativeInv'
      BY Zenon, <1>a, <3>2 DEF NativeInv, Stored
    <3>4. ASSUME NEW p \in DOMAIN queue', NEW i \in Ids, Creates(p, i)'
          PROVE  (p \in DOMAIN queue /\ Creates(p, i)) \/ (p = Len(queue) + 1 /\ i = FreshId)
      BY <1>a, <3>1, <3>4, Appended DEF TypeOK, Creates, CreateMessage
    <3>5. \A i \in closed : i < FreshId
      BY Zenon, <1>a DEF FreshInv, FreshId
    <3>6. \A w \in store : w.id < FreshId
      BY Zenon, <1>a DEF FreshInv, FreshId
    <3>7. \A p \in DOMAIN queue, i \in Ids : Creates(p, i) => i < FreshId
      BY Zenon, <1>a DEF FreshInv, FreshId
    <3>8. FreshId \notin closed /\ ~Stored(FreshId)
      BY <1>b, <3>5, <3>6 DEF Stored, FreshId
    <3>9. ASSUME NEW p \in DOMAIN queue', NEW i \in Ids, Creates(p, i)'
          PROVE  /\ i < next_window_id' /\ ~Stored(i)' /\ i \notin closed'
                 /\ \A q \in DOMAIN queue' : Creates(q, i)' => q = p
      BY <1>a, <1>b, <3>1, <3>2, <3>4, <3>7, <3>8, <3>9 DEF FreshInv, FreshId, Stored
    <3>10. /\ \A w \in store' : w.id < next_window_id'
           /\ \A i \in closed' : i < next_window_id'
      BY <1>d, <3>1, <3>2, <3>5, <3>6
    <3>11. FreshInv'
      BY Zenon, <1>a, <3>2, <3>9, <3>10 DEF FreshInv
    <3> QED
      BY Zenon, <3>3, <3>11 DEF RuntimeInv
  <2>2. CASE AddListener(t)
    <3>1. PICK k \in Kinds : queue' = Append(queue, ListenMessage(id[t], k))
      BY Zenon, <2>2 DEF AddListener, Send, Kinds
    <3>2. ListenMessage(id[t], k) \in Message /\ ListenMessage(id[t], k).kind # "create"
      BY Zenon, <1>a, <2>2, Messages DEF BuildersInv, AddListener, After, ListenMessage
    <3>3. UNCHANGED <<store, native, next_window_id, main, dying, closed>>
      BY Zenon, <2>2 DEF AddListener, history
    <3> QED
      BY Zenon, <1>q, <3>1, <3>2, <3>3
  <2>3. CASE PrepareWebview(t) \/ PrepareWindow(t) \/ InsertWindow(t) \/ InsertWebview(t)
             \/ FirstWebview(t)
    BY Zenon, <1>s, <2>3 DEF PrepareWebview, PrepareWindow, InsertWindow, InsertWebview,
       FirstWebview, runtime, history
  <2> QED
    BY Zenon, <1>1, <2>1, <2>2, <2>3 DEF Build
<1>2. ASSUME NEW m \in Ask, AskWindow(m) PROVE RuntimeInv'
  <2>1. m \in Message /\ m.kind # "create"
    BY Zenon, Messages DEF Ask
  <2> QED
    BY Zenon, <1>2, <1>q, <2>1 DEF AskWindow, Send
<1>3. ASSUME Exit PROVE RuntimeInv'
  <2>1. [kind |-> "exit"] \in Message /\ [kind |-> "exit"].kind # "create"
    BY Zenon, Messages
  <2> QED
    BY Zenon, <1>3, <1>q, <2>1 DEF Exit, Send
<1>4. ASSUME NEW l \in MainLabels, BuildOnMain(l) PROVE RuntimeInv'
  <2> DEFINE n == [id |-> FreshId, label |-> l, inner |-> TRUE, listeners |-> {}]
  <2>1. FreshId \in Ids /\ next_window_id' = FreshId + 1
    BY <1>a, <1>4 DEF TypeOK, BuildOnMain, TakeId, FreshId, Ids
  <2>2. store' \in {store, store \cup {n}} /\ UNCHANGED <<native, main, dying, closed>>
    BY Zenon, <1>4 DEF BuildOnMain
  <2>3. \A p \in DOMAIN queue', i \in Ids : Creates(p, i)' => p \in DOMAIN queue /\ Creates(p, i)
    <3>1. /\ ListenMessage(FreshId, "window") \in Message
          /\ ListenMessage(FreshId, "webview") \in Message
      BY Zenon, <2>1, Messages DEF Kinds
    <3>2. queue' = Append(Append(queue, ListenMessage(FreshId, "window")),
                          ListenMessage(FreshId, "webview"))
      BY <1>a, <1>4, <3>1, AppendedTwo DEF TypeOK, BuildOnMain
    <3> QED
      BY <1>a, <3>1, <3>2, Appended DEF TypeOK, Creates, ListenMessage
  <2>4. /\ \A w \in store : w.id < FreshId
        /\ \A i \in closed : i < FreshId
        /\ \A p \in DOMAIN queue, i \in Ids : Creates(p, i) => i < FreshId
    BY Zenon, <1>a DEF FreshInv, FreshId
  <2>5. \A i \in native : i < FreshId
    BY Zenon, <1>a, <2>4 DEF NativeInv, Stored
  <2>6. n.id = FreshId /\ FreshId \notin native \cup closed
    BY <1>b, <2>1, <2>4, <2>5
  <2> HIDE DEF n
  <2>7. NativeInv'
    BY Zenon, <1>a, <2>2, <2>6 DEF NativeInv, Stored
  <2>8. \A i \in Ids : Stored(i)' => Stored(i) \/ i = FreshId
    BY Zenon, <2>2, <2>6 DEF Stored
  <2>9. \A w \in store' : w.id < next_window_id'
    <3>1. \A w \in store' : w \in store \/ w.id = FreshId
      BY Zenon, <2>2, <2>6
    <3> QED
      BY <1>d, <2>1, <2>4, <3>1
  <2>10. \A v, w \in store' : v.id = w.id => v = w
    BY <1>a, <1>b, <1>c, <2>2, <2>4, <2>6 DEF FreshInv, FreshId
  <2>11. \A i \in closed' : i < next_window_id'
    BY <1>a, <1>b, <2>1, <2>2, <2>4 DEF TypeOK
  <2>12. ASSUME NEW p \in DOMAIN queue', NEW i \in Ids, Creates(p, i)'
         PROVE  /\ i < next_window_id' /\ ~Stored(i)' /\ i \notin closed'
                /\ \A q \in DOMAIN queue' : Creates(q, i)' => q = p
    <3>1. p \in DOMAIN queue /\ Creates(p, i) /\ i < FreshId
      BY Zenon, <2>3, <2>4, <2>12
    <3> QED
      BY <1>a, <1>b, <2>1, <2>2, <2>3, <2>8, <3>1 DEF FreshInv
  <2>13. FreshInv'
    BY Zenon, <2>9, <2>10, <2>11, <2>12 DEF FreshInv
  <2> QED
    BY Zenon, <2>7, <2>13 DEF RuntimeInv
<1>5. ASSUME HandleCreate PROVE RuntimeInv'
  <2> DEFINE m == Head(queue)
             n == [id |-> m.id, label |-> m.label, inner |-> TRUE, listeners |-> {}]
  <2>1. /\ queue # <<>> /\ queue' = Tail(queue) /\ m.kind = "create"
        /\ store' \in {store, store \cup {n}}
        /\ UNCHANGED <<native, next_window_id, main, dying, closed>>
    BY Zenon, <1>5 DEF HandleCreate, Receive
  <2>2. 1 \in DOMAIN queue /\ queue[1] = m /\ m \in Message
    BY <1>a, <2>1, Taken DEF TypeOK
  <2>3. m.id \in Ids /\ Creates(1, m.id)
    BY Zenon, <2>1, <2>2, MessageKinds DEF Creates
  <2>4. /\ m.id < next_window_id /\ ~Stored(m.id) /\ m.id \notin closed
        /\ \A q \in DOMAIN queue : Creates(q, m.id) => q = 1
    BY Zenon, <1>a, <2>2, <2>3 DEF FreshInv
  <2>5. m.id \notin native
    BY Zenon, <1>a, <2>4 DEF NativeInv
  <2>6. n.id = m.id
    BY Zenon
  <2> HIDE DEF n, m
  <2>7. NativeInv'
    BY Zenon, <1>a, <2>1, <2>4, <2>5, <2>6 DEF NativeInv, Stored
  <2>8. /\ \A w \in store' : w.id < next_window_id'
        /\ \A v, w \in store' : v.id = w.id => v = w
    BY Zenon, <1>a, <2>1, <2>4, <2>6 DEF FreshInv, Stored
  <2>9. ASSUME NEW p \in DOMAIN queue', NEW i \in Ids, Creates(p, i)'
        PROVE  /\ i < next_window_id' /\ ~Stored(i)' /\ i \notin closed'
               /\ \A q \in DOMAIN queue' : Creates(q, i)' => q = p
    <3>1. p + 1 \in DOMAIN queue /\ Creates(p + 1, i) /\ p + 1 # 1 /\ p \in Nat
      BY <1>a, <2>1, <2>9, ReceiveOther
    <3>2. i # m.id
      BY Zenon, <2>4, <3>1
    <3>3. ~Stored(i)'
      BY Zenon, <1>a, <2>1, <2>6, <3>1, <3>2 DEF FreshInv, Stored
    <3>4. ASSUME NEW q \in DOMAIN queue', Creates(q, i)' PROVE q = p
      <4>1. q + 1 \in DOMAIN queue /\ Creates(q + 1, i) /\ q \in Nat
        BY Zenon, <1>a, <2>1, <3>4, ReceiveOther
      <4>2. q + 1 = p + 1
        BY Zenon, <1>a, <3>1, <4>1 DEF FreshInv
      <4> QED
        BY <3>1, <4>1, <4>2
    <3> QED
      BY Zenon, <1>a, <2>1, <3>1, <3>3, <3>4 DEF FreshInv
  <2>10. FreshInv'
    BY Zenon, <1>a, <2>1, <2>8, <2>9 DEF FreshInv
  <2> QED
    BY Zenon, <2>7, <2>10 DEF RuntimeInv
<1>r. ASSUME queue # <<>>, queue' = Tail(queue), UNCHANGED <<next_window_id, closed>>,
             \A i \in Ids : Stored(i)' => Stored(i)
      PROVE  /\ \A p \in DOMAIN queue', i \in Ids : Creates(p, i)' =>
                  /\ i < next_window_id' /\ ~Stored(i)' /\ i \notin closed'
                  /\ \A q \in DOMAIN queue' : Creates(q, i)' => q = p
             /\ \A i \in closed' : i < next_window_id'
  <2>1. SUFFICES ASSUME NEW p \in DOMAIN queue', NEW i \in Ids, Creates(p, i)'
                PROVE  /\ i < next_window_id' /\ ~Stored(i)' /\ i \notin closed'
                       /\ \A q \in DOMAIN queue' : Creates(q, i)' => q = p
    BY Zenon, <1>a, <1>r DEF FreshInv
  <2>2. p + 1 \in DOMAIN queue /\ Creates(p + 1, i) /\ p \in Nat
    BY Zenon, <1>a, <1>r, <2>1, ReceiveOther
  <2>3. ASSUME NEW q \in DOMAIN queue', Creates(q, i)' PROVE q = p
    <3>1. q + 1 \in DOMAIN queue /\ Creates(q + 1, i) /\ q \in Nat
      BY Zenon, <1>a, <1>r, <2>3, ReceiveOther
    <3>2. q + 1 = p + 1
      BY Zenon, <1>a, <2>2, <3>1 DEF FreshInv
    <3> QED
      BY <2>2, <3>1, <3>2
  <2> QED
    BY Zenon, <1>a, <1>r, <2>2, <2>3 DEF FreshInv
<1>6. ASSUME HandleListen PROVE RuntimeInv'
  <2> DEFINE new(w) == IF w.id = Head(queue).id /\ w.inner
                         THEN [w EXCEPT !.listeners = @ \cup {Head(queue).to}] ELSE w
  <2>1. /\ queue # <<>> /\ queue' = Tail(queue) /\ store' = {new(w) : w \in store}
        /\ UNCHANGED <<native, next_window_id, main, dying, closed>>
    BY Zenon, <1>6 DEF HandleListen, Receive, history
  <2>2. \A w \in store : new(w).id = w.id /\ (new(w).inner <=> w.inner)
    BY Zenon, <1>c DEF Wrapper
  <2> HIDE DEF new
  <2>3. \A i : Stored(i)' <=> Stored(i)
    BY Zenon, <2>1, <2>2 DEF Stored
  <2>4. NativeInv'
    BY <1>a, <2>1, <2>2, <2>3 DEF NativeInv
  <2>5. /\ \A w \in store' : w.id < next_window_id'
        /\ \A v, w \in store' : v.id = w.id => v = w
    BY <1>a, <2>1, <2>2 DEF FreshInv
  <2>6. FreshInv'
    BY Zenon, <1>r, <2>1, <2>3, <2>5 DEF FreshInv
  <2> QED
    BY Zenon, <2>4, <2>6 DEF RuntimeInv
<1>w. ASSUME NEW i, OnWindowClose(i) \/ UNCHANGED <<store, native>>,
             UNCHANGED <<next_window_id, main, dying, closed>>
      PROVE  /\ NativeInv'
             /\ \A j \in Ids : Stored(j)' <=> Stored(j)
             /\ \A w \in store' : w.id < next_window_id'
             /\ \A v, w \in store' : v.id = w.id => v = w
  <2>1. CASE UNCHANGED <<store, native>>
    BY Zenon, <1>a, <1>w, <2>1 DEF NativeInv, FreshInv, Stored
  <2>2. CASE OnWindowClose(i)
    <3> DEFINE new(w) == IF w.id = i THEN [w EXCEPT !.inner = FALSE] ELSE w
    <3>1. /\ store' = {new(w) : w \in store}
          /\ native' = native \cup {w.id : w \in {v \in store : v.id = i /\ v.inner}}
      BY Zenon, <2>2 DEF OnWindowClose
    <3>2. \A w \in store : new(w).id = w.id /\ (new(w).inner <=> w.inner /\ w.id # i)
      BY Zenon, <1>c DEF Wrapper
    <3> HIDE DEF new
    <3>3. \A j : Stored(j)' <=> Stored(j)
      BY Zenon, <3>1, <3>2 DEF Stored
    <3>4. \A j \in native' : j \in native \/ (j = i /\ \E v \in store : v.id = i /\ v.inner)
      BY Zenon, <3>1
    <3>5. NativeInv'
      BY <1>a, <1>w, <3>1, <3>2, <3>3, <3>4 DEF NativeInv, Stored
    <3>6. /\ \A w \in store' : w.id < next_window_id'
          /\ \A v, w \in store' : v.id = w.id => v = w
      BY <1>a, <1>w, <3>1, <3>2 DEF FreshInv
    <3> QED
      BY Zenon, <3>3, <3>5, <3>6
  <2> QED
    BY Zenon, <1>w, <2>1, <2>2
<1>7. ASSUME HandleClose \/ HandleDestroy PROVE RuntimeInv'
  <2>1. /\ queue # <<>> /\ queue' = Tail(queue)
        /\ UNCHANGED <<next_window_id, main, dying, closed>>
    BY Zenon, <1>7 DEF HandleClose, HandleDestroy, Receive, history
  <2>2. OnWindowClose(Head(queue).id) \/ UNCHANGED <<store, native>>
    BY Zenon, <1>7 DEF HandleClose, HandleDestroy, OnCloseRequested
  <2>3. FreshInv' /\ NativeInv'
    BY Zenon, <1>r, <1>w, <2>1, <2>2 DEF FreshInv
  <2> QED
    BY Zenon, <2>3 DEF RuntimeInv
<1>8. ASSUME HandleRequestExit PROVE RuntimeInv'
  <2>1. /\ queue # <<>> /\ queue' = Tail(queue) /\ main' = "exit_requested"
        /\ UNCHANGED <<store, native, next_window_id, closed>>
    BY Zenon, <1>8 DEF HandleRequestExit, Receive, history
  <2>2. NativeInv'
    BY Zenon, <1>a, <2>1 DEF NativeInv, Stored
  <2>3. FreshInv'
    BY Zenon, <1>a, <1>r, <2>1 DEF FreshInv, Stored
  <2> QED
    BY Zenon, <2>2, <2>3 DEF RuntimeInv
<1>9. ASSUME NEW w \in store, UserCloses(w) PROVE RuntimeInv'
  <2>1. /\ UNCHANGED <<queue, next_window_id, main, dying, closed>>
        /\ OnWindowClose(w.id) \/ UNCHANGED <<store, native>>
    BY Zenon, <1>9 DEF UserCloses, OnCloseRequested, history
  <2>2. FreshInv' /\ NativeInv'
    BY <1>a, <1>w, <2>1 DEF FreshInv, Creates
  <2> QED
    BY Zenon, <2>2 DEF RuntimeInv
<1>10. ASSUME NEW w \in store, Destroyed(w) PROVE RuntimeInv'
  <2>1. /\ w.id \in native /\ native' = native \ {w.id} /\ dying' = w.id
        /\ closed' = closed \cup {w.id} /\ UNCHANGED <<store, queue, next_window_id>>
    BY Zenon, <1>10 DEF Destroyed
  <2>2. NativeInv'
    BY Zenon, <1>a, <2>1 DEF NativeInv, Stored
  <2>3. \A p \in DOMAIN queue : ~Creates(p, w.id)
    BY Zenon, <1>a, <1>c DEF FreshInv, Stored
  <2>4. FreshInv'
    BY <1>a, <1>c, <2>1, <2>3 DEF FreshInv, Stored, Creates
  <2> QED
    BY Zenon, <2>2, <2>4 DEF RuntimeInv
<1>11. ASSUME MainStep PROVE RuntimeInv'
  <2>1. CASE RemoveWindow
    <3>1. /\ store' = {w \in store : w.id # dying} /\ dying \in closed
          /\ main' # "destroyed" /\ UNCHANGED <<queue, native, next_window_id, closed>>
      BY Zenon, <1>a, <2>1 DEF RemoveWindow, history, NativeInv
    <3>2. NativeInv'
      BY Zenon, <1>a, <3>1 DEF NativeInv, Stored
    <3>3. FreshInv'
      BY ZenonT(30), <1>a, <3>1 DEF FreshInv, Stored, Creates
    <3> QED
      BY Zenon, <3>2, <3>3 DEF RuntimeInv
  <2>2. CASE ExitRequested \/ LoopDestroyed
    <3>1. main' # "destroyed" /\ UNCHANGED <<store, queue, native, next_window_id, closed>>
      BY Zenon, <2>2 DEF ExitRequested, LoopDestroyed, history
    <3> QED
      BY Zenon, <1>a, <3>1 DEF RuntimeInv, FreshInv, NativeInv, Stored, Creates
  <2> QED
    BY Zenon, <1>11, <2>1, <2>2 DEF MainStep
<1>12. ASSUME UNCHANGED vars PROVE RuntimeInv'
  BY Zenon, <1>s, <1>12 DEF vars, runtime, history
<1> QED
  BY Zenon, <1>1, <1>2, <1>3, <1>4, <1>5, <1>6, <1>7, <1>8, <1>9, <1>10, <1>11, <1>12
     DEF Next, HandleMessage

\* The initial state of the event loop satisfies the runtime's invariants.
LEMMA InitRuntimeInv == Init => RuntimeInv
BY DEF Init, RuntimeInv, FreshInv, NativeInv

-----------------------------------------------------------------------------
(* Windows that live *)

\* A window that lives has one label.
LEMMA OneLabel ==
  ASSUME TypeOK, FreshInv, NEW i \in Ids, NEW l \in Labels, NEW m \in Labels,
         Living(i, l), Living(i, m)
  PROVE  l = m
<1>1. ASSUME NEW n \in Labels, Queued(CreateMessage(i, n))
      PROVE  \E p \in DOMAIN queue : Creates(p, i) /\ queue[p] = CreateMessage(i, n)
  BY <1>1 DEF Queued, Creates, CreateMessage
<1>2. ASSUME Queued(CreateMessage(i, l)), Queued(CreateMessage(i, m)) PROVE l = m
  <2>1. CreateMessage(i, l) = CreateMessage(i, m)
    BY Zenon, <1>1, <1>2 DEF FreshInv
  <2> QED
    BY Zenon, <2>1 DEF CreateMessage
<1>3. ASSUME NEW n \in Labels, Queued(CreateMessage(i, n)) PROVE ~Stored(i)
  BY Zenon, <1>1, <1>3 DEF FreshInv
<1> QED
  BY Zenon, <1>2, <1>3 DEF FreshInv, Living, Stored

\* Sending any other message creates and destroys nothing.
LEMMA LivingSend ==
  ASSUME TypeOK, NEW m \in Message, queue' = Append(queue, m), m.kind # "create",
         UNCHANGED <<store, closed>>
  PROVE  \A i, l : Living(i, l)' <=> Living(i, l)
<1>1. queue \in Seq(Message)
  BY Zenon DEF TypeOK
<1>2. ASSUME NEW i, NEW l
      PROVE  Queued(CreateMessage(i, l))' <=> Queued(CreateMessage(i, l))
  <2>1. CreateMessage(i, l) # m
    BY DEF CreateMessage
  <2>2. \A p \in DOMAIN queue : p \in DOMAIN queue' /\ queue'[p] = queue[p]
    BY <1>1, Appended
  <2>3. \A p \in DOMAIN queue' : p \in DOMAIN queue \/ queue'[p] = m
    BY <1>1, Appended
  <2> QED
    BY Zenon, <2>1, <2>2, <2>3 DEF Queued, CreateMessage
<1> QED
  BY Zenon, <1>2 DEF Living

\* A message leaves the queue, and only that one.
LEMMA QueuedReceive ==
  ASSUME TypeOK, queue # <<>>, queue' = Tail(queue), NEW i, NEW l
  PROVE  /\ Queued(CreateMessage(i, l))' => Queued(CreateMessage(i, l))
         /\ Queued(CreateMessage(i, l)) =>
              Queued(CreateMessage(i, l))' \/ Head(queue) = CreateMessage(i, l)
<1>1. queue \in Seq(Message)
  BY Zenon DEF TypeOK
<1>2. \A p \in DOMAIN queue' : p + 1 \in DOMAIN queue /\ queue'[p] = queue[p + 1]
  BY <1>1, Taken
<1>3. \A p \in DOMAIN queue : queue[p] = Head(queue)
        \/ (p - 1 \in DOMAIN queue' /\ queue'[p - 1] = queue[p])
  BY <1>1, Taken
<1> QED
  BY <1>2, <1>3 DEF Queued, CreateMessage

\* Whatever the event loop does to the store, short of creating a window or being
\* told that one is destroyed, the same windows live.
LEMMA LivingKept ==
  ASSUME TypeOK, NativeInv, UNCHANGED closed,
         \/ HandleListen \/ HandleClose \/ HandleDestroy \/ HandleRequestExit
         \/ MainStep
         \/ \E w \in store : UserCloses(w)
  PROVE  \A i \in Ids, l \in Labels : Living(i, l)' <=> Living(i, l)
<1>1. ASSUME NEW i \in Ids, NEW l \in Labels
      PROVE  Queued(CreateMessage(i, l))' <=> Queued(CreateMessage(i, l))
  <2>1. CASE HandleListen \/ HandleClose \/ HandleDestroy \/ HandleRequestExit
    <3>1. queue # <<>> /\ queue' = Tail(queue) /\ Head(queue).kind # "create"
      BY Zenon, <2>1 DEF HandleListen, HandleClose, HandleDestroy, HandleRequestExit, Receive
    <3>2. Head(queue) # CreateMessage(i, l)
      BY <3>1 DEF CreateMessage
    <3> QED
      BY Zenon, <3>1, <3>2, QueuedReceive
  <2>2. CASE MainStep \/ \E w \in store : UserCloses(w)
    <3>1. UNCHANGED queue
      BY Zenon, <2>2 DEF MainStep, RemoveWindow, ExitRequested, LoopDestroyed, UserCloses
    <3> QED
      BY Zenon, <3>1 DEF Queued, CreateMessage
  <2> QED
    BY Zenon, <2>1, <2>2
<1>2. \A w \in store : w \in Wrapper
  BY Zenon DEF TypeOK
<1>c. ASSUME NEW j, OnWindowClose(j) \/ UNCHANGED <<store, native>>, NEW i, NEW l
      PROVE  (\E w \in store' : w.id = i /\ w.label = l) <=> (\E w \in store : w.id = i /\ w.label = l)
  <2> DEFINE new(w) == IF w.id = j THEN [w EXCEPT !.inner = FALSE] ELSE w
  <2>1. UNCHANGED store \/ store' = {new(w) : w \in store}
    BY Zenon, <1>c DEF OnWindowClose
  <2>2. \A w \in store : new(w).id = w.id /\ new(w).label = w.label
    BY Zenon, <1>2 DEF Wrapper
  <2> HIDE DEF new
  <2> QED
    BY <2>1, <2>2
<1>3. ASSUME NEW i \in Ids, NEW l \in Labels, i \notin closed
      PROVE  (\E w \in store' : w.id = i /\ w.label = l) <=> (\E w \in store : w.id = i /\ w.label = l)
  <2>1. CASE HandleListen
    <3> DEFINE new(w) == IF w.id = Head(queue).id /\ w.inner
                           THEN [w EXCEPT !.listeners = @ \cup {Head(queue).to}] ELSE w
    <3>1. store' = {new(w) : w \in store}
      BY Zenon, <2>1 DEF HandleListen
    <3>2. \A w \in store : new(w).id = w.id /\ new(w).label = w.label
      BY Zenon, <1>2 DEF Wrapper
    <3> HIDE DEF new
    <3> QED
      BY <3>1, <3>2
  <2>2. CASE HandleClose \/ HandleDestroy
    BY Zenon, <1>c, <2>2 DEF HandleClose, HandleDestroy, OnCloseRequested
  <2>3. CASE \E w \in store : UserCloses(w)
    BY <1>c, <2>3 DEF UserCloses, OnCloseRequested
  <2>4. CASE RemoveWindow
    BY Zenon, <1>3, <2>4 DEF RemoveWindow, NativeInv
  <2>5. CASE HandleRequestExit \/ ExitRequested \/ LoopDestroyed
    BY Zenon, <2>5 DEF HandleRequestExit, ExitRequested, LoopDestroyed
  <2> QED
    BY Zenon, <2>1, <2>2, <2>3, <2>4, <2>5 DEF MainStep
<1> QED
  BY <1>1, <1>3 DEF Living

-----------------------------------------------------------------------------
(* Events *)

\* The builder's place tells which tables its window is in, and a window has one
\* builder.
PlaceInv ==
  /\ \A i \in Ids, k \in Kinds : <<k, i>> \in attached => i < next_window_id
  /\ \A t \in Threads : pc[t] \in After =>
       /\ id[t] < next_window_id
       /\ <<"window", id[t]>> \in attached
            <=> pc[t] \in {"listen_webview", "insert_webview", "first"}
       /\ <<"webview", id[t]>> \in attached <=> pc[t] = "first"
       /\ \A u \in Threads : pc[u] \in After /\ id[u] = id[t] => u = t

\* Listener k of window i is installed wherever the window exists, or behind it in
\* the queue.
Heard(k, i) ==
  \/ Queued(ListenMessage(i, k))
  \/ /\ \A p \in DOMAIN queue : ~Creates(p, i)
     /\ \A w \in store : w.id = i /\ w.inner => k \in w.listeners

\* No listener is ahead of its window.
OrderInv ==
  /\ \A p, q \in DOMAIN queue, i \in Ids :
       queue[p].kind = "listen" /\ queue[p].id = i /\ Creates(q, i) => q < p
  /\ \A p \in DOMAIN queue : queue[p].kind = "listen" => queue[p].id < next_window_id

\* The listener of a table is sent before the entry is inserted.
HeardInv ==
  /\ \A i \in Ids, k \in Kinds : <<k, i>> \in attached => Heard(k, i)
  /\ \A t \in Threads, i \in Ids : id[t] = i =>
       /\ pc[t] = "insert_window" => Heard("window", i)
       /\ pc[t] = "insert_webview" => Heard("webview", i)

-----------------------------------------------------------------------------
(* Builders *)

\* A builder's place keeps telling which tables its window is in.
LEMMA PlaceStep == TypeInv /\ PlaceInv /\ [Next]_vars => PlaceInv'
<1> SUFFICES ASSUME TypeInv, PlaceInv, [Next]_vars PROVE PlaceInv'
  BY Zenon
<1> USE LifecycleAssumption
<1>a. TypeOK /\ BuildersInv
  BY Zenon DEF TypeInv
<1>b. Ids \subseteq Nat /\ next_window_id \in Nat
  BY <1>a DEF TypeOK, Ids
<1>s. ASSUME UNCHANGED <<pc, id, attached, next_window_id>> PROVE PlaceInv'
  BY Zenon, <1>s DEF PlaceInv
<1>1. ASSUME NEW t \in Threads, PrepareWebview(t) \/ PrepareWindow(t) \/ FirstWebview(t)
      PROVE PlaceInv'
  <2>1. /\ \A u \in Threads : u # t => pc'[u] = pc[u] /\ id'[u] = id[u]
        /\ pc'[t] \notin After
        /\ UNCHANGED <<attached, next_window_id>>
    BY <1>a, <1>1 DEF TypeOK, PrepareWebview, PrepareWindow, FirstWebview, Goto, Leave, After,
       runtime, history
  <2> QED
    BY Zenon, <2>1 DEF PlaceInv
<1>2. ASSUME NEW t \in Threads, CreateWindow(t) PROVE PlaceInv'
  <2>1. /\ \A u \in Threads : u # t => pc'[u] = pc[u] /\ id'[u] = id[u]
        /\ pc'[t] = "listen_window" /\ id'[t] = next_window_id
        /\ next_window_id' = next_window_id + 1 /\ UNCHANGED attached
        /\ next_window_id \in Ids
    BY <1>a, <1>2 DEF TypeOK, CreateWindow, TakeId, FreshId, Goto, history, Ids
  <2>2. \A u \in Threads : pc[u] \in After => id[u] \in Nat /\ id[u] < next_window_id
    BY Zenon, <1>a, <1>b DEF PlaceInv, BuildersInv
  <2>3. \A k \in Kinds : <<k, next_window_id>> \notin attached
    BY <1>b, <2>1 DEF PlaceInv
  <2>4. \A i \in Ids, k \in Kinds : <<k, i>> \in attached => i < next_window_id + 1
    BY <1>b DEF PlaceInv
  <2>5. ASSUME NEW u \in Threads, pc'[u] \in After, u # t
        PROVE  pc[u] \in After /\ id'[u] = id[u] /\ id[u] \in Nat /\ id[u] < next_window_id
    BY Zenon, <2>1, <2>2, <2>5
  <2>6. ASSUME NEW u \in Threads, pc'[u] \in After
        PROVE  /\ id'[u] < next_window_id'
               /\ <<"window", id'[u]>> \in attached'
                    <=> pc'[u] \in {"listen_webview", "insert_webview", "first"}
               /\ <<"webview", id'[u]>> \in attached' <=> pc'[u] = "first"
    <3>1. CASE u = t
      BY <1>b, <2>1, <2>3, <3>1 DEF Kinds
    <3>2. CASE u # t
      BY <1>b, <2>1, <2>5, <2>6, <3>2 DEF PlaceInv
    <3> QED
      BY Zenon, <3>1, <3>2
  <2>7. ASSUME NEW u \in Threads, NEW v \in Threads, pc'[u] \in After, pc'[v] \in After,
               id'[v] = id'[u]
        PROVE  v = u
    <3>1. (u = t) <=> (v = t)
      BY <1>b, <2>1, <2>5, <2>7
    <3>2. CASE u # t /\ v # t
      <4>1. pc[u] \in After /\ pc[v] \in After /\ id[v] = id[u]
        BY Zenon, <2>5, <2>7, <3>2
      <4> QED
        BY Zenon, <4>1 DEF PlaceInv
    <3> QED
      BY Zenon, <3>1, <3>2
  <2> QED
    BY Zenon, <2>1, <2>4, <2>6, <2>7 DEF PlaceInv
<1>3. ASSUME NEW t \in Threads, AddListener(t) PROVE PlaceInv'
  <2>1. /\ \A u \in Threads : u # t => pc'[u] = pc[u]
        /\ \/ pc[t] = "listen_window" /\ pc'[t] = "insert_window"
           \/ pc[t] = "listen_webview" /\ pc'[t] = "insert_webview"
        /\ UNCHANGED <<id, attached, next_window_id>>
    BY Zenon, <1>a, <1>3 DEF TypeOK, AddListener, Goto, history
  <2> QED
    BY ZenonT(30), <2>1 DEF PlaceInv, After
<1>4. ASSUME NEW t \in Threads, NEW k \in Kinds,
             IF k = "window" THEN InsertWindow(t) ELSE InsertWebview(t)
      PROVE  PlaceInv'
  <2>1. /\ \A u \in Threads : u # t => pc'[u] = pc[u]
        /\ \/ k = "window" /\ pc[t] = "insert_window" /\ pc'[t] = "listen_webview"
           \/ k = "webview" /\ pc[t] = "insert_webview" /\ pc'[t] = "first"
        /\ attached' = attached \cup {<<k, id[t]>>}
        /\ UNCHANGED <<id, next_window_id>>
    BY Zenon, <1>a, <1>4 DEF TypeOK, InsertWindow, InsertWebview, Attach, Goto, runtime, Kinds
  <2>2. \A j, i : <<j, i>> \in attached' <=> <<j, i>> \in attached \/ (j = k /\ i = id[t])
    BY Zenon, <2>1
  <2>3. pc[t] \in After /\ id[t] < next_window_id
    BY Zenon, <2>1 DEF PlaceInv, After
  <2>4. \A i \in Ids, j \in Kinds : <<j, i>> \in attached' => i < next_window_id
    BY Zenon, <2>2, <2>3 DEF PlaceInv
  <2>5. ASSUME NEW u \in Threads, u # t, pc[u] \in After PROVE id[u] # id[t]
    BY Zenon, <2>3, <2>5 DEF PlaceInv
  <2> QED
    BY <2>1, <2>2, <2>3, <2>4, <2>5 DEF PlaceInv, After
<1>5. ASSUME NEW l \in MainLabels, BuildOnMain(l) PROVE PlaceInv'
  <2>1. /\ next_window_id' = next_window_id + 1 /\ UNCHANGED <<pc, id>>
        /\ attached' = attached \cup {<<k, next_window_id>> : k \in Kinds}
    BY Zenon, <1>5 DEF BuildOnMain, TakeId, FreshId, local
  <2>2. \A j, i : <<j, i>> \in attached' => <<j, i>> \in attached \/ i = next_window_id
    BY Zenon, <2>1
  <2>3. attached \subseteq attached'
    BY Zenon, <2>1
  <2>4. \A u \in Threads : pc[u] \in After => id[u] \in Nat /\ id[u] < next_window_id
    BY Zenon, <1>a, <1>b DEF PlaceInv, BuildersInv
  <2>5. \A i \in Ids, k \in Kinds : <<k, i>> \in attached' => i < next_window_id + 1
    BY <1>b, <2>2 DEF PlaceInv
  <2>6. \A u \in Threads, k \in Kinds :
          pc[u] \in After => (<<k, id[u]>> \in attached' <=> <<k, id[u]>> \in attached)
    BY <1>b, <2>2, <2>3, <2>4
  <2>7. \A u \in Threads : pc[u] \in After => id[u] < next_window_id + 1
    BY <1>b, <2>4
  <2> QED
    BY Zenon, <2>1, <2>5, <2>6, <2>7 DEF PlaceInv, Kinds
<1>6. ASSUME \/ \E m \in Ask : AskWindow(m)
             \/ Exit \/ HandleMessage \/ MainStep
             \/ \E w \in store : UserCloses(w) \/ Destroyed(w)
             \/ UNCHANGED vars
      PROVE  PlaceInv'
  <2>1. UNCHANGED <<pc, id, attached, next_window_id>>
    BY Zenon, <1>6 DEF AskWindow, Exit, HandleMessage, HandleCreate, HandleListen, HandleClose,
       HandleDestroy, HandleRequestExit, MainStep, RemoveWindow, ExitRequested, LoopDestroyed,
       UserCloses, Destroyed, vars, local, runtime, history
  <2> QED
    BY Zenon, <1>s, <2>1
<1>7. ASSUME NEW t \in Threads, InsertWindow(t) \/ InsertWebview(t) PROVE PlaceInv'
  BY Zenon, <1>4, <1>7, "window" # "webview" DEF Kinds
<1> QED
  BY Zenon, <1>1, <1>2, <1>3, <1>5, <1>6, <1>7 DEF Next, Build

-----------------------------------------------------------------------------
(* Listeners of windows *)

\* What is sent later cannot come between a window and a listener already sent.
LEMMA HeardExtended ==
  ASSUME NEW k, NEW i, Heard(k, i),
         \A p \in DOMAIN queue : p \in DOMAIN queue' /\ queue'[p] = queue[p],
         \A p \in DOMAIN queue' : Creates(p, i)' => p \in DOMAIN queue,
         \A w \in store' : w.id = i /\ w.inner => w \in store
  PROVE  Heard(k, i)'
BY Zenon DEF Heard, Queued, Creates

\* A listener whose window is there is installed when the event loop gets to it; any
\* other message leaves the listeners to come where they are.
LEMMA HeardReceived ==
  ASSUME TypeOK, FreshInv, OrderInv, NEW k \in Kinds, NEW i \in Ids, Heard(k, i),
         HandleMessage
  PROVE  Heard(k, i)'
<1> DEFINE m == Head(queue)
<1>1. queue # <<>> /\ queue' = Tail(queue)
  BY Zenon DEF HandleMessage, HandleCreate, HandleListen, HandleClose, HandleDestroy,
     HandleRequestExit, Receive
<1>2. 1 \in DOMAIN queue /\ queue[1] = m /\ m \in Message
  BY <1>1, Taken DEF TypeOK
<1>3. \A w \in store : w \in Wrapper
  BY Zenon DEF TypeOK
<1>4. \A p \in DOMAIN queue' : ~Creates(p, i)' \/ (p + 1 \in DOMAIN queue /\ Creates(p + 1, i))
  BY Zenon, <1>1, ReceiveOther
<1>5. ASSUME Queued(ListenMessage(i, k)), m # ListenMessage(i, k)
      PROVE  Heard(k, i)'
  <2>1. PICK p \in DOMAIN queue : queue[p] = ListenMessage(i, k)
    BY Zenon, <1>5 DEF Queued
  <2>2. p # 1
    BY Zenon, <1>2, <1>5, <2>1
  <2>3. p - 1 \in DOMAIN queue' /\ queue'[p - 1] = queue[p]
    BY <1>1, <2>2, Taken DEF TypeOK
  <2> QED
    BY Zenon, <2>1, <2>3 DEF Heard, Queued, ListenMessage
<1>6. CASE HandleListen
  <2> DEFINE new(w) == IF w.id = m.id /\ w.inner
                         THEN [w EXCEPT !.listeners = @ \cup {m.to}] ELSE w
  <2>1. m.kind = "listen" /\ m = ListenMessage(m.id, m.to) /\ store' = {new(w) : w \in store}
    BY Zenon, <1>2, <1>6, MessageKinds DEF HandleListen, Receive
  <2>2. \A w \in store : /\ new(w).id = w.id /\ (new(w).inner <=> w.inner)
                         /\ w.listeners \subseteq new(w).listeners
                         /\ w.id = m.id /\ w.inner => m.to \in new(w).listeners
    BY Zenon, <1>3 DEF Wrapper
  <2> HIDE DEF new
  <2>3. CASE m = ListenMessage(i, k)
    <3>1. m.id = i /\ m.to = k
      BY <2>3 DEF ListenMessage
    <3>2. \A q \in DOMAIN queue : ~Creates(q, i)
      BY <1>2, <2>1, <3>1, Taken, <1>1 DEF OrderInv, TypeOK
    <3> QED
      BY <1>4, <2>1, <2>2, <3>1, <3>2 DEF Heard
  <2>4. CASE m # ListenMessage(i, k) /\ ~Queued(ListenMessage(i, k))
    BY <1>4, <2>1, <2>2, <2>4 DEF Heard
  <2> QED
    BY Zenon, <1>5, <2>3, <2>4
<1>7. CASE HandleCreate
  <2> DEFINE n == [id |-> m.id, label |-> m.label, inner |-> TRUE, listeners |-> {}]
  <2>1. m.kind = "create" /\ store' \in {store, store \cup {n}}
    BY Zenon, <1>7 DEF HandleCreate, Receive
  <2>2. m # ListenMessage(i, k) /\ n.id = m.id
    BY <2>1 DEF ListenMessage
  <2> HIDE DEF n
  <2>3. CASE ~Queued(ListenMessage(i, k))
    <3>1. m.id # i
      BY Zenon, <1>2, <2>1, <2>3 DEF Heard, Creates
    <3> QED
      BY Zenon, <1>4, <2>1, <2>2, <2>3, <3>1 DEF Heard
  <2> QED
    BY Zenon, <1>5, <2>2, <2>3
<1>8. CASE HandleClose \/ HandleDestroy \/ HandleRequestExit
  <2>1. m # ListenMessage(i, k)
    BY <1>8 DEF HandleClose, HandleDestroy, HandleRequestExit, Receive, ListenMessage
  <2>2. \A w \in store' : w.inner => w \in store
    BY <1>3, <1>8 DEF HandleClose, HandleDestroy, HandleRequestExit, OnCloseRequested,
       OnWindowClose, Wrapper
  <2>3. CASE ~Queued(ListenMessage(i, k))
    BY Zenon, <1>4, <2>2, <2>3 DEF Heard
  <2> QED
    BY Zenon, <1>5, <2>1, <2>3
<1> QED
  BY Zenon, <1>6, <1>7, <1>8 DEF HandleMessage

\* The queue keeps every listener behind its window: both go through the proxy, the
\* window first, or the window is created on the main thread at once.
LEMMA OrderStep == TypeInv /\ RuntimeInv /\ PlaceInv /\ OrderInv /\ [Next]_vars => OrderInv'
<1> SUFFICES ASSUME TypeInv, RuntimeInv, PlaceInv, OrderInv, [Next]_vars PROVE OrderInv'
  BY Zenon
<1> USE LifecycleAssumption
<1>a. TypeOK /\ BuildersInv /\ FreshInv
  BY Zenon DEF TypeInv, RuntimeInv
<1>b. Ids \subseteq Nat /\ next_window_id \in Nat /\ queue \in Seq(Message)
  BY <1>a DEF TypeOK, Ids
<1>c. ASSUME NEW p \in DOMAIN queue, queue[p].kind = "listen" PROVE queue[p].id \in Ids
  BY <1>b, <1>c, MessageKinds
<1>s. ASSUME UNCHANGED <<queue, next_window_id>> PROVE OrderInv'
  BY Zenon, <1>s DEF OrderInv, Creates
<1>q. ASSUME NEW m \in Message, queue' = Append(queue, m), m.kind # "create",
             m.kind = "listen" => m.id < next_window_id, UNCHANGED next_window_id
      PROVE  OrderInv'
  <2>1. \A p \in DOMAIN queue' : \/ p \in DOMAIN queue /\ queue'[p] = queue[p]
                                 \/ p = Len(queue) + 1 /\ queue'[p] = m
    BY <1>b, <1>q, Appended
  <2>2. \A p \in DOMAIN queue : p \in Nat /\ p < Len(queue) + 1
    BY <1>b
  <2> QED
    BY <1>q, <2>1, <2>2 DEF OrderInv, Creates
<1>1. ASSUME NEW t \in Threads, CreateWindow(t) PROVE OrderInv'
  <2> DEFINE m == CreateMessage(next_window_id, label[t])
  <2>1. next_window_id \in Ids /\ label[t] \in Labels /\ next_window_id' = next_window_id + 1
    BY <1>a, <1>1 DEF TypeOK, BuildersInv, CreateWindow, TakeId, Ids
  <2>2. m \in Message /\ queue' = Append(queue, m)
    BY Zenon, <1>1, <2>1, Messages DEF CreateWindow, Send, FreshId
  <2>3. \A p \in DOMAIN queue' : \/ p \in DOMAIN queue /\ queue'[p] = queue[p]
                                 \/ p = Len(queue) + 1 /\ queue'[p] = m
    BY <1>b, <2>2, Appended
  <2>4. m.kind = "create" /\ m.id = next_window_id
    BY Zenon DEF CreateMessage
  <2> HIDE DEF m
  <2>5. ASSUME NEW p \in DOMAIN queue', queue'[p].kind = "listen"
        PROVE  /\ p \in DOMAIN queue /\ queue'[p] = queue[p]
               /\ queue[p].id \in Nat /\ queue[p].id < next_window_id
    BY Zenon, <1>b, <1>c, <2>3, <2>4, <2>5 DEF OrderInv
  <2>6. \A p \in DOMAIN queue' : queue'[p].kind = "listen" => queue'[p].id < next_window_id'
    BY <1>b, <2>1, <2>5
  <2>7. ASSUME NEW p \in DOMAIN queue', NEW q \in DOMAIN queue', NEW i \in Ids,
               queue'[p].kind = "listen", queue'[p].id = i, Creates(q, i)'
        PROVE  q < p
    <3>1. i # next_window_id
      BY <1>b, <2>5, <2>7
    <3>2. q \in DOMAIN queue /\ Creates(q, i)
      BY Zenon, <2>3, <2>4, <2>7, <3>1 DEF Creates
    <3> QED
      BY Zenon, <2>5, <2>7, <3>2 DEF OrderInv
  <2> QED
    BY Zenon, <2>6, <2>7 DEF OrderInv
<1>2. ASSUME NEW t \in Threads, AddListener(t) PROVE OrderInv'
  <2>1. PICK k \in Kinds : queue' = Append(queue, ListenMessage(id[t], k))
    BY Zenon, <1>2 DEF AddListener, Send, Kinds
  <2>2. pc[t] \in After
    BY Zenon, <1>2 DEF AddListener, After
  <2>3. /\ ListenMessage(id[t], k) \in Message
        /\ ListenMessage(id[t], k).kind = "listen" /\ ListenMessage(id[t], k).id = id[t]
    BY Zenon, <1>a, <2>2, Messages DEF BuildersInv, ListenMessage
  <2>4. id[t] < next_window_id /\ UNCHANGED next_window_id
    BY Zenon, <1>2, <2>2 DEF PlaceInv, AddListener
  <2> QED
    BY Zenon, <1>q, <2>1, <2>3, <2>4
<1>3. ASSUME NEW m \in Ask, AskWindow(m) PROVE OrderInv'
  <2>1. m \in Message /\ m.kind \notin {"create", "listen"}
    BY Zenon, Messages DEF Ask
  <2> QED
    BY Zenon, <1>3, <1>q, <2>1 DEF AskWindow, Send
<1>4. ASSUME Exit PROVE OrderInv'
  <2>1. [kind |-> "exit"] \in Message /\ [kind |-> "exit"].kind \notin {"create", "listen"}
    BY Zenon, Messages
  <2> QED
    BY Zenon, <1>4, <1>q, <2>1 DEF Exit, Send
<1>5. ASSUME NEW l \in MainLabels, BuildOnMain(l) PROVE OrderInv'
  <2> DEFINE m == ListenMessage(next_window_id, "window")
             n == ListenMessage(next_window_id, "webview")
  <2>1. next_window_id \in Ids /\ next_window_id' = next_window_id + 1
    BY <1>a, <1>5 DEF TypeOK, BuildOnMain, TakeId, Ids
  <2>2. m \in Message /\ n \in Message
    BY Zenon, <2>1, Messages DEF Kinds
  <2>3. queue' = Append(Append(queue, m), n)
    BY Zenon, <1>b, <1>5, <2>2, AppendedTwo DEF BuildOnMain, FreshId
  <2>4. m.kind = "listen" /\ m.id = next_window_id /\ n.kind = "listen" /\ n.id = next_window_id
    BY Zenon DEF ListenMessage
  <2> HIDE DEF m, n
  <2>5. \A p \in DOMAIN queue' :
          \/ p \in DOMAIN queue /\ queue'[p] = queue[p]
          \/ p > Len(queue) /\ p \in Nat /\ queue'[p] \in {m, n}
    BY <1>b, <2>2, <2>3, Appended
  <2>6. \A p \in DOMAIN queue : p \in Nat /\ p =< Len(queue) /\ Len(queue) \in Nat
    BY <1>b
  <2>7. ASSUME NEW p \in DOMAIN queue', queue'[p].kind = "listen"
        PROVE  queue'[p].id < next_window_id'
    <3>1. CASE p \in DOMAIN queue /\ queue'[p] = queue[p]
      <4>1. queue[p].id \in Nat /\ queue[p].id < next_window_id
        BY Zenon, <1>b, <1>c, <2>7, <3>1 DEF OrderInv
      <4> QED
        BY <1>b, <2>1, <3>1, <4>1
    <3>2. CASE queue'[p] \in {m, n}
      BY <1>b, <2>1, <2>4, <3>2
    <3> QED
      BY Zenon, <2>5, <3>1, <3>2
  <2>8. ASSUME NEW p \in DOMAIN queue', NEW q \in DOMAIN queue', NEW i \in Ids,
               queue'[p].kind = "listen", queue'[p].id = i, Creates(q, i)'
        PROVE  q < p
    <3>1. q \in DOMAIN queue /\ Creates(q, i)
      BY Zenon, <2>4, <2>5, <2>8 DEF Creates
    <3> QED
      BY <2>5, <2>6, <2>8, <3>1 DEF OrderInv
  <2> QED
    BY Zenon, <2>7, <2>8 DEF OrderInv
<1>6. ASSUME HandleMessage PROVE OrderInv'
  <2>1. queue # <<>> /\ queue' = Tail(queue) /\ UNCHANGED next_window_id
    BY Zenon, <1>6 DEF HandleMessage, HandleCreate, HandleListen, HandleClose, HandleDestroy,
       HandleRequestExit, Receive
  <2>2. ASSUME NEW p \in DOMAIN queue', NEW q \in DOMAIN queue', NEW i \in Ids,
               queue'[p].kind = "listen", queue'[p].id = i, Creates(q, i)'
        PROVE  q < p
    <3>1. /\ p + 1 \in DOMAIN queue /\ p \in Nat /\ queue'[p] = queue[p + 1]
          /\ q + 1 \in DOMAIN queue /\ q \in Nat /\ Creates(q + 1, i)
      BY Zenon, <1>a, <2>1, <2>2, ReceiveOther
    <3>2. q + 1 < p + 1
      BY Zenon, <2>2, <3>1 DEF OrderInv
    <3> QED
      BY <3>1, <3>2
  <2>3. \A p \in DOMAIN queue' : queue'[p].kind = "listen" => queue'[p].id < next_window_id'
    BY ZenonT(30), <1>a, <2>1, ReceiveOther DEF OrderInv
  <2> QED
    BY Zenon, <2>2, <2>3 DEF OrderInv
<1>7. ASSUME \/ \E t \in Threads : \/ PrepareWebview(t) \/ PrepareWindow(t) \/ FirstWebview(t)
                                   \/ InsertWindow(t) \/ InsertWebview(t)
             \/ MainStep \/ UNCHANGED vars
             \/ \E w \in store : UserCloses(w) \/ Destroyed(w)
      PROVE  OrderInv'
  BY Zenon, <1>s, <1>7 DEF PrepareWebview, PrepareWindow, FirstWebview, InsertWindow, InsertWebview,
     MainStep, RemoveWindow, ExitRequested, LoopDestroyed, UserCloses, Destroyed, vars, runtime
<1> QED
  BY Zenon, <1>1, <1>2, <1>3, <1>4, <1>5, <1>6, <1>7 DEF Next, Build

\* No step separates an entry of the managers' tables from its listener.
LEMMA HeardStep ==
  TypeInv /\ RuntimeInv /\ PlaceInv /\ OrderInv /\ HeardInv /\ [Next]_vars => HeardInv'
<1> SUFFICES ASSUME TypeInv, RuntimeInv, PlaceInv, OrderInv, HeardInv, [Next]_vars
             PROVE  HeardInv'
  BY Zenon
<1> USE LifecycleAssumption
<1>a. TypeOK /\ BuildersInv /\ FreshInv
  BY Zenon DEF TypeInv, RuntimeInv
<1>b. Ids \subseteq Nat /\ next_window_id \in Nat /\ queue \in Seq(Message)
  BY <1>a DEF TypeOK, Ids
<1>c. \A t \in Threads : pc[t] \in After => id[t] \in Ids /\ id[t] < next_window_id
  BY Zenon, <1>a DEF BuildersInv, PlaceInv
<1>s. ASSUME UNCHANGED <<pc, id, attached>>,
             \A i \in Ids, k \in Kinds : i < next_window_id /\ Heard(k, i) => Heard(k, i)'
      PROVE  HeardInv'
  <2>1. \A i \in Ids, k \in Kinds : <<k, i>> \in attached' => Heard(k, i)'
    BY Zenon, <1>s DEF HeardInv, PlaceInv
  <2>2. \A t \in Threads, i \in Ids : id'[t] = i =>
          /\ pc'[t] = "insert_window" => Heard("window", i)'
          /\ pc'[t] = "insert_webview" => Heard("webview", i)'
    BY Zenon, <1>c, <1>s DEF HeardInv, After, Kinds
  <2> QED
    BY Zenon, <2>1, <2>2 DEF HeardInv
<1>k. ASSUME UNCHANGED <<store, queue>>, NEW k, NEW i, Heard(k, i) PROVE Heard(k, i)'
  BY Zenon, <1>k DEF Heard, Queued, Creates
<1>1. ASSUME NEW t \in Threads, PrepareWebview(t) \/ PrepareWindow(t) \/ FirstWebview(t)
      PROVE HeardInv'
  <2>1. /\ \A u \in Threads : u # t => pc'[u] = pc[u] /\ id'[u] = id[u]
        /\ pc'[t] \notin After
        /\ UNCHANGED <<attached, store, queue>>
    BY <1>a, <1>1 DEF TypeOK, PrepareWebview, PrepareWindow, FirstWebview, Goto, Leave, After,
       runtime, history
  <2>2. \A u \in Threads : pc'[u] \in After => pc'[u] = pc[u] /\ id'[u] = id[u]
    BY Zenon, <2>1
  <2> QED
    BY Zenon, <1>k, <2>1, <2>2 DEF HeardInv, After
<1>2. ASSUME NEW t \in Threads, CreateWindow(t) PROVE HeardInv'
  <2> DEFINE m == CreateMessage(next_window_id, label[t])
  <2>1. /\ \A u \in Threads : u # t => pc'[u] = pc[u] /\ id'[u] = id[u]
        /\ pc'[t] = "listen_window"
        /\ next_window_id \in Ids /\ label[t] \in Labels
        /\ UNCHANGED <<attached, store>>
    BY <1>a, <1>2 DEF TypeOK, BuildersInv, CreateWindow, TakeId, Goto, Ids, history
  <2>2. m \in Message /\ queue' = Append(queue, m) /\ m.id = next_window_id
    BY Zenon, <1>2, <2>1, Messages DEF CreateWindow, Send, FreshId, CreateMessage
  <2>3. ASSUME NEW i \in Ids, NEW k \in Kinds, i < next_window_id, Heard(k, i)
        PROVE  Heard(k, i)'
    <3>1. i # m.id
      BY <1>b, <2>2, <2>3
    <3> HIDE DEF m
    <3>2. \A p \in DOMAIN queue : p \in DOMAIN queue' /\ queue'[p] = queue[p]
      BY <1>b, <2>2, Appended
    <3>3. \A p \in DOMAIN queue' : Creates(p, i)' => p \in DOMAIN queue
      BY <1>b, <2>2, <3>1, Appended DEF Creates
    <3> QED
      BY Zenon, <2>1, <2>3, <3>2, <3>3, HeardExtended
  <2>4. \A i \in Ids, k \in Kinds : <<k, i>> \in attached' => Heard(k, i)'
    BY Zenon, <2>1, <2>3 DEF HeardInv, PlaceInv
  <2>5. ASSUME NEW u \in Threads, pc'[u] \in {"insert_window", "insert_webview"}
        PROVE  pc'[u] = pc[u] /\ id'[u] = id[u] /\ pc[u] \in After
    BY Zenon, <2>1, <2>5 DEF After
  <2>6. \A u \in Threads, i \in Ids : id'[u] = i =>
          /\ pc'[u] = "insert_window" => Heard("window", i)'
          /\ pc'[u] = "insert_webview" => Heard("webview", i)'
    BY Zenon, <1>c, <2>3, <2>5 DEF HeardInv, Kinds
  <2> QED
    BY Zenon, <2>4, <2>6 DEF HeardInv
<1>q. ASSUME NEW m \in Message, queue' = Append(queue, m), m.kind # "create", UNCHANGED store,
             NEW i, NEW k, Heard(k, i)
      PROVE  Heard(k, i)'
  <2>1. \A p \in DOMAIN queue : p \in DOMAIN queue' /\ queue'[p] = queue[p]
    BY <1>b, <1>q, Appended
  <2>2. \A p \in DOMAIN queue' : Creates(p, i)' => p \in DOMAIN queue
    BY <1>b, <1>q, Appended DEF Creates
  <2> QED
    BY Zenon, <1>q, <2>1, <2>2, HeardExtended
<1>3. ASSUME NEW t \in Threads, AddListener(t) PROVE HeardInv'
  <2>1. PICK k \in Kinds : /\ queue' = Append(queue, ListenMessage(id[t], k))
                           /\ k = "window" => pc'[t] = "insert_window"
                           /\ k = "webview" => pc'[t] = "insert_webview"
    BY Zenon, <1>a, <1>3 DEF TypeOK, AddListener, Send, Goto, Kinds
  <2>2. pc[t] \in After /\ UNCHANGED <<id, attached, store>>
        /\ \A u \in Threads : u # t => pc'[u] = pc[u]
    BY Zenon, <1>a, <1>3 DEF TypeOK, AddListener, Goto, After, history
  <2>3. ListenMessage(id[t], k) \in Message /\ ListenMessage(id[t], k).kind # "create"
    BY Zenon, <1>c, <2>2, Messages DEF ListenMessage
  <2>4. ASSUME NEW i \in Ids, i = id[t] PROVE Heard(k, i)'
    <3>1. Len(queue) + 1 \in DOMAIN queue' /\ queue'[Len(queue) + 1] = ListenMessage(id[t], k)
      BY <1>b, <2>1, <2>3, Appended
    <3> QED
      BY Zenon, <2>4, <3>1 DEF Heard, Queued, ListenMessage
  <2>5. \A i, j : Heard(j, i) => Heard(j, i)'
    BY Zenon, <1>q, <2>1, <2>2, <2>3
  <2>6. \A i \in Ids, j \in Kinds : <<j, i>> \in attached' => Heard(j, i)'
    BY Zenon, <2>2, <2>5 DEF HeardInv
  <2>7. ASSUME NEW u \in Threads, NEW i \in Ids, id[u] = i
        PROVE  /\ pc'[u] = "insert_window" => Heard("window", i)'
               /\ pc'[u] = "insert_webview" => Heard("webview", i)'
    <3>1. CASE u = t
      BY Zenon, <2>1, <2>4, <2>7, <3>1 DEF Kinds
    <3>2. CASE u # t
      BY Zenon, <2>2, <2>5, <2>7, <3>2 DEF HeardInv
    <3> QED
      BY Zenon, <3>1, <3>2
  <2> QED
    BY Zenon, <2>2, <2>6, <2>7 DEF HeardInv
<1>4. ASSUME NEW t \in Threads, NEW k \in Kinds,
             IF k = "window" THEN InsertWindow(t) ELSE InsertWebview(t)
      PROVE  HeardInv'
  <2>1. /\ \A u \in Threads : u # t => pc'[u] = pc[u]
        /\ \/ k = "window" /\ pc[t] = "insert_window" /\ pc'[t] = "listen_webview"
           \/ k = "webview" /\ pc[t] = "insert_webview" /\ pc'[t] = "first"
        /\ attached' = attached \cup {<<k, id[t]>>}
        /\ UNCHANGED <<id, store, queue>>
    BY Zenon, <1>a, <1>4 DEF TypeOK, InsertWindow, InsertWebview, Attach, Goto, runtime, Kinds
  <2>2. \A i \in Ids : i = id[t] => Heard(k, i)
    BY Zenon, <2>1 DEF HeardInv
  <2>3. \A i, j : Heard(j, i) => Heard(j, i)'
    BY Zenon, <1>k, <2>1
  <2>4. \A i \in Ids, j \in Kinds : <<j, i>> \in attached' => Heard(j, i)'
    BY Zenon, <2>1, <2>2, <2>3 DEF HeardInv
  <2>5. ASSUME NEW u \in Threads, NEW i \in Ids, id[u] = i
        PROVE  /\ pc'[u] = "insert_window" => Heard("window", i)'
               /\ pc'[u] = "insert_webview" => Heard("webview", i)'
    BY Zenon, <2>1, <2>3, <2>5 DEF HeardInv
  <2> QED
    BY Zenon, <2>1, <2>4, <2>5 DEF HeardInv
<1>5. ASSUME NEW t \in Threads, InsertWindow(t) \/ InsertWebview(t) PROVE HeardInv'
  BY Zenon, <1>4, <1>5, "window" # "webview" DEF Kinds
<1>6. ASSUME NEW m \in Ask, AskWindow(m) PROVE HeardInv'
  <2>1. m \in Message /\ m.kind # "create" /\ queue' = Append(queue, m)
    BY Zenon, <1>6, Messages DEF Ask, AskWindow, Send
  <2>2. UNCHANGED <<store, pc, id, attached>>
    BY Zenon, <1>6 DEF AskWindow, local
  <2> QED
    BY Zenon, <1>q, <1>s, <2>1, <2>2
<1>7. ASSUME Exit PROVE HeardInv'
  <2>1. [kind |-> "exit"] \in Message /\ [kind |-> "exit"].kind # "create"
    BY Zenon, Messages
  <2>2. queue' = Append(queue, [kind |-> "exit"]) /\ UNCHANGED <<store, pc, id, attached>>
    BY Zenon, <1>7 DEF Exit, Send, local
  <2> QED
    BY Zenon, <1>q, <1>s, <2>1, <2>2
<1>8. ASSUME NEW l \in MainLabels, BuildOnMain(l) PROVE HeardInv'
  <2>0. PICK i0 \in Ids : i0 = next_window_id
    BY <1>a, <1>8 DEF TypeOK, BuildOnMain, TakeId, Ids
  <2> DEFINE m(k) == ListenMessage(i0, k)
             w0 == [id |-> i0, label |-> l, inner |-> TRUE, listeners |-> {}]
  <2>1. /\ UNCHANGED <<pc, id>>
        /\ attached' = attached \cup {<<k, i0>> : k \in Kinds}
        /\ store' \in {store, store \cup {w0}}
    BY Zenon, <1>8, <2>0 DEF BuildOnMain, FreshId, local
  <2>2. m("window") \in Message /\ m("webview") \in Message
    BY Zenon, Messages DEF Kinds
  <2>3. queue' = Append(Append(queue, m("window")), m("webview"))
    BY <1>b, <1>8, <2>0, <2>2, AppendedTwo DEF BuildOnMain, FreshId
  <2>4. (\A k : m(k).kind = "listen") /\ w0.id = i0
    BY Zenon DEF ListenMessage
  <2> HIDE DEF w0, m
  <2>5. \A k \in Kinds : \E p \in DOMAIN queue' : queue'[p] = m(k)
    <3>1. /\ \E p \in DOMAIN queue' : queue'[p] = m("window")
          /\ \E p \in DOMAIN queue' : queue'[p] = m("webview")
      BY <1>b, <2>2, <2>3, BothQueued
    <3> QED
      BY Zenon, <3>1 DEF Kinds
  <2>6. \A k \in Kinds : Heard(k, i0)'
    BY Zenon, <2>5 DEF Heard, Queued, m, ListenMessage
  <2>7. ASSUME NEW i \in Ids, NEW k \in Kinds, i < next_window_id, Heard(k, i)
        PROVE  Heard(k, i)'
    <3>1. \A p \in DOMAIN queue : p \in DOMAIN queue' /\ queue'[p] = queue[p]
      BY <1>b, <2>2, <2>3, BothQueued
    <3>2. \A p \in DOMAIN queue' : Creates(p, i)' => p \in DOMAIN queue
      BY <1>b, <2>2, <2>3, <2>4, Appended DEF Creates
    <3>3. \A w \in store' : w.id = i /\ w.inner => w \in store
      BY <1>b, <2>0, <2>1, <2>4, <2>7
    <3> QED
      BY Zenon, <2>7, <3>1, <3>2, <3>3, HeardExtended
  <2>8. \A i \in Ids, k \in Kinds : <<k, i>> \in attached' => Heard(k, i)'
    BY <2>1, <2>6, <2>7 DEF HeardInv, PlaceInv
  <2>9. \A t \in Threads, i \in Ids : id'[t] = i =>
          /\ pc'[t] = "insert_window" => Heard("window", i)'
          /\ pc'[t] = "insert_webview" => Heard("webview", i)'
    BY Zenon, <1>c, <2>1, <2>7 DEF HeardInv, After, Kinds
  <2> QED
    BY Zenon, <2>8, <2>9 DEF HeardInv
<1>9. ASSUME HandleMessage PROVE HeardInv'
  <2>1. UNCHANGED <<pc, id, attached>>
    BY Zenon, <1>9 DEF HandleMessage, HandleCreate, HandleListen, HandleClose, HandleDestroy,
       HandleRequestExit, local, history
  <2>2. \A i \in Ids, k \in Kinds : Heard(k, i) => Heard(k, i)'
    BY Zenon, <1>a, <1>9, HeardReceived
  <2> QED
    BY Zenon, <1>s, <2>1, <2>2
<1>10. ASSUME \/ \E w \in store : UserCloses(w) \/ Destroyed(w)
              \/ MainStep
       PROVE  HeardInv'
  <2>1. UNCHANGED <<queue, pc, id, attached>>
    BY Zenon, <1>10 DEF UserCloses, Destroyed, MainStep, RemoveWindow, ExitRequested, LoopDestroyed,
       local, history
  <2>2. \A w \in store : w \in Wrapper
    BY Zenon, <1>a DEF TypeOK
  <2>3. \A w \in store' : w.inner => w \in store
    BY <1>10, <2>2 DEF UserCloses, OnCloseRequested, OnWindowClose, Destroyed, MainStep,
       RemoveWindow, ExitRequested, LoopDestroyed, Wrapper
  <2>4. ASSUME NEW i \in Ids, NEW k \in Kinds, Heard(k, i) PROVE Heard(k, i)'
    BY Zenon, <2>1, <2>3, <2>4 DEF Heard, Queued, Creates
  <2> QED
    BY Zenon, <1>s, <2>1, <2>4
<1>11. ASSUME UNCHANGED vars PROVE HeardInv'
  BY Zenon, <1>k, <1>s, <1>11 DEF vars, local, runtime, history
<1> QED
  BY Zenon, <1>1, <1>2, <1>3, <1>5, <1>6, <1>7, <1>8, <1>9, <1>10, <1>11 DEF Next, Build

\* The managers hear of the events of every window in their tables, however many
\* threads build windows and whatever labels they use.
THEOREM EventsHeard == Spec => []EventsAreHeard
<1> DEFINE I == TypeInv /\ RuntimeInv /\ PlaceInv /\ OrderInv /\ HeardInv
<1>1. Init => I
  BY InitTypeInv, InitRuntimeInv DEF Init, PlaceInv, OrderInv, HeardInv, After
<1>2. I /\ [Next]_vars => I'
  BY Zenon, TypeStep, RuntimeStep, PlaceStep, OrderStep, HeardStep
<1>3. I => EventsAreHeard
  BY Zenon DEF TypeInv, TypeOK, Wrapper, HeardInv, Heard, EventsAreHeard
<1> QED
  BY <1>1, <1>2, <1>3, PTL DEF Spec
==============================================================================
