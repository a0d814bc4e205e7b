------------------------------ MODULE Lifecycle ------------------------------
(***************************************************************************)
(* Windows from the builder to the end of the application: WindowBuilder   *)
(* and the window and webview managers of crates/tauri, the window store   *)
(* and the event loop of crates/tauri-runtime-wry.                         *)
(*                                                                         *)
(* There are two records of the windows.  The managers keep tables by      *)
(* label, which any thread reads and fills; the runtime keeps a store by   *)
(* id, which only the main thread touches.  A thread that builds a window  *)
(* sends messages to the main thread and fills the tables without waiting  *)
(* for it; the main thread empties the tables when the window system       *)
(* reports a window destroyed, and asks the application to exit when its   *)
(* store is empty.                                                         *)
(*                                                                         *)
(* All windows are webview windows: one webview of the window's label.     *)
(***************************************************************************)
EXTENDS Naturals, Sequences

CONSTANTS
  Threads,      \* the threads that build windows, other than the main thread
  Labels,       \* window labels
  MayUse,       \* the labels each thread gives to its windows
  MainLabels,   \* the labels of the windows built on the main thread
  NoWindow,     \* no window: no id, no label
  MaxWindows,   \* bound on the number of windows ever built
  MaxRequests   \* bound on the number of calls of close, destroy and exit

ASSUME LifecycleAssumption ==
  /\ MayUse \in [Threads -> SUBSET Labels]
  /\ MainLabels \in SUBSET Labels
  /\ MaxWindows \in Nat
  /\ MaxRequests \in Nat
  /\ NoWindow \notin Nat \cup Labels

VARIABLES
  windows,         \* WindowManager.windows: window id by label
  webviews,        \* WebviewManager.webviews: the id of its window, by label
  store,           \* WindowsStore of the main thread
  queue,           \* messages sent through the event loop proxy
  native,          \* windows whose Destroyed event the window system has to report
  next_window_id,
  main,            \* what the main thread is doing
  dying,           \* the window whose Destroyed event it is handling
  control,         \* the control flow of the event loop
  pc, label, id,   \* each thread's place in build, and its local variables
  requests,        \* history: number of close, destroy and exit calls
  attached,        \* history: which windows were put in which table
  closed,          \* history: ids the managers were told are destroyed
  late,            \* history: those of attached that came after that
  failed,          \* history: ids whose creation failed
  prevented        \* history: some ExitRequested was prevented

tables == <<windows, webviews>>
runtime == <<store, queue, native, next_window_id, main, dying, control>>
local == <<pc, label, id>>
history == <<requests, attached, closed, late, failed, prevented>>
vars == <<tables, runtime, local, history>>

-----------------------------------------------------------------------------
(* Data *)

Ids == 0 .. (MaxWindows - 1)

\* WindowWrapper: "inner" is whether it still has its native window, "listeners"
\* which of the managers' event listeners it has got.
Kinds == {"window", "webview"}
Wrapper == [id : Ids, label : Labels, inner : BOOLEAN, listeners : SUBSET Kinds]

\* The messages that matter here; those that run a task or set a property of a
\* window change nothing of this state.
Create == [kind : {"create"}, id : Ids, label : Labels]
Listen == [kind : {"listen"}, id : Ids, to : Kinds]
Ask == [kind : {"close", "destroy"}, id : Ids]
RequestExit == [kind : {"exit"}]
Message == Create \cup Listen \cup Ask \cup RequestExit

CreateMessage(i, l) == [kind |-> "create", id |-> i, label |-> l]
ListenMessage(i, to) == [kind |-> "listen", id |-> i, to |-> to]

Stored(i) == \E w \in store : w.id = i

\* The process runs until the event loop has been destroyed.
Alive == control # "stopped"

\* Mutant: messages overtake each other.
SendFirst(m) == queue' = <<m>> \o queue

\* proxy.send_event, from another thread
Send(m) == queue' = Append(queue, m)

\* Mutant: a label is never refused.
AlwaysVacant(table, l) == TRUE

\* prepare_webview and prepare_window refuse a label that is in their table
Vacant(table, l) == table[l] = NoWindow

\* Mutant: the id is the counter after the addition.
FreshIdAfter == next_window_id + 1

\* next_window_id.fetch_add(1) returns the counter before the addition
FreshId == next_window_id
TakeId ==
  /\ next_window_id < MaxWindows
  /\ next_window_id' = next_window_id + 1

\* The window with id i is put in the table named k.
Attach(k, i) ==
  /\ attached' = attached \cup {<<k, i>>}
  /\ late' = IF i \in closed THEN late \cup {<<k, i>>} ELSE late

Goto(t, l) == pc' = [pc EXCEPT ![t] = l]

\* build returns or unwinds, and its local variables go.
Leave(t, l) ==
  /\ Goto(t, l)
  /\ label' = [label EXCEPT ![t] = NoWindow]
  /\ id' = [id EXCEPT ![t] = NoWindow]

-----------------------------------------------------------------------------
(* WebviewWindowBuilder::build on a thread other than the main one *)

\* into_pending_webview, prepare_webview
PrepareWebview(t) ==
  /\ Alive
  /\ pc[t] = "idle"
  /\ next_window_id < MaxWindows
  /\ \E l \in MayUse[t] :
       /\ Vacant(webviews, l)
       /\ label' = [label EXCEPT ![t] = l]
  /\ Goto(t, "prepare")
  /\ UNCHANGED <<tables, runtime, id, history>>

\* prepare_window: build goes on, or returns WindowLabelAlreadyExists
PrepareWindow(t) ==
  /\ Alive
  /\ pc[t] = "prepare"
  /\ IF Vacant(windows, label[t])
       THEN Goto(t, "create") /\ UNCHANGED <<label, id>>
       ELSE Leave(t, "idle")
  /\ UNCHANGED <<tables, runtime, history>>

\* Context::create_window: the window is created when the main thread gets to it
CreateWindow(t) ==
  /\ Alive
  /\ pc[t] = "create"
  /\ TakeId
  /\ Send(CreateMessage(FreshId, label[t]))
  /\ id' = [id EXCEPT ![t] = FreshId]
  /\ Goto(t, "listen_window")
  /\ UNCHANGED <<tables, store, native, main, dying, control, label, history>>

\* attach_window and attach_webview: first on_window_event or on_webview_event,
\* then the insertion in the table
AddListener(t) ==
  /\ Alive
  /\ \/ pc[t] = "listen_window" /\ Send(ListenMessage(id[t], "window"))
                                /\ Goto(t, "insert_window")
     \/ pc[t] = "listen_webview" /\ Send(ListenMessage(id[t], "webview"))
                                 /\ Goto(t, "insert_webview")
  /\ UNCHANGED <<tables, store, native, next_window_id, main, dying, control,
                 label, id, history>>

InsertWindow(t) ==
  /\ Alive
  /\ pc[t] = "insert_window"
  /\ windows' = [windows EXCEPT ![label[t]] = id[t]]
  /\ Attach("window", id[t])
  /\ Goto(t, "listen_webview")
  /\ UNCHANGED <<webviews, runtime, label, id, requests, closed, failed, prevented>>

InsertWebview(t) ==
  /\ Alive
  /\ pc[t] = "insert_webview"
  /\ webviews' = [webviews EXCEPT ![label[t]] = id[t]]
  /\ Attach("webview", id[t])
  /\ Goto(t, "first")
  /\ UNCHANGED <<windows, runtime, label, id, requests, closed, failed, prevented>>

\* with_webview: window.webviews().first().unwrap()
FirstWebview(t) ==
  /\ Alive
  /\ pc[t] = "first"
  /\ Leave(t, IF webviews[label[t]] = NoWindow THEN "panicked" ELSE "idle")
  /\ UNCHANGED <<tables, runtime, history>>

-----------------------------------------------------------------------------
(* Requests from any thread: all of them go through the proxy *)

\* Window::close, Window::destroy, of a window found in the table
AskWindow(m) ==
  /\ Alive
  /\ requests < MaxRequests
  /\ requests' = requests + 1
  /\ \E l \in Labels : windows[l] = m.id
  /\ Send(m)
  /\ UNCHANGED <<tables, store, native, next_window_id, main, dying, control,
                 local, attached, closed, late, failed, prevented>>

\* AppHandle::exit
Exit ==
  /\ Alive
  /\ requests < MaxRequests
  /\ requests' = requests + 1
  /\ Send([kind |-> "exit"])
  /\ UNCHANGED <<tables, store, native, next_window_id, main, dying, control,
                 local, attached, closed, late, failed, prevented>>

-----------------------------------------------------------------------------
(* The main thread *)

\* The user's callbacks build a window: they run inside the event loop, where a
\* message is handled at once, except on_window_event which uses the proxy.  A
\* creation that fails is only logged.
BuildOnMain(l) ==
  /\ Alive
  /\ Vacant(webviews, l)
  /\ Vacant(windows, l)
  /\ TakeId
  /\ \/ /\ store' = store \cup {[id |-> FreshId, label |-> l, inner |-> TRUE,
                                listeners |-> {}]}
        /\ UNCHANGED failed
     \/ /\ failed' = failed \cup {FreshId}
        /\ UNCHANGED store
  /\ queue' = queue \o <<ListenMessage(FreshId, "window"),
                         ListenMessage(FreshId, "webview")>>
  /\ windows' = [windows EXCEPT ![l] = FreshId]
  /\ webviews' = [webviews EXCEPT ![l] = FreshId]
  /\ attached' = attached \cup {<<k, FreshId>> : k \in Kinds}
  /\ UNCHANGED <<native, main, dying, control, local, requests, closed, late,
                 prevented>>

\* The event loop takes the next message, which is of the given kind.
Receive(kind) ==
  /\ Alive
  /\ main = "loop"
  /\ queue # <<>>
  /\ Head(queue).kind = kind
  /\ queue' = Tail(queue)

\* Message::CreateWindow: an error is only logged
HandleCreate ==
  /\ Receive("create")
  /\ LET m == Head(queue)
     IN  \/ /\ store' = store \cup {[id |-> m.id, label |-> m.label,
                                    inner |-> TRUE, listeners |-> {}]}
            /\ UNCHANGED failed
         \/ /\ failed' = failed \cup {m.id}
            /\ UNCHANGED store
  /\ UNCHANGED <<tables, native, next_window_id, main, dying, control, local,
                 requests, attached, closed, late, prevented>>

\* AddEventListener: ignored when the native window is gone
HandleListen ==
  /\ Receive("listen")
  /\ LET m == Head(queue)
     IN  store' = {IF w.id = m.id /\ w.inner
                     THEN [w EXCEPT !.listeners = @ \cup {m.to}] ELSE w : w \in store}
  /\ UNCHANGED <<tables, native, next_window_id, main, dying, control, local,
                 history>>

\* Mutant: the wrapper keeps its native window.
OnWindowCloseKept(i) == UNCHANGED <<store, native>>

\* on_window_close: the native window is dropped, and the window system will
\* report it destroyed
OnWindowClose(i) ==
  /\ store' = {IF w.id = i THEN [w EXCEPT !.inner = FALSE] ELSE w : w \in store}
  /\ native' = native \cup {w.id : w \in {v \in store : v.id = i /\ v.inner}}

\* on_close_requested: a listener or the callback of run may prevent the close
OnCloseRequested(i) ==
  \/ OnWindowClose(i)
  \/ Stored(i) /\ UNCHANGED <<store, native>>

HandleClose ==
  /\ Receive("close")
  /\ OnCloseRequested(Head(queue).id)
  /\ UNCHANGED <<tables, next_window_id, main, dying, control, local, history>>

HandleDestroy ==
  /\ Receive("destroy")
  /\ OnWindowClose(Head(queue).id)
  /\ UNCHANGED <<tables, next_window_id, main, dying, control, local, history>>

\* Message::RequestExit: the callback gets ExitRequested
HandleRequestExit ==
  /\ Receive("exit")
  /\ main' = "exit_requested"
  /\ UNCHANGED <<tables, store, native, next_window_id, dying, control, local,
                 history>>

\* The user closes a window: TaoWindowEvent::CloseRequested
UserCloses(w) ==
  /\ Alive
  /\ main = "loop"
  /\ w.inner
  /\ OnCloseRequested(w.id)
  /\ UNCHANGED <<tables, queue, next_window_id, main, dying, control, local,
                 history>>

\* Mutant: on_window_close forgets the webviews of the window.
ForgetWindowOnly(l) ==
  /\ windows' = [windows EXCEPT ![l] = NoWindow]
  /\ UNCHANGED webviews

\* Mutant: the webviews of every window are forgotten.
ForgetEveryWebview(l) ==
  /\ windows' = [windows EXCEPT ![l] = NoWindow]
  /\ webviews' = [m \in Labels |-> NoWindow]

\* AppManager::on_window_close: by label, and the webviews of the window only if it
\* was in the table.  The tables are locked one after the other, here in one step.
ForgetWindow(l) ==
  /\ windows' = [windows EXCEPT ![l] = NoWindow]
  /\ webviews' = IF windows[l] = NoWindow THEN webviews
                                         ELSE [webviews EXCEPT ![l] = NoWindow]

\* TaoWindowEvent::Destroyed: the callback comes first
Destroyed(w) ==
  /\ Alive
  /\ main = "loop"
  /\ w.id \in native
  /\ native' = native \ {w.id}
  /\ ForgetWindow(w.label)
  /\ main' = "destroyed"
  /\ dying' = w.id
  /\ closed' = closed \cup {w.id}
  /\ UNCHANGED <<store, queue, next_window_id, control, local, requests, attached,
                 late, failed, prevented>>

\* Mutant: is_empty is asked before the removal.
RemoveWindowEmptyBefore ==
  /\ main = "destroyed"
  /\ store' = {w \in store : w.id # dying}
  /\ main' = IF store = {} THEN "exit_requested" ELSE "loop"
  /\ dying' = NoWindow
  /\ UNCHANGED <<tables, queue, native, next_window_id, control, local, history>>

\* ... then the window is removed, and if it was the last the callback gets
\* ExitRequested
RemoveWindow ==
  /\ main = "destroyed"
  /\ store' = {w \in store : w.id # dying}
  /\ main' = IF store' = {} THEN "exit_requested" ELSE "loop"
  /\ dying' = NoWindow
  /\ UNCHANGED <<tables, queue, native, next_window_id, control, local, history>>

\* The callback returns, having prevented the exit or not.
ExitRequested ==
  /\ main = "exit_requested"
  /\ main' = "loop"
  /\ \/ prevented' = TRUE /\ UNCHANGED control
     \/ control' = "exit" /\ UNCHANGED prevented
  /\ UNCHANGED <<tables, store, queue, native, next_window_id, dying, local,
                 requests, attached, closed, late, failed>>

\* Event::LoopDestroyed: RunEvent::Exit, cleanup_before_exit, end of the process
LoopDestroyed ==
  /\ main = "loop"
  /\ control = "exit"
  /\ control' = "stopped"
  /\ UNCHANGED <<tables, store, queue, native, next_window_id, main, dying, local,
                 history>>

-----------------------------------------------------------------------------
Init ==
  /\ windows = [l \in Labels |-> NoWindow]
  /\ webviews = [l \in Labels |-> NoWindow]
  /\ store = {}
  /\ queue = <<>>
  /\ native = {}
  /\ next_window_id = 0
  /\ main = "loop"
  /\ dying = NoWindow
  /\ control = "run"
  /\ pc = [t \in Threads |-> "idle"]
  /\ label = [t \in Threads |-> NoWindow]
  /\ id = [t \in Threads |-> NoWindow]
  /\ requests = 0
  /\ attached = {}
  /\ closed = {}
  /\ late = {}
  /\ failed = {}
  /\ prevented = FALSE

Build(t) ==
  \/ PrepareWebview(t) \/ PrepareWindow(t) \/ CreateWindow(t) \/ AddListener(t)
  \/ InsertWindow(t) \/ InsertWebview(t) \/ FirstWebview(t)

HandleMessage ==
  \/ HandleCreate \/ HandleListen \/ HandleClose \/ HandleDestroy
  \/ HandleRequestExit

\* What the event loop does next, once it has begun.
MainStep == RemoveWindow \/ ExitRequested \/ LoopDestroyed

Next ==
  \/ \E t \in Threads : Build(t)
  \/ \E m \in Ask : AskWindow(m)
  \/ Exit
  \/ \E l \in MainLabels : BuildOnMain(l)
  \/ HandleMessage
  \/ \E w \in store : UserCloses(w) \/ Destroyed(w)
  \/ MainStep

Spec == Init /\ [][Next]_vars

\* The event loop turns: messages are handled, the window system reports what it
\* destroyed, callbacks return.
Fairness ==
  /\ WF_vars(HandleMessage)
  /\ WF_vars(\E w \in store : Destroyed(w))
  /\ WF_vars(MainStep)

FairSpec == Spec /\ Fairness

-----------------------------------------------------------------------------
(* Properties *)

\* Types of the managers' tables, of the runtime and of the builders.
TypeOK ==
  /\ windows \in [Labels -> Ids \cup {NoWindow}]
  /\ webviews \in [Labels -> Ids \cup {NoWindow}]
  /\ store \in SUBSET Wrapper
  /\ queue \in Seq(Message)
  /\ native \in SUBSET Ids
  /\ next_window_id \in 0 .. MaxWindows
  /\ main \in {"loop", "destroyed", "exit_requested"}
  /\ dying \in Ids \cup {NoWindow}
  /\ control \in {"run", "exit", "stopped"}
  /\ pc \in [Threads -> {"idle", "prepare", "create", "listen_window",
                        "insert_window", "listen_webview", "insert_webview",
                        "first", "panicked"}]
  /\ label \in [Threads -> Labels \cup {NoWindow}]
  /\ id \in [Threads -> Ids \cup {NoWindow}]
  /\ requests \in Nat
  /\ attached \in SUBSET (Kinds \X Ids)
  /\ closed \in SUBSET Ids
  /\ late \in SUBSET (Kinds \X Ids)
  /\ failed \in SUBSET Ids
  /\ prevented \in BOOLEAN

Queued(m) == \E i \in DOMAIN queue : queue[i] = m

Table(k) == IF k = "window" THEN windows ELSE webviews

\* error.rs: "Window label must be unique."  No two windows on the screen have the
\* same label, although the label is checked by a thread and taken much later.
LabelsAreUnique ==
  \A v, w \in store : v.inner /\ w.inner /\ v.label = w.label => v = w

\* A window that was attached can be found by its label, in both tables, until the
\* managers are told it is destroyed: whatever is built, refused, closed and built
\* again under other labels and the same one.
OpenWindowsAreManaged ==
  \A w \in store : \A k \in Kinds :
    w.id \notin closed /\ <<k, w.id>> \in attached => Table(k)[w.label] = w.id

\* The other way round, a table names only windows that exist, are about to, or are
\* known cases of the code filling the table without asking the main thread: the
\* creation failed, or the window was destroyed before it was attached.  Only in
\* these cases is a label taken for ever.
EntriesHaveWindows ==
  \A k \in Kinds : \A l \in Labels :
    LET i == Table(k)[l]
    IN  i # NoWindow =>
          \/ \E w \in store : w.id = i /\ w.label = l /\ i \notin closed
          \/ Queued(CreateMessage(i, l))
          \/ i \in failed
          \/ <<k, i>> \in late

\* A label changes hands through nobody: attach_window and attach_webview insert by
\* label what they checked long before, and on_window_close removes by label, yet no
\* entry is overwritten, and one is removed only for its own window's Destroyed event.
EntriesAreNotTaken ==
  [][\A k \in Kinds, l \in Labels :
       Table(k)'[l] # Table(k)[l] =>
         \/ Table(k)[l] = NoWindow
         \/ Table(k)'[l] = NoWindow /\ dying' = Table(k)[l]]_vars

\* The managers hear of the events of every window in their tables: the listener is
\* installed or on its way, and never gets there before the window does.
EventsAreHeard ==
  \A w \in store : \A k \in Kinds :
    w.inner /\ <<k, w.id>> \in attached =>
      k \in w.listeners \/ Queued(ListenMessage(w.id, k))

\* destroy cannot be prevented: the window leaves the runtime's store, unless the
\* application ends first.
DestroyTakesEffect ==
  \A i \in Ids : Queued([kind |-> "destroy", id |-> i]) ~> ~Stored(i) \/ ~Alive

\* When the last window is gone the application ends, unless it prevented an exit,
\* or opened another window in the callback.
EndsWithLastWindow ==
  closed # {} /\ store = {} ~> prevented \/ ~Alive

\* The unwrap of with_webview (window/mod.rs) panics only in a builder whose own window
\* was reported destroyed before build returned: where builders do not share labels,
\* what happens to other windows in the meantime does not matter.
PanicsOnlyIfDestroyed ==
  [][\A t \in Threads :
       pc[t] # "panicked" /\ pc'[t] = "panicked" => id[t] \in closed]_vars
=============================================================================
