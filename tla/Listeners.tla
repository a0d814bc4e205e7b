------------------------------ MODULE Listeners ------------------------------
(***************************************************************************)
(* The Rust side of the event system: crates/tauri/Source/event/listener.rs*)
(* (struct Listeners), as AppManager, App, Window and Webview use it from  *)
(* any thread.                                                             *)
(*                                                                         *)
(* The table of handlers is behind a mutex that no operation ever waits    *)
(* for: listen, unlisten and emit take it with try_lock, and when that     *)
(* fails (another thread holds it, or this very thread does because the    *)
(* operation is called from inside a handler, or a handler panicked and    *)
(* poisoned it) they push what they were asked to do on the queue          *)
(* "pending".  emit holds the mutex while it calls the handlers, and an    *)
(* emit that called at least one handler takes the whole queue afterwards  *)
(* and replays it, action by action, each again through try_lock.          *)
(*                                                                         *)
(* A thread is a program counter, the call it is executing, and a stack of *)
(* the batches of pending actions that its nested flush_pending loops still*)
(* have to replay.  What a handler does is unknown: it makes any calls of  *)
(* the same API, then returns.                                             *)
(***************************************************************************)
EXTENDS Naturals, Sequences, FiniteSets

CONSTANTS
  Threads,     \* the threads that use the event system
  Events,      \* event names
  Targets,     \* values of EventTarget
  Any,         \* EventTarget::Any
  Filters,     \* the filters passed to emit_filter, as the sets of targets
               \* they accept; no filter (None) accepts every target
  IdModulus,   \* event ids are u32: 2^32 in the program
  MaxCalls,    \* bound on the number of API calls
  Free, Poisoned,  \* states of the mutex other than "held by a thread"
  NoCall       \* a thread that is not executing any call

ASSUME ListenersAssumption ==
  /\ Any \in Targets
  /\ Filters \subseteq SUBSET Targets
  /\ Targets \in Filters
  /\ IdModulus \in Nat \ {0}
  /\ MaxCalls \in 0 .. IdModulus   \* so ids do not wrap around within a behaviour
  /\ Free \notin Threads
  /\ Poisoned \notin Threads
  /\ Free # Poisoned

VARIABLES
  handlers,       \* the entries of InnerListeners.handlers
  lock,           \* the mutex around them
  pending,        \* InnerListeners.pending
  next_event_id,  \* InnerListeners.next_event_id
  spent,          \* ids of the once-handlers whose Cell is already empty
  pc,             \* where each thread is
  call,           \* the call each thread is executing
  todo,           \* handlers the thread's emit has still to call
  running,        \* the handler the thread is inside of, at most one
  maybe_pending,  \* the local variable of emit_filter
  stack,          \* batches still to be replayed, innermost first
  calls,          \* history: number of calls made so far
  done,           \* history: the calls that took effect
  known,          \* history: ids some listen has returned
  gone,           \* history: ids that some unlisten has removed from the table
  contended       \* history: requests of handlers whose replay found the mutex
                  \* in another thread's hands

shared == <<handlers, lock, pending, next_event_id, spent>>
local == <<pc, call, todo, running, maybe_pending, stack>>
history == <<calls, done, known, gone, contended>>
vars == <<shared, local, history>>

-----------------------------------------------------------------------------
(* Data *)

Ids == 0 .. (IdModulus - 1)

\* An entry of the table: handlers[event][id] = Handler { target, callback }.
\* All that matters of a callback is whether once() made it.
Handler == [id : Ids, event : Events, target : Targets, once : BOOLEAN]

\* What a call is asked to do: enum Pending, with the filter that a call of
\* emit_filter has beside its arguments.  "asked" is history: the filter the
\* caller passed.
Listen == [kind : {"listen"}, handler : Handler]
Unlisten == [kind : {"unlisten"}, id : Ids]
Emit == [kind : {"emit"}, event : Events, filter : Filters, asked : Filters]
Action == Listen \cup Unlisten \cup Emit

\* A call, with history: its number, and whether it was made by a handler
\* while its thread held the mutex.
Call == [n : Nat, reentrant : BOOLEAN, action : Action]

UnlistenAction(i) == [kind |-> "unlisten", id |-> i]

\* match_any_or_filter
Match(target, filter) == target = Any \/ target \in filter

\* The handlers an emit calls.
Matching(a) == {h \in handlers : h.event = a.event /\ Match(h.target, a.filter)}

\* Pending::Emit holds the arguments only: the filter is not queued.
Queued(a) == IF a.kind = "emit" THEN [a EXCEPT !.filter = Targets] ELSE a

\* The API calls a program can make now: an id passed to unlisten is one that
\* listen or once returned.
Request ==
  [kind : {"listen"},
   handler : [id : {next_event_id}, event : Events, target : Targets,
              once : BOOLEAN]]
  \cup [kind : {"unlisten"}, id : known]
  \cup {a \in Emit : a.asked = a.filter}

\* Mutant: the counter is wider than the u32 ids it is cast to.
NextIdUnbounded(a) ==
  next_event_id' = IF a.kind = "listen" THEN next_event_id + 1
                                        ELSE next_event_id

\* next_event_id.fetch_add(1), called by listen before it tries the mutex
NextId(a) ==
  next_event_id' = IF a.kind = "listen" THEN (next_event_id + 1) % IdModulus
                                        ELSE next_event_id

\* listen returns the id of its handler, whether it is registered or queued.
Returned(a) ==
  known' = IF a.kind = "listen" THEN known \cup {a.handler.id} ELSE known

Goto(t, label) == pc' = [pc EXCEPT ![t] = label]

-----------------------------------------------------------------------------
(* A thread outside the event system *)

\* listen, once, unlisten, emit, emit_filter called from ordinary code.
Invoke(t) ==
  /\ pc[t] = "idle"
  /\ calls < MaxCalls
  /\ \E a \in Request :
        /\ NextId(a)
        /\ call' = [call EXCEPT ![t] =
                      [n |-> calls + 1, reentrant |-> FALSE, action |-> a]]
  /\ calls' = calls + 1
  /\ Goto(t, "try")
  /\ UNCHANGED <<handlers, lock, pending, spent, todo, running, maybe_pending,
                 stack, done, known, gone, contended>>

-----------------------------------------------------------------------------
(* listen_with_id, unlisten, emit_filter *)

\* Mutant: let _ = self.handlers.try_lock(): the guard is dropped at once.
TryLockGuardDropped(t) ==
  /\ pc[t] = "try"
  /\ lock = Free
  /\ IF call[t].action.kind = "emit"
       THEN /\ todo' = [todo EXCEPT ![t] = Matching(call[t].action)]
            /\ maybe_pending' = [maybe_pending EXCEPT ![t] = FALSE]
            /\ Goto(t, "dispatch")
       ELSE /\ Goto(t, "apply")
            /\ UNCHANGED <<todo, maybe_pending>>
  /\ UNCHANGED <<handlers, lock, pending, next_event_id, spent, call, running,
                 stack, history>>

\* handlers.try_lock() succeeds
TryLockOk(t) ==
  /\ pc[t] = "try"
  /\ lock = Free
  /\ lock' = t
  /\ IF call[t].action.kind = "emit"
       THEN /\ todo' = [todo EXCEPT ![t] = Matching(call[t].action)]
            /\ maybe_pending' = [maybe_pending EXCEPT ![t] = FALSE]
            /\ Goto(t, "dispatch")
       ELSE /\ Goto(t, "apply")
            /\ UNCHANGED <<todo, maybe_pending>>
  /\ UNCHANGED <<handlers, pending, next_event_id, spent, call, running, stack,
                 history>>

\* handlers.try_lock() fails: held by another thread, or poisoned
TryLockErr(t) ==
  /\ pc[t] = "try"
  /\ lock # Free
  /\ Goto(t, "push")
  /\ contended' = IF call[t].reentrant /\ lock \in Threads \ {t}
                    THEN contended \cup {call[t].n} ELSE contended
  /\ UNCHANGED <<shared, call, todo, running, maybe_pending, stack, calls, done,
                 known, gone>>

\* insert_pending, also of an action that is being replayed
InsertPending(t) ==
  /\ pc[t] = "push"
  /\ pending' = Append(pending,
                  [n |-> call[t].n, reentrant |-> call[t].reentrant,
                   action |-> Queued(call[t].action)])
  /\ Returned(call[t].action)
  /\ Goto(t, "return")
  /\ UNCHANGED <<handlers, lock, next_event_id, spent, call, todo, running,
                 maybe_pending, stack, calls, done, gone, contended>>

\* The bodies of listen_with_id and unlisten, under the mutex.
Update(a) ==
  IF a.kind = "listen"
    THEN handlers' =
           {h \in handlers : h.event # a.handler.event \/ h.id # a.handler.id}
             \cup {a.handler}
    ELSE handlers' = {h \in handlers : h.id # a.id}

Apply(t) ==
  /\ pc[t] = "apply"
  /\ Update(call[t].action)
  /\ lock' = Free
  /\ done' = done \cup {call[t].n}
  /\ gone' = IF call[t].action.kind = "unlisten"
               THEN gone \cup {call[t].action.id} ELSE gone
  /\ Returned(call[t].action)
  /\ Goto(t, "return")
  /\ UNCHANGED <<pending, next_event_id, spent, call, todo, running,
                 maybe_pending, stack, calls, contended>>

-----------------------------------------------------------------------------
(* The loop of emit_filter over the handlers, in the arbitrary order of a  *)
(* HashMap                                                                 *)

\* Mutant: maybe_pending is not set.
CallHandlerUnnoticed(t) ==
  /\ pc[t] = "dispatch"
  /\ \E h \in todo[t] :
        /\ ~(h.once /\ h.id \in spent)
        /\ running' = [running EXCEPT ![t] = {h}]
        /\ todo' = [todo EXCEPT ![t] = @ \ {h}]
        /\ spent' = IF h.once THEN spent \cup {h.id} ELSE spent
  /\ Goto(t, "callback")
  /\ UNCHANGED <<handlers, lock, pending, next_event_id, call, maybe_pending,
                 stack, history>>

\* (callback)(event): a plain handler, or a once-handler still in its Cell
CallHandler(t) ==
  /\ pc[t] = "dispatch"
  /\ \E h \in todo[t] :
        /\ ~(h.once /\ h.id \in spent)
        /\ running' = [running EXCEPT ![t] = {h}]
        /\ todo' = [todo EXCEPT ![t] = @ \ {h}]
        /\ spent' = IF h.once THEN spent \cup {h.id} ELSE spent
  /\ maybe_pending' = [maybe_pending EXCEPT ![t] = TRUE]
  /\ Goto(t, "callback")
  /\ UNCHANGED <<handlers, lock, pending, next_event_id, call, stack, history>>

\* handler.take().expect("attempted to call handler more than once"): the
\* panic unwinds through emit_filter and every enclosing flush_pending, and
\* poisons the mutex
Panic(t) ==
  /\ pc[t] = "dispatch"
  /\ \E h \in todo[t] : h.once /\ h.id \in spent
  /\ lock' = Poisoned
  /\ todo' = [todo EXCEPT ![t] = {}]
  /\ stack' = [stack EXCEPT ![t] = <<>>]
  /\ Goto(t, "panicked")
  /\ UNCHANGED <<handlers, pending, next_event_id, spent, call, running,
                 maybe_pending, history>>

\* A handler calls the API: its thread holds the mutex, so try_lock fails and
\* the action is queued.
CallFromHandler(t) ==
  /\ pc[t] = "callback"
  /\ calls < MaxCalls
  /\ \E a \in Request :
        /\ NextId(a)
        /\ pending' = Append(pending,
                        [n |-> calls + 1, reentrant |-> TRUE,
                         action |-> Queued(a)])
        /\ Returned(a)
  /\ calls' = calls + 1
  /\ UNCHANGED <<handlers, lock, spent, local, done, gone, contended>>

\* A handler returns; the closure that once() made then calls unlisten.
HandlerReturns(t) ==
  /\ pc[t] = "callback"
  /\ \E h \in running[t] :
        IF h.once
          THEN /\ pending' = Append(pending,
                    [n |-> calls + 1, reentrant |-> TRUE,
                     action |-> UnlistenAction(h.id)])
               /\ calls' = calls + 1
          ELSE UNCHANGED <<pending, calls>>
  /\ running' = [running EXCEPT ![t] = {}]
  /\ Goto(t, "dispatch")
  /\ UNCHANGED <<handlers, lock, next_event_id, spent, call, todo,
                 maybe_pending, stack, done, known, gone, contended>>

\* The mutex is released; if maybe_pending { self.flush_pending()? }
EndDispatch(t) ==
  /\ pc[t] = "dispatch"
  /\ todo[t] = {}
  /\ lock' = Free
  /\ done' = done \cup {call[t].n}
  /\ Goto(t, IF maybe_pending[t] THEN "flush" ELSE "return")
  /\ UNCHANGED <<handlers, pending, next_event_id, spent, call, todo, running,
                 maybe_pending, stack, calls, known, gone, contended>>

-----------------------------------------------------------------------------
(* flush_pending *)

\* Mutant: the queue is cloned, not taken.
ClonePending(t) ==
  /\ pc[t] = "flush"
  /\ stack' = [stack EXCEPT ![t] = <<pending>> \o @]
  /\ Goto(t, "return")
  /\ UNCHANGED <<shared, call, todo, running, maybe_pending, history>>

\* std::mem::take(&mut *lock)
TakePending(t) ==
  /\ pc[t] = "flush"
  /\ stack' = [stack EXCEPT ![t] = <<pending>> \o @]
  /\ pending' = <<>>
  /\ Goto(t, "return")
  /\ UNCHANGED <<handlers, lock, next_event_id, spent, call, todo, running,
                 maybe_pending, history>>

\* for action in pending { ... }: the next one
Replay(t) ==
  /\ pc[t] = "return"
  /\ stack[t] # <<>>
  /\ Head(stack[t]) # <<>>
  /\ call' = [call EXCEPT ![t] = Head(Head(stack[t]))]
  /\ stack' = [stack EXCEPT ![t] = <<Tail(Head(@))>> \o Tail(@)]
  /\ Goto(t, "try")
  /\ UNCHANGED <<shared, todo, running, maybe_pending, history>>

\* Mutant: flush_pending goes on until it finds the queue empty.
FlushUntilEmpty(t) ==
  /\ pc[t] = "return"
  /\ stack[t] # <<>>
  /\ Head(stack[t]) = <<>>
  /\ stack' = [stack EXCEPT ![t] = Tail(@)]
  /\ Goto(t, IF pending # <<>> THEN "flush" ELSE "return")
  /\ UNCHANGED <<shared, call, todo, running, maybe_pending, history>>

\* flush_pending returns, and with it the emit_filter that called it
EndFlush(t) ==
  /\ pc[t] = "return"
  /\ stack[t] # <<>>
  /\ Head(stack[t]) = <<>>
  /\ stack' = [stack EXCEPT ![t] = Tail(@)]
  /\ UNCHANGED <<shared, pc, call, todo, running, maybe_pending, history>>

\* The API call returns to the program.
Return(t) ==
  /\ pc[t] = "return"
  /\ stack[t] = <<>>
  /\ call' = [call EXCEPT ![t] = NoCall]
  /\ maybe_pending' = [maybe_pending EXCEPT ![t] = FALSE]
  /\ Goto(t, "idle")
  /\ UNCHANGED <<shared, todo, running, stack, history>>

-----------------------------------------------------------------------------
Init ==
  /\ handlers = {}
  /\ lock = Free
  /\ pending = <<>>
  /\ next_event_id = 0
  /\ spent = {}
  /\ pc = [t \in Threads |-> "idle"]
  /\ call = [t \in Threads |-> NoCall]
  /\ todo = [t \in Threads |-> {}]
  /\ running = [t \in Threads |-> {}]
  /\ maybe_pending = [t \in Threads |-> FALSE]
  /\ stack = [t \in Threads |-> <<>>]
  /\ calls = 0
  /\ done = {}
  /\ known = {}
  /\ gone = {}
  /\ contended = {}

\* The steps of a call that has been made: the code's own, and the return of
\* the handler it is in.
Progress(t) ==
  \/ TryLockOk(t) \/ TryLockErr(t) \/ InsertPending(t) \/ Apply(t)
  \/ CallHandler(t) \/ Panic(t) \/ HandlerReturns(t) \/ EndDispatch(t)
  \/ TakePending(t) \/ Replay(t) \/ EndFlush(t) \/ Return(t)

Next == \E t \in Threads : Invoke(t) \/ CallFromHandler(t) \/ Progress(t)

Spec == Init /\ [][Next]_vars

\* Threads are scheduled and handlers return.
Fairness == \A t \in Threads : WF_vars(Progress(t))

FairSpec == Spec /\ Fairness
-----------------------------------------------------------------------------
(* Properties *)

Labels == {"idle", "try", "push", "apply", "dispatch", "callback", "flush",
           "return", "panicked"}

\* Types of the state of Listeners and of the threads that use it.
TypeOK ==
  /\ handlers \in SUBSET Handler
  /\ lock \in Threads \cup {Free, Poisoned}
  /\ pending \in Seq(Call)
  /\ next_event_id \in Ids
  /\ spent \in SUBSET Ids
  /\ pc \in [Threads -> Labels]
  /\ call \in [Threads -> Call \cup {NoCall}]
  /\ todo \in [Threads -> SUBSET Handler]
  /\ running \in [Threads -> SUBSET Handler]
  /\ maybe_pending \in [Threads -> BOOLEAN]
  /\ stack \in [Threads -> Seq(Seq(Call))]
  /\ calls \in Nat
  /\ done \in SUBSET Nat
  /\ known \in SUBSET Ids
  /\ gone \in SUBSET Ids
  /\ contended \in SUBSET Nat

\* The callbacks are Send and not Sync, and emit_filter walks the table with an
\* iterator: so only the thread that holds the mutex is ever inside a handler or
\* between two of them, and no handler it has still to call has left the table,
\* whatever the other threads and the handlers themselves do meanwhile.
IterationIsStable ==
  \A t \in Threads :
    pc[t] \in {"dispatch", "callback"} =>
      /\ lock = t
      /\ todo[t] \cup running[t] \subseteq handlers

\* The thread's emit has called a handler and has not yet taken the queue.
WillFlush(t) ==
  \/ pc[t] = "flush"
  \/ pc[t] \in {"dispatch", "callback"} /\ maybe_pending[t]

\* What a handler asks for while emit holds the mutex cannot be done at once.  As
\* long as it is in the queue, some emit is going to take the queue (flush_pending
\* after the loop of emit_filter), with one exception: its replay found the mutex
\* in another thread's hands and queued it again, to stay there until an emit that
\* calls a handler comes along.  A flush never stands in its own way.  (Nothing
\* is said once the mutex is poisoned.)
ReentrantCallsGetFlushed ==
  lock # Poisoned =>
    \A i \in DOMAIN pending :
      pending[i].reentrant => \/ \E t \in Threads : WillFlush(t)
                              \/ pending[i].n \in contended

Holding(t) == pc[t] \in {"try", "push", "apply", "dispatch", "callback"}

\* In how many places call n waits: in the hands of a thread, in the queue, in a
\* batch that a flush_pending has taken.
Copies(n) ==
  Cardinality({t \in Threads : Holding(t) /\ call[t].n = n})
  + Cardinality({i \in DOMAIN pending : pending[i].n = n})
  + Cardinality(UNION {UNION {{<<t, i, j>> :
        j \in {k \in DOMAIN stack[t][i] : stack[t][i][k].n = n}} :
        i \in DOMAIN stack[t]} : t \in Threads})

\* However the try_locks, pushes, takes and nested replays of several threads
\* interleave, every call is carried out exactly once or is waiting in exactly
\* one place; only a panic may drop calls (those in the batches being replayed),
\* and even then none is carried out twice.
NothingLostOrDoubled ==
  \A n \in 1 .. calls :
    /\ Copies(n) + (IF n \in done THEN 1 ELSE 0) <= 1
    /\ lock # Poisoned => Copies(n) = 1 \/ n \in done

\* No operation waits for the mutex, so a call made from a handler or while
\* another thread is dispatching always comes back, if handlers do.
CallsReturn ==
  \A t \in Threads : pc[t] # "idle" ~> pc[t] \in {"idle", "panicked"}

\* listener.rs:158 asserts that a handler given to once() is called only once.
OnceHandlerCalledOnce == \A t \in Threads : pc[t] # "panicked"

\* event-system-spec.md: emit_to and emit_filter reach the targets they name.
FilterIsRespected ==
  \A t \in Threads : \A h \in running[t] : Match(h.target, call[t].action.asked)

\* lib.rs, Listener::unlisten: "Remove an event listener."  A listener that has
\* been removed is not registered again.
UnlistenIsFinal == \A h \in handlers : h.id \notin gone
=============================================================================
