--------------------------- MODULE ListenersProofs ---------------------------
(***************************************************************************)
(* Theorems about Listeners, for any number of threads, events, targets,   *)
(* filters and calls.                                                      *)
(*                                                                         *)
(* One inductive invariant, IInv, carries them.  It adds to the            *)
(* types that a thread inside a call really has one in hand, of the kind   *)
(* its program counter says (CallInHand), that whoever is past a           *)
(* successful try_lock is the holder of the mutex (HoldsLock), and that a  *)
(* handler's request about to be queued a second time was refused because  *)
(* of another thread (MetAnother).  On top of it, OnePlace follows one     *)
(* call from the thread that makes it through the queue and the batches of *)
(* flush_pending to where it is carried out.                               *)
(***************************************************************************)
EXTENDS Listeners, TLAPS, FiniteSetTheorems

\* A thread that is executing a call has it in hand; apply is for listen and
\* unlisten, the dispatch loop for emit.
CallInHand ==
  \A t \in Threads :
    /\ pc[t] \in {"try", "push", "apply", "dispatch", "callback"} =>
         call[t] \in Call
    /\ pc[t] = "apply" => call[t].action \in Listen \cup Unlisten

\* Mutual exclusion, and what the dispatch loop knows of the table it walks.
HoldsLock ==
  \A t \in Threads :
    /\ pc[t] \in {"apply", "dispatch", "callback"} <=> lock = t
    /\ IF pc[t] = "callback" THEN maybe_pending[t] ELSE running[t] = {}
    /\ pc[t] \in {"dispatch", "callback"} =>
         todo[t] \cup running[t] \subseteq handlers

\* A handler's request that is about to be queued again met another thread.
MetAnother ==
  lock # Poisoned =>
    \A t \in Threads :
      pc[t] = "push" /\ call[t].reentrant => call[t].n \in contended

IInv == TypeOK /\ CallInHand /\ HoldsLock /\ MetAnother /\ ReentrantCallsGetFlushed

-----------------------------------------------------------------------------
(* Facts about the operators *)

\* Queueing an action keeps it an action: an emit loses its filter and accepts
\* every target, which is one of the filters.
LEMMA QueuedIsAction == \A a \in Action : Queued(a) \in Action
<1> SUFFICES ASSUME NEW a \in Action PROVE Queued(a) \in Action
  BY Zenon
<1>1. CASE a \in Emit
  BY Zenon, <1>1, ListenersAssumption DEF Queued, Action, Emit
<1>2. CASE a \in Listen \cup Unlisten
  BY Zenon, <1>2 DEF Queued, Action, Listen, Unlisten
<1>3. QED BY Zenon, <1>1, <1>2 DEF Action

\* What a program can ask for is an action.
LEMMA RequestIsAction == TypeOK => Request \subseteq Action
<1> SUFFICES ASSUME TypeOK, NEW a \in Request PROVE a \in Action
  BY Zenon
<1>1. next_event_id \in Ids /\ known \subseteq Ids
  BY Zenon DEF TypeOK
<1>2. CASE a.kind = "listen"
  BY Zenon, <1>1, <1>2 DEF Request, Action, Listen, Handler, Emit
<1>3. CASE a.kind = "unlisten"
  BY Zenon, <1>1, <1>3 DEF Request, Action, Unlisten, Emit
<1>4. CASE a \in Emit
  BY Zenon, <1>4 DEF Action
<1>5. QED BY Zenon, <1>2, <1>3, <1>4 DEF Request

\* Event ids wrap around like the u32 they are.
LEMMA NextIdIsId ==
  ASSUME next_event_id \in Ids, NEW a, NextId(a)
  PROVE  next_event_id' \in Ids
<1>1. (next_event_id + 1) % IdModulus \in Ids
  BY ListenersAssumption DEF Ids
<1>2. QED BY Zenon, <1>1 DEF NextId

\* listen hands out the id it was given.
LEMMA ReturnedIsId ==
  ASSUME known \in SUBSET Ids, NEW a \in Action, Returned(a)
  PROVE  known' \in SUBSET Ids
<1>1. a.kind = "listen" => a \in Listen
  BY Zenon DEF Action, Listen, Unlisten, Emit
<1>2. a \in Listen => a.handler.id \in Ids
  BY Zenon DEF Listen, Handler
<1>3. QED BY Zenon, <1>1, <1>2 DEF Returned

-----------------------------------------------------------------------------
(* Types *)

\* The types of the state, with a call in hand wherever one is used, are
\* preserved by every step.
LEMMA TypeStep == TypeOK /\ CallInHand /\ [Next]_vars => TypeOK' /\ CallInHand'
<1> SUFFICES ASSUME TypeOK, CallInHand, [Next]_vars
             PROVE  TypeOK' /\ CallInHand'
  BY Zenon
<1> USE DEF Goto, Labels
<1>1. CASE UNCHANGED vars
  BY Zenon, <1>1 DEF TypeOK, CallInHand, vars, shared, local, history
<1>2. ASSUME NEW t \in Threads, Invoke(t) PROVE TypeOK' /\ CallInHand'
  <2>1. PICK a \in Request :
           /\ NextId(a)
           /\ call' = [call EXCEPT ![t] = [n |-> calls + 1, reentrant |-> FALSE,
                                           action |-> a]]
    BY Zenon, <1>2 DEF Invoke
  <2>2. [n |-> calls + 1, reentrant |-> FALSE, action |-> a] \in Call
    <3>1. a \in Action
      BY Zenon, RequestIsAction
    <3>2. calls + 1 \in Nat
      BY DEF TypeOK
    <3>3. QED BY Zenon, <3>1, <3>2 DEF Call
  <2>3. next_event_id' \in Ids
    BY Zenon, <2>1, NextIdIsId DEF TypeOK
  <2>4. TypeOK'
    <3>1. call' \in [Threads -> Call \cup {NoCall}]
      BY Zenon, <2>1, <2>2 DEF TypeOK
    <3>2. calls' \in Nat /\ pc' \in [Threads -> Labels]
      BY <1>2 DEF Invoke, TypeOK
    <3>3. QED BY Zenon, <1>2, <2>3, <3>1, <3>2 DEF Invoke, TypeOK
  <2>5. CallInHand'
    BY Zenon, <1>2, <2>1, <2>2 DEF Invoke, TypeOK, CallInHand
  <2>6. QED BY Zenon, <2>4, <2>5
<1>3. ASSUME NEW t \in Threads, TryLockOk(t) PROVE TypeOK' /\ CallInHand'
  <2>1. call[t] \in Call
    BY Zenon, <1>3 DEF TryLockOk, CallInHand
  <2>2. Matching(call[t].action) \in SUBSET Handler
    BY Zenon DEF Matching, TypeOK
  <2>3. TypeOK'
    BY ZenonT(60), <1>3, <2>2 DEF TryLockOk, TypeOK, history
  <2>4. call[t].action.kind # "emit" => call[t].action \in Listen \cup Unlisten
    BY Zenon, <2>1 DEF Call, Action, Emit
  <2>5. CallInHand'
    BY Zenon, <1>3, <2>1, <2>4 DEF TryLockOk, TypeOK, CallInHand, history
  <2>6. QED BY Zenon, <2>3, <2>5
<1>4. ASSUME NEW t \in Threads, TryLockErr(t) PROVE TypeOK' /\ CallInHand'
  <2>0. contended' \in SUBSET Nat
    <3>1. call[t] \in Call
      BY Zenon, <1>4 DEF TryLockErr, CallInHand
    <3>2. QED BY Zenon, <1>4, <3>1 DEF TryLockErr, TypeOK, Call
  <2>1. TypeOK'
    BY Zenon, <1>4, <2>0 DEF TryLockErr, TypeOK, shared
  <2>2. CallInHand'
    BY Zenon, <1>4 DEF TryLockErr, TypeOK, CallInHand, shared, history
  <2>3. QED BY Zenon, <2>1, <2>2
<1>5. ASSUME NEW t \in Threads, InsertPending(t) PROVE TypeOK' /\ CallInHand'
  <2> DEFINE c == [n |-> call[t].n, reentrant |-> call[t].reentrant,
                   action |-> Queued(call[t].action)]
  <2>1. call[t] \in Call
    BY Zenon, <1>5 DEF InsertPending, CallInHand
  <2>2. c \in Call
    BY Zenon, <2>1, QueuedIsAction DEF Call
  <2>3. known' \in SUBSET Ids
    BY Zenon, <1>5, <2>1, ReturnedIsId DEF InsertPending, Call, TypeOK
  <2>4. pending' \in Seq(Call)
    BY <1>5, <2>2 DEF InsertPending, TypeOK
  <2>5. TypeOK'
    BY Zenon, <1>5, <2>3, <2>4 DEF InsertPending, TypeOK
  <2>6. CallInHand'
    BY Zenon, <1>5 DEF InsertPending, TypeOK, CallInHand
  <2>7. QED BY Zenon, <2>5, <2>6
<1>6. ASSUME NEW t \in Threads, Apply(t) PROVE TypeOK' /\ CallInHand'
  <2>1. call[t] \in Call /\ call[t].action \in Listen \cup Unlisten
    BY Zenon, <1>6 DEF Apply, CallInHand
  <2>2. handlers' \in SUBSET Handler
    BY Zenon, <1>6, <2>1 DEF Apply, Update, TypeOK, Listen, Unlisten
  <2>3. known' \in SUBSET Ids
    BY Zenon, <1>6, <2>1, ReturnedIsId DEF Apply, Call, TypeOK
  <2>4. gone' \in SUBSET Ids
    BY Zenon, <1>6, <2>1 DEF Apply, TypeOK, Listen, Unlisten
  <2>5. done' \in SUBSET Nat
    BY Zenon, <1>6, <2>1 DEF Apply, TypeOK, Call
  <2>6. TypeOK'
    BY Zenon, <1>6, <2>2, <2>3, <2>4, <2>5 DEF Apply, TypeOK
  <2>7. CallInHand'
    BY Zenon, <1>6 DEF Apply, TypeOK, CallInHand
  <2>8. QED BY Zenon, <2>6, <2>7
<1>7. ASSUME NEW t \in Threads, CallHandler(t) PROVE TypeOK' /\ CallInHand'
  <2>1. PICK h \in todo[t] :
           /\ running' = [running EXCEPT ![t] = {h}]
           /\ todo' = [todo EXCEPT ![t] = @ \ {h}]
           /\ spent' = IF h.once THEN spent \cup {h.id} ELSE spent
    BY Zenon, <1>7 DEF CallHandler
  <2>2. h \in Handler /\ h.id \in Ids
    BY <2>1 DEF TypeOK, Handler
  <2>3. TypeOK'
    BY <1>7, <2>1, <2>2 DEF CallHandler, TypeOK, history
  <2>4. CallInHand'
    BY Zenon, <1>7 DEF CallHandler, TypeOK, CallInHand
  <2>5. QED BY Zenon, <2>3, <2>4
<1>8. ASSUME NEW t \in Threads, Panic(t) PROVE TypeOK' /\ CallInHand'
  <2>1. TypeOK'
    BY <1>8 DEF Panic, TypeOK, history
  <2>2. CallInHand'
    BY Zenon, <1>8 DEF Panic, TypeOK, CallInHand
  <2>3. QED BY Zenon, <2>1, <2>2
<1>9. ASSUME NEW t \in Threads, CallFromHandler(t) PROVE TypeOK' /\ CallInHand'
  <2>1. PICK a \in Request :
           /\ NextId(a)
           /\ pending' = Append(pending, [n |-> calls + 1, reentrant |-> TRUE,
                                          action |-> Queued(a)])
           /\ Returned(a)
    BY Zenon, <1>9 DEF CallFromHandler
  <2>2. a \in Action
    BY Zenon, RequestIsAction
  <2>3. [n |-> calls + 1, reentrant |-> TRUE, action |-> Queued(a)] \in Call
    BY <2>2, QueuedIsAction DEF Call, TypeOK
  <2>4. next_event_id' \in Ids
    BY Zenon, <2>1, NextIdIsId DEF TypeOK
  <2>5. known' \in SUBSET Ids
    BY Zenon, <2>1, <2>2, ReturnedIsId DEF TypeOK
  <2>6. pending' \in Seq(Call)
    BY <2>1, <2>3 DEF TypeOK
  <2>7. TypeOK'
    BY <1>9, <2>4, <2>5, <2>6 DEF CallFromHandler, TypeOK, local
  <2>8. CallInHand'
    BY Zenon, <1>9 DEF CallFromHandler, CallInHand, local
  <2>9. QED BY Zenon, <2>7, <2>8
<1>10. ASSUME NEW t \in Threads, HandlerReturns(t) PROVE TypeOK' /\ CallInHand'
  <2>1. PICK h \in running[t] :
           IF h.once
             THEN /\ pending' = Append(pending,
                        [n |-> calls + 1, reentrant |-> TRUE,
                         action |-> UnlistenAction(h.id)])
                  /\ calls' = calls + 1
             ELSE UNCHANGED <<pending, calls>>
    BY Zenon, <1>10 DEF HandlerReturns
  <2>2. h \in Handler
    BY Zenon, <2>1 DEF TypeOK
  <2>3. UnlistenAction(h.id) \in Action
    BY Zenon, <2>2 DEF Handler, UnlistenAction, Action, Unlisten
  <2>4. [n |-> calls + 1, reentrant |-> TRUE, action |-> UnlistenAction(h.id)]
          \in Call
    BY <2>3 DEF Call, TypeOK
  <2>5. pending' \in Seq(Call) /\ calls' \in Nat
    <3>1. CASE h.once
      <4>1. pending' = Append(pending, [n |-> calls + 1, reentrant |-> TRUE,
                                        action |-> UnlistenAction(h.id)])
        BY Zenon, <2>1, <3>1
      <4>2. calls' = calls + 1
        BY Zenon, <2>1, <3>1
      <4>3. QED BY <2>4, <4>1, <4>2 DEF TypeOK
    <3>2. CASE ~h.once
      BY Zenon, <2>1, <3>2 DEF TypeOK
    <3>3. QED BY Zenon, <3>1, <3>2
  <2>6. TypeOK'
    <3>1. running' \in [Threads -> SUBSET Handler] /\ pc' \in [Threads -> Labels]
      BY Zenon, <1>10 DEF HandlerReturns, TypeOK
    <3>2. UNCHANGED <<handlers, lock, next_event_id, spent, call, todo,
                      maybe_pending, stack, done, known, gone, contended>>
      BY Zenon, <1>10 DEF HandlerReturns
    <3>3. QED BY Zenon, <2>5, <3>1, <3>2 DEF TypeOK
  <2>7. CallInHand'
    BY Zenon, <1>10 DEF HandlerReturns, TypeOK, CallInHand
  <2>8. QED BY Zenon, <2>6, <2>7
<1>11. ASSUME NEW t \in Threads, EndDispatch(t) PROVE TypeOK' /\ CallInHand'
  <2>1. call[t] \in Call
    BY Zenon, <1>11 DEF EndDispatch, CallInHand
  <2>2. done' \in SUBSET Nat
    BY Zenon, <1>11, <2>1 DEF EndDispatch, TypeOK, Call
  <2>3. TypeOK'
    BY Zenon, <1>11, <2>2 DEF EndDispatch, TypeOK
  <2>4. CallInHand'
    BY Zenon, <1>11 DEF EndDispatch, TypeOK, CallInHand
  <2>5. QED BY Zenon, <2>3, <2>4
<1>12. ASSUME NEW t \in Threads, TakePending(t) PROVE TypeOK' /\ CallInHand'
  <2>1. <<pending>> \o stack[t] \in Seq(Seq(Call))
    BY DEF TypeOK
  <2>2. <<>> \in Seq(Call)
    OBVIOUS
  <2>3. TypeOK'
    BY Zenon, <1>12, <2>1, <2>2 DEF TakePending, TypeOK, history
  <2>4. CallInHand'
    BY Zenon, <1>12 DEF TakePending, TypeOK, CallInHand
  <2>5. QED BY Zenon, <2>3, <2>4
<1>13. ASSUME NEW t \in Threads, Replay(t) PROVE TypeOK' /\ CallInHand'
  <2>1. stack[t] \in Seq(Seq(Call)) /\ stack[t] # <<>>
    BY Zenon, <1>13 DEF Replay, TypeOK
  <2>2. Head(stack[t]) \in Seq(Call) /\ Tail(stack[t]) \in Seq(Seq(Call))
    BY <2>1
  <2>3. Head(Head(stack[t])) \in Call /\ Tail(Head(stack[t])) \in Seq(Call)
    BY <1>13, <2>2 DEF Replay
  <2>4. <<Tail(Head(stack[t]))>> \o Tail(stack[t]) \in Seq(Seq(Call))
    BY <2>2, <2>3
  <2>5. TypeOK'
    BY Zenon, <1>13, <2>3, <2>4 DEF Replay, TypeOK, shared, history
  <2>6. CallInHand'
    BY Zenon, <1>13, <2>3 DEF Replay, TypeOK, CallInHand
  <2>7. QED BY Zenon, <2>5, <2>6
<1>14. ASSUME NEW t \in Threads, EndFlush(t) PROVE TypeOK' /\ CallInHand'
  <2>1. Tail(stack[t]) \in Seq(Seq(Call))
    BY <1>14 DEF EndFlush, TypeOK
  <2>2. TypeOK'
    BY Zenon, <1>14, <2>1 DEF EndFlush, TypeOK, shared, history
  <2>3. CallInHand'
    BY Zenon, <1>14 DEF EndFlush, CallInHand
  <2>4. QED BY Zenon, <2>2, <2>3
<1>15. ASSUME NEW t \in Threads, Return(t) PROVE TypeOK' /\ CallInHand'
  <2>1. TypeOK'
    BY Zenon, <1>15 DEF Return, TypeOK, shared, history
  <2>2. CallInHand'
    BY Zenon, <1>15 DEF Return, TypeOK, CallInHand
  <2>3. QED BY Zenon, <2>1, <2>2
<1>16. QED
  BY ZenonT(30), <1>1, <1>2, <1>3, <1>4, <1>5, <1>6, <1>7, <1>8, <1>9, <1>10, <1>11, <1>12,
     <1>13, <1>14, <1>15 DEF Next, Progress

-----------------------------------------------------------------------------
(* The mutex *)

\* Only the holder of the mutex changes the table or is inside the dispatch
\* loop, and it keeps the mutex until it leaves.
LEMMA LockStep ==
  TypeOK /\ CallInHand /\ HoldsLock /\ [Next]_vars => HoldsLock'
<1> SUFFICES ASSUME TypeOK, CallInHand, HoldsLock, [Next]_vars
             PROVE  HoldsLock'
  BY Zenon
<1> USE DEF Goto
<1>1. CASE UNCHANGED vars
  BY Zenon, <1>1 DEF HoldsLock, vars, shared, local, history
<1>2. ASSUME NEW t \in Threads, Invoke(t) PROVE HoldsLock'
  BY ZenonT(40), <1>2 DEF Invoke, TypeOK, HoldsLock
<1>3. ASSUME NEW t \in Threads, TryLockOk(t) PROVE HoldsLock'
  <2>1. \A u \in Threads : pc[u] \notin {"apply", "dispatch", "callback"}
    BY Zenon, <1>3, ListenersAssumption DEF TryLockOk, HoldsLock
  <2>2. pc'[t] \in {"apply", "dispatch"} /\ lock' = t
    BY Zenon, <1>3 DEF TryLockOk, TypeOK
  <2>3. pc'[t] = "dispatch" => todo'[t] \cup running'[t] \subseteq handlers'
    <3>1. running'[t] = {} /\ handlers' = handlers
      BY Zenon, <1>3 DEF TryLockOk, HoldsLock
    <3>2. CASE call[t].action.kind = "emit"
      <4>1. todo'[t] = Matching(call[t].action)
        BY Zenon, <1>3, <3>2 DEF TryLockOk, TypeOK
      <4>2. QED BY Zenon, <3>1, <4>1 DEF Matching
    <3>3. CASE call[t].action.kind # "emit"
      BY Zenon, <1>3, <3>3 DEF TryLockOk, TypeOK
    <3>4. QED BY Zenon, <3>2, <3>3
  <2>4. QED BY <1>3, <2>1, <2>2, <2>3 DEF TryLockOk, TypeOK, HoldsLock
<1>4. ASSUME NEW t \in Threads, TryLockErr(t) PROVE HoldsLock'
  BY Zenon, <1>4 DEF TryLockErr, TypeOK, HoldsLock, shared
<1>5. ASSUME NEW t \in Threads, InsertPending(t) PROVE HoldsLock'
  BY Zenon, <1>5 DEF InsertPending, TypeOK, HoldsLock
<1>6. ASSUME NEW t \in Threads, Apply(t) PROVE HoldsLock'
  <2>1. lock = t
    BY Zenon, <1>6 DEF Apply, HoldsLock
  <2>2. \A u \in Threads \ {t} : pc[u] \notin {"apply", "dispatch", "callback"}
    BY Zenon, <2>1 DEF HoldsLock
  <2>3. lock' \notin Threads /\ pc'[t] \notin {"apply", "dispatch", "callback"}
    BY Zenon, <1>6, ListenersAssumption DEF Apply, TypeOK
  <2>4. QED BY Zenon, <1>6, <2>2, <2>3 DEF Apply, TypeOK, HoldsLock
<1>7. ASSUME NEW t \in Threads, CallHandler(t) PROVE HoldsLock'
  BY <1>7 DEF CallHandler, TypeOK, HoldsLock
<1>8. ASSUME NEW t \in Threads, Panic(t) PROVE HoldsLock'
  <2>1. lock = t
    BY Zenon, <1>8 DEF Panic, HoldsLock
  <2>2. \A u \in Threads \ {t} : pc[u] \notin {"apply", "dispatch", "callback"}
    BY Zenon, <2>1 DEF HoldsLock
  <2>3. lock' \notin Threads /\ pc'[t] \notin {"apply", "dispatch", "callback"}
    BY Zenon, <1>8, ListenersAssumption DEF Panic, TypeOK
  <2>4. QED BY Zenon, <1>8, <2>2, <2>3 DEF Panic, TypeOK, HoldsLock
<1>9. ASSUME NEW t \in Threads, CallFromHandler(t) PROVE HoldsLock'
  BY Zenon, <1>9 DEF CallFromHandler, HoldsLock, local
<1>10. ASSUME NEW t \in Threads, HandlerReturns(t) PROVE HoldsLock'
  BY Zenon, <1>10 DEF HandlerReturns, TypeOK, HoldsLock
<1>11. ASSUME NEW t \in Threads, EndDispatch(t) PROVE HoldsLock'
  <2>1. lock = t
    BY Zenon, <1>11 DEF EndDispatch, HoldsLock
  <2>2. \A u \in Threads \ {t} : pc[u] \notin {"apply", "dispatch", "callback"}
    BY Zenon, <2>1 DEF HoldsLock
  <2>3. lock' \notin Threads /\ pc'[t] \notin {"apply", "dispatch", "callback"}
    BY Zenon, <1>11, ListenersAssumption DEF EndDispatch, TypeOK
  <2>4. QED BY Zenon, <1>11, <2>2, <2>3 DEF EndDispatch, TypeOK, HoldsLock
<1>12. ASSUME NEW t \in Threads, TakePending(t) PROVE HoldsLock'
  BY Zenon, <1>12 DEF TakePending, TypeOK, HoldsLock
<1>13. ASSUME NEW t \in Threads, Replay(t) PROVE HoldsLock'
  BY ZenonT(30), <1>13 DEF Replay, TypeOK, HoldsLock, shared
<1>14. ASSUME NEW t \in Threads, EndFlush(t) PROVE HoldsLock'
  BY Zenon, <1>14 DEF EndFlush, TypeOK, HoldsLock, shared
<1>15. ASSUME NEW t \in Threads, Return(t) PROVE HoldsLock'
  BY ZenonT(30), <1>15 DEF Return, TypeOK, HoldsLock, shared
<1>16. QED
  BY ZenonT(30), <1>1, <1>2, <1>3, <1>4, <1>5, <1>6, <1>7, <1>8, <1>9, <1>10, <1>11, <1>12,
     <1>13, <1>14, <1>15 DEF Next, Progress

-----------------------------------------------------------------------------
(* Refused replays *)

\* try_lock refuses the replay of a handler's request only because of another
\* thread: the one that replays it has released the mutex.
LEMMA RefusedStep == IInv /\ [Next]_vars => MetAnother'
<1> SUFFICES ASSUME TypeOK, CallInHand, HoldsLock, MetAnother, [Next]_vars
             PROVE  MetAnother'
  BY Zenon DEF IInv
<1> USE DEF Goto
<1>0. ASSUME contended' = contended,
             lock = Poisoned => lock' = Poisoned,
             \A u \in Threads : pc'[u] = "push" => pc[u] = "push" /\ call'[u] = call[u]
      PROVE  MetAnother'
  BY Zenon, <1>0 DEF MetAnother
<1>1. CASE UNCHANGED vars
  BY Zenon, <1>1 DEF MetAnother, vars, shared, local, history
<1>2. ASSUME NEW t \in Threads, Invoke(t) PROVE MetAnother'
  <2>1. \A u \in Threads : pc'[u] = "push" => pc[u] = "push" /\ call'[u] = call[u]
    BY Zenon, <1>2 DEF Invoke, TypeOK
  <2>2. QED BY Zenon, <1>0, <1>2, <2>1 DEF Invoke
<1>3. ASSUME NEW t \in Threads, TryLockOk(t) PROVE MetAnother'
  <2>1. \A u \in Threads : pc'[u] = "push" => pc[u] = "push" /\ call'[u] = call[u]
    BY Zenon, <1>3 DEF TryLockOk, TypeOK
  <2>2. lock # Poisoned /\ contended' = contended
    BY Zenon, <1>3, ListenersAssumption DEF TryLockOk, history
  <2>3. QED BY Zenon, <1>0, <2>1, <2>2
<1>4. ASSUME NEW t \in Threads, TryLockErr(t) PROVE MetAnother'
  <2>1. call' = call /\ lock' = lock /\ contended \subseteq contended'
    BY Zenon, <1>4 DEF TryLockErr, shared
  <2>2. \A u \in Threads \ {t} : pc'[u] = pc[u]
    BY Zenon, <1>4 DEF TryLockErr, TypeOK
  <2>3. ASSUME lock # Poisoned, call[t].reentrant PROVE call[t].n \in contended'
    <3>1. lock # t
      BY Zenon, <1>4, <2>3 DEF TryLockErr, HoldsLock
    <3>2. lock \in Threads \ {t}
      BY Zenon, <1>4, <2>3, <3>1 DEF TryLockErr, TypeOK
    <3>3. QED BY Zenon, <1>4, <2>3, <3>2 DEF TryLockErr
  <2>4. QED BY Zenon, <2>1, <2>2, <2>3 DEF MetAnother
<1>5. ASSUME NEW t \in Threads, InsertPending(t) PROVE MetAnother'
  <2>1. \A u \in Threads : pc'[u] = "push" => pc[u] = "push" /\ call'[u] = call[u]
    BY Zenon, <1>5 DEF InsertPending, TypeOK
  <2>2. QED BY Zenon, <1>0, <1>5, <2>1 DEF InsertPending
<1>6. ASSUME NEW t \in Threads, Apply(t) PROVE MetAnother'
  <2>1. \A u \in Threads : pc'[u] = "push" => pc[u] = "push" /\ call'[u] = call[u]
    BY Zenon, <1>6 DEF Apply, TypeOK
  <2>2. lock # Poisoned /\ contended' = contended
    BY Zenon, <1>6, ListenersAssumption DEF Apply, HoldsLock
  <2>3. QED BY Zenon, <1>0, <2>1, <2>2
<1>7. ASSUME NEW t \in Threads, CallHandler(t) PROVE MetAnother'
  <2>1. \A u \in Threads : pc'[u] = "push" => pc[u] = "push" /\ call'[u] = call[u]
    BY Zenon, <1>7 DEF CallHandler, TypeOK
  <2>2. QED BY Zenon, <1>0, <1>7, <2>1 DEF CallHandler, history
<1>8. ASSUME NEW t \in Threads, Panic(t) PROVE MetAnother'
  BY Zenon, <1>8 DEF Panic, MetAnother
<1>9. ASSUME NEW t \in Threads, CallFromHandler(t) PROVE MetAnother'
  BY Zenon, <1>0, <1>9 DEF CallFromHandler, local
<1>10. ASSUME NEW t \in Threads, HandlerReturns(t) PROVE MetAnother'
  <2>1. \A u \in Threads : pc'[u] = "push" => pc[u] = "push" /\ call'[u] = call[u]
    BY Zenon, <1>10 DEF HandlerReturns, TypeOK
  <2>2. QED BY Zenon, <1>0, <1>10, <2>1 DEF HandlerReturns
<1>11. ASSUME NEW t \in Threads, EndDispatch(t) PROVE MetAnother'
  <2>1. \A u \in Threads : pc'[u] = "push" => pc[u] = "push" /\ call'[u] = call[u]
    BY Zenon, <1>11 DEF EndDispatch, TypeOK
  <2>2. lock # Poisoned /\ contended' = contended
    BY Zenon, <1>11, ListenersAssumption DEF EndDispatch, HoldsLock
  <2>3. QED BY Zenon, <1>0, <2>1, <2>2
<1>12. ASSUME NEW t \in Threads, TakePending(t) \/ Replay(t) \/ EndFlush(t) \/ Return(t)
       PROVE  MetAnother'
  <2>1. \A u \in Threads : pc'[u] = "push" => pc[u] = "push" /\ call'[u] = call[u]
    BY Zenon, <1>12 DEF TakePending, Replay, EndFlush, Return, TypeOK
  <2>2. lock' = lock /\ contended' = contended
    BY Zenon, <1>12 DEF TakePending, Replay, EndFlush, Return, shared, history
  <2>3. QED BY Zenon, <1>0, <2>1, <2>2
<1>13. QED
  BY Zenon, <1>1, <1>2, <1>3, <1>4, <1>5, <1>6, <1>7, <1>8, <1>9, <1>10, <1>11, <1>12
     DEF Next, Progress

-----------------------------------------------------------------------------
(* The queue *)

\* A call that a handler made stays in the queue only while an emit is on its way
\* to take it, or after another thread kept it from being replayed.
LEMMA QueueStep ==
  IInv /\ [Next]_vars => ReentrantCallsGetFlushed'
<1> SUFFICES ASSUME TypeOK, CallInHand, HoldsLock, MetAnother, ReentrantCallsGetFlushed,
                    [Next]_vars
             PROVE  ReentrantCallsGetFlushed'
  BY Zenon DEF IInv
<1> USE DEF Goto
<1>0. ASSUME pending' = pending,
             contended \subseteq contended',
             lock = Poisoned => lock' = Poisoned,
             \A u \in Threads : WillFlush(u) => WillFlush(u)'
      PROVE  ReentrantCallsGetFlushed'
  BY Zenon, <1>0 DEF ReentrantCallsGetFlushed
<1>1. CASE UNCHANGED vars
  BY Zenon, <1>1 DEF ReentrantCallsGetFlushed, WillFlush, vars, shared, local, history
<1>2. ASSUME NEW t \in Threads, Invoke(t) PROVE ReentrantCallsGetFlushed'
  <2>1. \A u \in Threads : WillFlush(u) => WillFlush(u)'
    BY Zenon, <1>2 DEF Invoke, TypeOK, WillFlush
  <2>2. QED BY Zenon, <1>0, <1>2, <2>1 DEF Invoke
<1>3. ASSUME NEW t \in Threads, TryLockOk(t) PROVE ReentrantCallsGetFlushed'
  <2>1. \A u \in Threads : WillFlush(u) => WillFlush(u)'
    BY Zenon, <1>3 DEF TryLockOk, TypeOK, WillFlush
  <2>2. lock # Poisoned /\ lock' # Poisoned /\ pending' = pending
        /\ contended' = contended
    BY Zenon, <1>3, ListenersAssumption DEF TryLockOk, history
  <2>3. QED BY Zenon, <1>0, <2>1, <2>2
<1>4. ASSUME NEW t \in Threads, TryLockErr(t) PROVE ReentrantCallsGetFlushed'
  <2>1. \A u \in Threads : WillFlush(u) => WillFlush(u)'
    BY Zenon, <1>4 DEF TryLockErr, TypeOK, WillFlush
  <2>2. contended \subseteq contended'
    BY Zenon, <1>4 DEF TryLockErr
  <2>3. QED BY Zenon, <1>0, <1>4, <2>1, <2>2 DEF TryLockErr, shared
<1>5. ASSUME NEW t \in Threads, InsertPending(t) PROVE ReentrantCallsGetFlushed'
  <2>1. \A u \in Threads : WillFlush(u) => WillFlush(u)'
    BY Zenon, <1>5 DEF InsertPending, TypeOK, WillFlush
  <2>2. PICK c : /\ c.n = call[t].n /\ c.reentrant = call[t].reentrant
                 /\ pending' = Append(pending, c)
    BY Zenon, <1>5 DEF InsertPending
  <2>3. \A i \in DOMAIN pending' :
          (i \in DOMAIN pending /\ pending'[i] = pending[i]) \/ pending'[i] = c
    BY <2>2 DEF TypeOK
  <2>4. lock' = lock /\ contended' = contended
    BY Zenon, <1>5 DEF InsertPending
  <2>5. lock # Poisoned /\ c.reentrant => c.n \in contended
    BY Zenon, <1>5, <2>2 DEF InsertPending, MetAnother
  <2>6. QED BY Zenon, <2>1, <2>3, <2>4, <2>5 DEF ReentrantCallsGetFlushed
<1>6. ASSUME NEW t \in Threads, Apply(t) PROVE ReentrantCallsGetFlushed'
  <2>1. \A u \in Threads : WillFlush(u) => WillFlush(u)'
    BY Zenon, <1>6 DEF Apply, TypeOK, WillFlush
  <2>2. lock # Poisoned /\ lock' # Poisoned /\ pending' = pending
        /\ contended' = contended
    BY Zenon, <1>6, ListenersAssumption DEF Apply, HoldsLock
  <2>3. QED BY Zenon, <1>0, <2>1, <2>2
<1>7. ASSUME NEW t \in Threads, CallHandler(t) PROVE ReentrantCallsGetFlushed'
  <2>1. \A u \in Threads : WillFlush(u) => WillFlush(u)'
    BY Zenon, <1>7 DEF CallHandler, TypeOK, WillFlush
  <2>2. QED BY Zenon, <1>0, <1>7, <2>1 DEF CallHandler, history
<1>8. ASSUME NEW t \in Threads, Panic(t) PROVE ReentrantCallsGetFlushed'
  BY Zenon, <1>8 DEF Panic, ReentrantCallsGetFlushed
<1>9. ASSUME NEW t \in Threads, CallFromHandler(t) PROVE ReentrantCallsGetFlushed'
  <2>1. WillFlush(t)'
    BY Zenon, <1>9 DEF CallFromHandler, HoldsLock, WillFlush, local
  <2>2. QED BY Zenon, <2>1 DEF ReentrantCallsGetFlushed
<1>10. ASSUME NEW t \in Threads, HandlerReturns(t) PROVE ReentrantCallsGetFlushed'
  <2>1. WillFlush(t)'
    BY Zenon, <1>10 DEF HandlerReturns, HoldsLock, WillFlush, TypeOK
  <2>2. QED BY Zenon, <2>1 DEF ReentrantCallsGetFlushed
<1>11. ASSUME NEW t \in Threads, EndDispatch(t) PROVE ReentrantCallsGetFlushed'
  <2>1. \A u \in Threads : WillFlush(u) => WillFlush(u)'
    BY Zenon, <1>11 DEF EndDispatch, TypeOK, WillFlush
  <2>2. lock # Poisoned /\ lock' # Poisoned /\ pending' = pending
        /\ contended' = contended
    BY Zenon, <1>11, ListenersAssumption DEF EndDispatch, HoldsLock
  <2>3. QED BY Zenon, <1>0, <2>1, <2>2
<1>12. ASSUME NEW t \in Threads, TakePending(t) PROVE ReentrantCallsGetFlushed'
  BY <1>12 DEF TakePending, ReentrantCallsGetFlushed
<1>13. ASSUME NEW t \in Threads, Replay(t) PROVE ReentrantCallsGetFlushed'
  <2>1. \A u \in Threads : WillFlush(u) => WillFlush(u)'
    BY Zenon, <1>13 DEF Replay, TypeOK, WillFlush
  <2>2. QED BY Zenon, <1>0, <1>13, <2>1 DEF Replay, shared, history
<1>14. ASSUME NEW t \in Threads, EndFlush(t) PROVE ReentrantCallsGetFlushed'
  <2>1. \A u \in Threads : WillFlush(u) => WillFlush(u)'
    BY Zenon, <1>14 DEF EndFlush, TypeOK, WillFlush
  <2>2. QED BY Zenon, <1>0, <1>14, <2>1 DEF EndFlush, shared, history
<1>15. ASSUME NEW t \in Threads, Return(t) PROVE ReentrantCallsGetFlushed'
  <2>1. \A u \in Threads : WillFlush(u) => WillFlush(u)'
    BY Zenon, <1>15 DEF Return, TypeOK, WillFlush
  <2>2. QED BY Zenon, <1>0, <1>15, <2>1 DEF Return, shared, history
<1>16. QED
  BY Zenon, <1>1, <1>2, <1>3, <1>4, <1>5, <1>6, <1>7, <1>8, <1>9, <1>10, <1>11, <1>12,
     <1>13, <1>14, <1>15 DEF Next, Progress

-----------------------------------------------------------------------------
(* Theorems *)

\* Listeners::default: the table and the queue are empty, no thread is in a call.
LEMMA InitIInv == Init => IInv
<1> SUFFICES ASSUME Init PROVE IInv
  BY Zenon
<1>1. TypeOK
  BY ListenersAssumption DEF Init, TypeOK, Ids, Labels
<1>2. CallInHand /\ HoldsLock /\ MetAnother /\ ReentrantCallsGetFlushed
  BY ListenersAssumption
     DEF Init, CallInHand, HoldsLock, MetAnother, ReentrantCallsGetFlushed
<1>3. QED BY Zenon, <1>1, <1>2 DEF IInv

\* IInv is inductive.
THEOREM Inductive == Spec => []IInv
<1>1. IInv /\ [Next]_vars => IInv'
  BY Zenon, TypeStep, LockStep, RefusedStep, QueueStep DEF IInv
<1>2. QED BY InitIInv, <1>1, PTL DEF Spec

\* The state of the event system is always of its type: ids stay within u32, what
\* is queued or replayed is a call with an action.
THEOREM TypeCorrect == Spec => []TypeOK
BY Inductive, PTL DEF IInv

\* Whatever threads and handlers do, the dispatch loop of emit_filter owns the
\* table it walks, and no handler it has still to call has left that table.
THEOREM DispatchOwnsTable == Spec => []IterationIsStable
<1>1. IInv => IterationIsStable
  BY Zenon DEF IInv, HoldsLock, IterationIsStable
<1>2. QED BY Inductive, <1>1, PTL

\* Unless a panic has poisoned the mutex, what a handler asked for is in the queue
\* only while an emit that will flush it is under way, or because its replay in
\* flush_pending met the mutex in another thread's hands: the one case in which
\* insert_pending leaves it behind.
THEOREM NoReentrantCallStranded == Spec => []ReentrantCallsGetFlushed
BY Inductive, PTL DEF IInv

-----------------------------------------------------------------------------
\* The places of a call

\* Call n is in the hands of thread t; the i-th of the queue; the j-th of the i-th
\* batch that the thread's flush_pending loops have still to replay.
InHand(n, t) == Holding(t) /\ call[t].n = n
InQueue(n, i) == i \in DOMAIN pending /\ pending[i].n = n
InBatch(n, t, i, j) ==
  i \in DOMAIN stack[t] /\ j \in DOMAIN stack[t][i] /\ stack[t][i][j].n = n

Hand(n) == \E t \in Threads : InHand(n, t)
Queue(n) == \E i : InQueue(n, i)
Batch(n) == \E t \in Threads : \E i, j : InBatch(n, t, i, j)

\* Call n waits in at most one place, in none before it is made and after it was
\* carried out, and in one in between unless a handler panicked.
OnePlace(n) ==
  /\ \A t, u \in Threads : InHand(n, t) /\ InHand(n, u) => t = u
  /\ \A i, j : InQueue(n, i) /\ InQueue(n, j) => i = j
  /\ \A t, u \in Threads : \A i, j, k, l :
       InBatch(n, t, i, j) /\ InBatch(n, u, k, l) => t = u /\ i = k /\ j = l
  /\ Hand(n) => ~Queue(n) /\ ~Batch(n)
  /\ Queue(n) => ~Batch(n)
  /\ Hand(n) \/ Queue(n) \/ Batch(n) => n <= calls /\ n \notin done
  /\ n \in done => n <= calls
  /\ n \in 1 .. calls /\ lock # Poisoned =>
       Hand(n) \/ Queue(n) \/ Batch(n) \/ n \in done

\* What Vec's drain leaves behind the element it hands out: every other element,
\* one place further to the front.
LEMMA TailShift ==
  ASSUME NEW S, NEW s \in Seq(S), s # <<>>
  PROVE  /\ \A i \in DOMAIN Tail(s) : /\ i \in Nat /\ i + 1 # 1 /\ i + 1 \in DOMAIN s
                                      /\ Tail(s)[i] = s[i + 1]
         /\ \A i \in DOMAIN s : i # 1 => /\ i - 1 \in DOMAIN Tail(s)
                                         /\ Tail(s)[i - 1] = s[i]
OBVIOUS

\* The same with the first element replaced.
LEMMA HeadReplaced ==
  ASSUME NEW S, NEW s \in Seq(S), s # <<>>, NEW x \in S, NEW r, r = <<x>> \o Tail(s)
  PROVE  /\ DOMAIN r = DOMAIN s /\ r[1] = x
         /\ \A i \in DOMAIN s : i # 1 => r[i] = s[i]
<1>1. Len(s) \in Nat /\ Len(s) # 0 /\ Tail(s) \in Seq(S) /\ Len(Tail(s)) = Len(s) - 1
  OBVIOUS
<1>2. r \in Seq(S) /\ Len(r) = Len(s) /\ r[1] = x
  BY <1>1
<1>3. ASSUME NEW i \in DOMAIN s, i # 1 PROVE r[i] = s[i]
  <2>1. i \in 2 .. Len(s)
    BY <1>1, <1>3
  <2>2. r[i] = Tail(s)[i - 1]
    BY <1>1, <2>1
  <2>3. QED BY <1>1, <2>1, <2>2
<1>4. QED BY <1>1, <1>2, <1>3

\* Steps that move no call: what OnePlace says of call n stays true.
LEMMA PlaceKept ==
  ASSUME NEW n, OnePlace(n), UNCHANGED <<calls, done>>,
         lock = Poisoned => lock' = Poisoned,
         \A u \in Threads : InHand(n, u)' <=> InHand(n, u),
         \A i : InQueue(n, i)' <=> InQueue(n, i),
         \A u \in Threads : \A i, j : InBatch(n, u, i, j)' <=> InBatch(n, u, i, j)
  PROVE  OnePlace(n)'
BY DEF OnePlace, Hand, Queue, Batch

\* A new call joins the queue: it was nowhere before.
LEMMA PlaceQueued ==
  ASSUME NEW n \in Nat, OnePlace(n), calls \in Nat, NEW last, ~InQueue(n, last),
         calls' = calls + 1, UNCHANGED <<done, lock>>,
         \A u \in Threads : InHand(n, u)' <=> InHand(n, u),
         \A i : InQueue(n, i)' <=> InQueue(n, i) \/ (i = last /\ n = calls + 1),
         \A u \in Threads : \A i, j : InBatch(n, u, i, j)' <=> InBatch(n, u, i, j)
  PROVE  OnePlace(n)'
<1>1. CASE n = calls + 1
  <2>1. ~Hand(n) /\ ~Queue(n) /\ ~Batch(n) /\ n \notin done
    BY <1>1 DEF OnePlace
  <2>2. ~Hand(n)' /\ ~Batch(n)' /\ Queue(n)' /\ n \notin done'
        /\ \A i : InQueue(n, i)' => i = last
    BY Zenon, <1>1, <2>1 DEF Hand, Queue, Batch
  <2>3. n <= calls'
    BY <1>1
  <2>4. QED BY Zenon, <2>2, <2>3 DEF OnePlace, Hand, Batch
<1>2. CASE n # calls + 1
  <2>1. (Hand(n)' <=> Hand(n)) /\ (Queue(n)' <=> Queue(n)) /\ (Batch(n)' <=> Batch(n))
    BY Zenon, <1>2 DEF Hand, Queue, Batch
  <2>2. (n <= calls => n <= calls') /\ (n \in 1 .. calls' => n \in 1 .. calls)
    BY <1>2
  <2>3. QED BY <1>2, <2>1, <2>2 DEF OnePlace
<1>3. QED BY Zenon, <1>1, <1>2

\* A call leaves the hands of a thread.
LEMMA PlaceDone ==
  ASSUME NEW n, OnePlace(n), NEW t \in Threads, UNCHANGED calls,
         lock # Poisoned,
         n \in done' <=> n \in done \/ InHand(n, t),
         \A u \in Threads : InHand(n, u)' <=> u # t /\ InHand(n, u),
         \A i : InQueue(n, i)' <=> InQueue(n, i),
         \A u \in Threads : \A i, j : InBatch(n, u, i, j)' <=> InBatch(n, u, i, j)
  PROVE  OnePlace(n)'
<1>1. (Hand(n)' <=> Hand(n) /\ ~InHand(n, t)) /\ (Queue(n)' <=> Queue(n))
      /\ (Batch(n)' <=> Batch(n)) /\ (InHand(n, t) => Hand(n))
  BY DEF OnePlace, Hand, Queue, Batch
<1>2. QED BY <1>1 DEF OnePlace

\* take_pending puts a batch in front of the others.
LEMMA Prepended ==
  ASSUME NEW S, NEW a \in S, NEW s \in Seq(S), NEW c, c = <<a>> \o s
  PROVE  /\ 1 \in DOMAIN c /\ c[1] = a
         /\ \A i \in DOMAIN c : i \in Nat
         /\ \A i \in DOMAIN c : i # 1 => i - 1 \in DOMAIN s /\ c[i] = s[i - 1]
         /\ \A i \in DOMAIN s : i + 1 \in DOMAIN c /\ c[i + 1] = s[i]
OBVIOUS

\* Every step leaves every call in at most one place, and loses none unless a
\* handler panics.
LEMMA PlaceStep ==
  ASSUME IInv, [Next]_vars, NEW n \in Nat, OnePlace(n)
  PROVE  OnePlace(n)'
<1> USE DEF Goto, Holding
<1>0. /\ pending \in Seq(Call) /\ pc \in [Threads -> Labels]
      /\ call \in [Threads -> Call \cup {NoCall}]
      /\ stack \in [Threads -> Seq(Seq(Call))] /\ calls \in Nat
  BY Zenon DEF IInv, TypeOK
<1>a. ASSUME UNCHANGED <<pc, call>> PROVE \A u \in Threads : InHand(n, u)' <=> InHand(n, u)
  BY Zenon, <1>a DEF InHand
<1>b. ASSUME UNCHANGED pending PROVE \A i : InQueue(n, i)' <=> InQueue(n, i)
  BY Zenon, <1>b DEF InQueue
<1>c. ASSUME UNCHANGED stack
      PROVE  \A u \in Threads : \A i, j : InBatch(n, u, i, j)' <=> InBatch(n, u, i, j)
  BY Zenon, <1>c DEF InBatch
<1>1. CASE UNCHANGED vars
  BY Zenon, <1>1, <1>a, <1>b, <1>c, PlaceKept DEF vars, shared, local, history
<1>2. ASSUME NEW t \in Threads, Invoke(t) PROVE OnePlace(n)'
  <2>1. calls' = calls + 1 /\ UNCHANGED <<done, lock, pending, stack>>
    BY Zenon, <1>2 DEF Invoke
  <2>2. \A u \in Threads : InHand(n, u)' <=> IF u = t THEN n = calls + 1 ELSE InHand(n, u)
    <3>1. call'[t].n = calls + 1 /\ pc'[t] = "try" /\ pc[t] = "idle"
      BY <1>0, <1>2 DEF Invoke
    <3>2. \A u \in Threads \ {t} : call'[u] = call[u] /\ pc'[u] = pc[u]
      BY Zenon, <1>0, <1>2 DEF Invoke
    <3>3. QED BY Zenon, <3>1, <3>2 DEF InHand
  <2>3. ~InHand(n, t)
    BY Zenon, <1>2 DEF Invoke, InHand
  <2>4. (\A i : InQueue(n, i)' <=> InQueue(n, i))
        /\ \A u \in Threads : \A i, j : InBatch(n, u, i, j)' <=> InBatch(n, u, i, j)
    BY Zenon, <1>b, <1>c, <2>1
  <2>5. CASE n = calls + 1
    <3>1. ~Hand(n) /\ ~Queue(n) /\ ~Batch(n) /\ n \notin done
      BY <1>0, <2>5 DEF OnePlace
    <3>2. ~Queue(n)' /\ ~Batch(n)' /\ Hand(n)' /\ n \notin done' /\ n <= calls'
      BY <1>0, <2>1, <2>2, <2>4, <2>5, <3>1 DEF Hand, Queue, Batch
    <3>3. \A u \in Threads : InHand(n, u)' => u = t
      BY Zenon, <2>2, <3>1 DEF Hand
    <3>4. QED BY Zenon, <3>2, <3>3 DEF OnePlace, Queue, Batch
  <2>6. CASE n # calls + 1
    <3>1. (Hand(n)' <=> Hand(n)) /\ (Queue(n)' <=> Queue(n)) /\ (Batch(n)' <=> Batch(n))
      BY Zenon, <2>2, <2>3, <2>4, <2>6 DEF Hand, Queue, Batch
    <3>2. (n <= calls => n <= calls') /\ (n \in 1 .. calls' => n \in 1 .. calls)
      BY <1>0, <2>1, <2>6
    <3>3. QED BY <2>1, <2>2, <2>3, <2>4, <2>6, <3>1, <3>2 DEF OnePlace
  <2>7. QED BY Zenon, <2>5, <2>6
<1>3. ASSUME NEW t \in Threads, TryLockOk(t) \/ TryLockErr(t) \/ CallHandler(t)
      PROVE  OnePlace(n)'
  <2>1. UNCHANGED <<calls, done, pending, stack, call>>
    BY Zenon, <1>3 DEF TryLockOk, TryLockErr, CallHandler, shared, history
  <2>2. \A u \in Threads : InHand(n, u)' <=> InHand(n, u)
    BY Zenon, <1>0, <1>3, <2>1 DEF TryLockOk, TryLockErr, CallHandler, InHand
  <2>3. lock = Poisoned => lock' = Poisoned
    BY Zenon, <1>3, ListenersAssumption DEF TryLockOk, TryLockErr, CallHandler, shared
  <2>4. QED BY Zenon, <1>b, <1>c, <2>1, <2>2, <2>3, PlaceKept
<1>4. ASSUME NEW t \in Threads, InsertPending(t) PROVE OnePlace(n)'
  <2> DEFINE last == Len(pending) + 1
  <2>1. UNCHANGED <<calls, done, lock, stack, call>>
    BY Zenon, <1>4 DEF InsertPending
  <2>2. \A u \in Threads : InHand(n, u)' <=> u # t /\ InHand(n, u)
    BY Zenon, <1>0, <1>4 DEF InsertPending, InHand
  <2>3. PICK c : c.n = call[t].n /\ pending' = Append(pending, c)
    BY Zenon, <1>4 DEF InsertPending
  <2>4. \A i : InQueue(n, i)' <=> InQueue(n, i) \/ (i = last /\ InHand(n, t))
    <3>1. DOMAIN pending' = DOMAIN pending \cup {last} /\ last \notin DOMAIN pending
          /\ pending'[last] = c /\ \A i \in DOMAIN pending : pending'[i] = pending[i]
      BY <1>0, <2>3
    <3>2. InHand(n, t) <=> c.n = n
      BY Zenon, <1>4, <2>3 DEF InsertPending, InHand
    <3>3. QED BY Zenon, <3>1, <3>2 DEF InQueue
  <2>5. ~InQueue(n, last)
    BY <1>0 DEF InQueue
  <2> HIDE DEF last
  <2>6. \A u \in Threads : \A i, j : InBatch(n, u, i, j)' <=> InBatch(n, u, i, j)
    BY Zenon, <1>c, <2>1
  <2>7. /\ Hand(n)' <=> Hand(n) /\ ~InHand(n, t)
        /\ Queue(n)' <=> Queue(n) \/ InHand(n, t)
        /\ Batch(n)' <=> Batch(n)
        /\ InHand(n, t) => Hand(n)
    BY <2>2, <2>4, <2>6 DEF OnePlace, Hand, Queue, Batch
  <2>8. \A i, j : InQueue(n, i)' /\ InQueue(n, j)' => i = j
    BY <2>4, <2>7 DEF OnePlace, Queue
  <2>9. QED BY <2>1, <2>2, <2>6, <2>7, <2>8 DEF OnePlace
<1>5. ASSUME NEW t \in Threads, Apply(t) \/ EndDispatch(t) PROVE OnePlace(n)'
  <2>1. UNCHANGED <<calls, pending, stack, call>> /\ done' = done \cup {call[t].n}
        /\ lock = t
    BY Zenon, <1>5 DEF Apply, EndDispatch, IInv, HoldsLock
  <2>2. InHand(n, t) <=> n = call[t].n
    BY Zenon, <1>5 DEF Apply, EndDispatch, InHand
  <2>3. \A u \in Threads : InHand(n, u)' <=> u # t /\ InHand(n, u)
    BY ZenonT(30), <1>0, <1>5 DEF Apply, EndDispatch, InHand
  <2>4. n \in done' <=> n \in done \/ InHand(n, t)
    BY Zenon, <2>1, <2>2
  <2>5. lock # Poisoned
    BY Zenon, <2>1, ListenersAssumption
  <2>6. QED BY Zenon, <1>b, <1>c, <2>1, <2>3, <2>4, <2>5, PlaceDone
<1>6. ASSUME NEW t \in Threads, Panic(t) PROVE OnePlace(n)'
  <2>1. UNCHANGED <<calls, done, pending, call>> /\ lock' = Poisoned
    BY Zenon, <1>6 DEF Panic, history
  <2>2. \A u \in Threads : InHand(n, u)' => InHand(n, u)
    BY Zenon, <1>0, <1>6 DEF Panic, InHand
  <2>3. \A i : InQueue(n, i)' <=> InQueue(n, i)
    BY Zenon, <1>b, <2>1
  <2>4. \A u \in Threads : \A i, j : InBatch(n, u, i, j)' => InBatch(n, u, i, j)
    <3>1. stack'[t] = <<>> /\ \A u \in Threads \ {t} : stack'[u] = stack[u]
      BY Zenon, <1>0, <1>6 DEF Panic
    <3>2. DOMAIN stack'[t] = {}
      BY <3>1
    <3>3. QED BY Zenon, <3>1, <3>2 DEF InBatch
  <2>5. (Hand(n)' => Hand(n)) /\ (Queue(n)' <=> Queue(n)) /\ (Batch(n)' => Batch(n))
    BY Zenon, <2>2, <2>3, <2>4 DEF Hand, Queue, Batch
  <2>6. QED BY <2>1, <2>2, <2>3, <2>4, <2>5 DEF OnePlace
<1>7. ASSUME NEW c, pending' = Append(pending, c), c.n = calls + 1, calls' = calls + 1,
             UNCHANGED <<done, lock, stack, call>>,
             \A u \in Threads : InHand(n, u)' <=> InHand(n, u)
      PROVE  OnePlace(n)'
  <2> DEFINE last == Len(pending) + 1
  <2>1. \A i : InQueue(n, i)' <=> InQueue(n, i) \/ (i = last /\ n = calls + 1)
    <3>1. DOMAIN pending' = DOMAIN pending \cup {last} /\ last \notin DOMAIN pending
          /\ pending'[last] = c /\ \A i \in DOMAIN pending : pending'[i] = pending[i]
      BY <1>0, <1>7
    <3>2. QED BY Zenon, <1>7, <3>1 DEF InQueue
  <2>2. ~InQueue(n, last)
    BY <1>0 DEF InQueue
  <2> HIDE DEF last
  <2>3. \A u \in Threads : \A i, j : InBatch(n, u, i, j)' <=> InBatch(n, u, i, j)
    BY Zenon, <1>7, <1>c
  <2>4. calls \in Nat /\ calls' = calls + 1 /\ UNCHANGED <<done, lock>>
        /\ \A u \in Threads : InHand(n, u)' <=> InHand(n, u)
    BY Zenon, <1>0, <1>7
  <2>5. QED BY <2>1, <2>2, <2>3, <2>4, PlaceQueued
<1>8. ASSUME NEW t \in Threads, CallFromHandler(t) PROVE OnePlace(n)'
  <2>1. PICK a : pending' = Append(pending, [n |-> calls + 1, reentrant |-> TRUE,
                                             action |-> Queued(a)])
    BY Zenon, <1>8 DEF CallFromHandler
  <2>2. calls' = calls + 1 /\ UNCHANGED <<done, lock, stack, call, pc>>
    BY Zenon, <1>8 DEF CallFromHandler, local
  <2>3. QED BY Zenon, <1>7, <1>a, <2>1, <2>2
<1>9. ASSUME NEW t \in Threads, HandlerReturns(t) PROVE OnePlace(n)'
  <2>1. UNCHANGED <<done, lock, stack, call>>
    BY Zenon, <1>9 DEF HandlerReturns
  <2>2. \A u \in Threads : InHand(n, u)' <=> InHand(n, u)
    BY Zenon, <1>0, <1>9, <2>1 DEF HandlerReturns, InHand
  <2>3. PICK h : IF h.once
                   THEN /\ pending' = Append(pending,
                             [n |-> calls + 1, reentrant |-> TRUE,
                              action |-> UnlistenAction(h.id)])
                        /\ calls' = calls + 1
                   ELSE UNCHANGED <<pending, calls>>
    BY Zenon, <1>9 DEF HandlerReturns
  <2>4. CASE h.once
    BY Zenon, <1>7, <2>1, <2>2, <2>3, <2>4
  <2>5. CASE ~h.once
    BY ZenonT(30), <1>b, <1>c, <2>1, <2>2, <2>3, <2>5, PlaceKept
  <2>6. QED BY Zenon, <2>4, <2>5
<1>10. ASSUME NEW t \in Threads, TakePending(t) PROVE OnePlace(n)'
  <2>1. UNCHANGED <<calls, done, lock, call>> /\ pending' = <<>>
    BY Zenon, <1>10 DEF TakePending, history
  <2>2. \A u \in Threads : InHand(n, u)' <=> InHand(n, u)
    BY Zenon, <1>0, <1>10, <2>1 DEF TakePending, InHand
  <2>3. \A i : ~InQueue(n, i)'
    BY <2>1 DEF InQueue
  <2>4. stack'[t] = <<pending>> \o stack[t] /\ \A u \in Threads \ {t} : stack'[u] = stack[u]
    BY Zenon, <1>0, <1>10 DEF TakePending
  <2>5. stack[t] \in Seq(Seq(Call))
    BY Zenon, <1>0
  <2>6. /\ 1 \in DOMAIN stack'[t] /\ stack'[t][1] = pending
        /\ \A i \in DOMAIN stack'[t] : i \in Nat
        /\ \A i \in DOMAIN stack'[t] : i # 1 => /\ i - 1 \in DOMAIN stack[t]
                                                /\ stack'[t][i] = stack[t][i - 1]
        /\ \A i \in DOMAIN stack[t] : /\ i + 1 \in DOMAIN stack'[t]
                                      /\ stack'[t][i + 1] = stack[t][i]
    <3> DEFINE new == stack'[t]
               old == stack[t]
               Batches == Seq(Call)
    <3>1. pending \in Batches /\ old \in Seq(Batches) /\ new = <<pending>> \o old
      BY Zenon, <1>0, <2>4, <2>5
    <3> HIDE DEF new, old, Batches
    <3>2. /\ 1 \in DOMAIN new /\ new[1] = pending
          /\ \A i \in DOMAIN new : i \in Nat
          /\ \A i \in DOMAIN new : i # 1 => i - 1 \in DOMAIN old /\ new[i] = old[i - 1]
          /\ \A i \in DOMAIN old : i + 1 \in DOMAIN new /\ new[i + 1] = old[i]
      BY <3>1, Prepended
    <3>3. QED BY Zenon, <3>2 DEF new, old
  <2>7. \A i, j : InBatch(n, t, i, j)' =>
          (i = 1 /\ InQueue(n, j)) \/ (i \in Nat /\ InBatch(n, t, i - 1, j))
    BY Zenon, <2>6 DEF InBatch, InQueue
  <2>8. \A i, j : (InQueue(n, j) => InBatch(n, t, 1, j)')
                  /\ (InBatch(n, t, i, j) => InBatch(n, t, i + 1, j)')
    <3>1. \A j : InQueue(n, j) => InBatch(n, t, 1, j)'
      BY Zenon, <2>6 DEF InBatch, InQueue
    <3>2. \A i, j : InBatch(n, t, i, j) => InBatch(n, t, i + 1, j)'
      BY Zenon, <2>6 DEF InBatch
    <3>3. QED BY Zenon, <3>1, <3>2
  <2>9. \A u \in Threads \ {t} : \A i, j : InBatch(n, u, i, j)' <=> InBatch(n, u, i, j)
    BY Zenon, <2>4 DEF InBatch
  <2>10. (Hand(n)' <=> Hand(n)) /\ ~Queue(n)' /\ (Batch(n)' <=> Batch(n) \/ Queue(n))
    BY ZenonT(30), <2>2, <2>3, <2>7, <2>8, <2>9 DEF Hand, Queue, Batch
  <2>11. ASSUME NEW u \in Threads, NEW v \in Threads, NEW i, NEW j, NEW k, NEW l,
                InBatch(n, u, i, j)', InBatch(n, v, k, l)'
         PROVE  u = v /\ i = k /\ j = l
    <3>1. CASE Queue(n)
      <4>1. \A w \in Threads : \A x, y : ~InBatch(n, w, x, y)
        BY Zenon, <3>1 DEF OnePlace, Batch
      <4>2. u = t /\ v = t
        BY Zenon, <2>9, <2>11, <4>1
      <4>3. i = 1 /\ InQueue(n, j) /\ k = 1 /\ InQueue(n, l)
        BY Zenon, <2>7, <2>11, <4>1, <4>2
      <4>4. QED BY Zenon, <4>2, <4>3 DEF OnePlace
    <3>2. CASE ~Queue(n)
      <4>1. \A x : ~InQueue(n, x)
        BY Zenon, <3>2 DEF Queue
      <4>2. CASE u = t /\ v = t
        <5>1. i \in Nat /\ k \in Nat /\ InBatch(n, t, i - 1, j) /\ InBatch(n, t, k - 1, l)
          BY Zenon, <2>7, <2>11, <4>1, <4>2
        <5>2. i - 1 = k - 1 /\ j = l
          BY <5>1 DEF OnePlace
        <5>3. QED BY <4>2, <5>1, <5>2
      <4>3. CASE u # t \/ v # t
        <5>1. u = v
          BY <2>7, <2>9, <2>11, <4>1 DEF OnePlace
        <5>2. QED BY <2>9, <2>11, <4>3, <5>1 DEF OnePlace
      <4>4. QED BY Zenon, <4>2, <4>3
    <3>3. QED BY Zenon, <3>1, <3>2
  <2>12. \A i, j : InQueue(n, i)' /\ InQueue(n, j)' => i = j
    BY Zenon, <2>3
  <2>13. QED BY <2>1, <2>2, <2>10, <2>11, <2>12 DEF OnePlace
<1>11. ASSUME NEW t \in Threads, Replay(t) PROVE OnePlace(n)'
  <2> DEFINE top == Head(stack[t])
  <2>1. UNCHANGED <<calls, done, lock, pending>> /\ stack[t] # <<>> /\ top # <<>>
    BY Zenon, <1>11 DEF Replay, shared, history
  <2>2. stack[t] \in Seq(Seq(Call)) /\ top \in Seq(Call) /\ top = stack[t][1]
        /\ 1 \in DOMAIN stack[t] /\ 1 \in DOMAIN top
    BY <1>0, <2>1
  <2>3. /\ call'[t] = Head(top) /\ pc[t] = "return" /\ pc'[t] = "try"
        /\ stack'[t] = <<Tail(top)>> \o Tail(stack[t])
        /\ \A u \in Threads \ {t} : call'[u] = call[u] /\ pc'[u] = pc[u]
                                    /\ stack'[u] = stack[u]
    BY Zenon, <1>0, <1>11 DEF Replay
  <2>4. Head(top) = stack[t][1][1]
    BY <2>2
  <2>5. \A u \in Threads : InHand(n, u)' <=> IF u = t THEN InBatch(n, t, 1, 1)
                                                       ELSE InHand(n, u)
    BY Zenon, <2>2, <2>3, <2>4 DEF InHand, InBatch
  <2>6. ~InHand(n, t)
    BY Zenon, <2>3 DEF InHand
  <2>7. /\ DOMAIN stack'[t] = DOMAIN stack[t]
        /\ stack'[t][1] = Tail(top)
        /\ \A i \in DOMAIN stack[t] : i # 1 => stack'[t][i] = stack[t][i]
    <3> DEFINE old == stack[t]
               new == stack'[t]
               rest == Tail(top)
    <3>1. rest \in Seq(Call)
      BY <2>1, <2>2
    <3>2. old \in Seq(Seq(Call)) /\ old # <<>> /\ new = <<rest>> \o Tail(old)
      BY Zenon, <2>1, <2>2, <2>3
    <3>3. DOMAIN new = DOMAIN old /\ new[1] = rest
          /\ \A i \in DOMAIN old : i # 1 => new[i] = old[i]
      <4> HIDE DEF old, new, rest
      <4>1. QED BY <3>1, <3>2, HeadReplaced
    <3>4. QED BY Zenon, <3>3
  <2>8. /\ \A j \in DOMAIN Tail(top) : j \in Nat /\ j + 1 # 1 /\ j + 1 \in DOMAIN top
                                       /\ Tail(top)[j] = top[j + 1]
        /\ \A j \in DOMAIN top : j # 1 => /\ j - 1 \in DOMAIN Tail(top)
                                          /\ Tail(top)[j - 1] = top[j]
    BY Zenon, <2>1, <2>2, TailShift
  <2> HIDE DEF top
  <2>9. \A i, j : InBatch(n, t, i, j)' =>
          IF i = 1 THEN j \in Nat /\ j + 1 # 1 /\ InBatch(n, t, 1, j + 1)
                   ELSE InBatch(n, t, i, j)
    <3>1. \A j : InBatch(n, t, 1, j)' => j \in Nat /\ j + 1 # 1 /\ InBatch(n, t, 1, j + 1)
      BY <2>2, <2>7, <2>8 DEF InBatch
    <3>2. \A i, j : i # 1 /\ InBatch(n, t, i, j)' => InBatch(n, t, i, j)
      BY Zenon, <2>7 DEF InBatch
    <3>3. QED BY Zenon, <3>1, <3>2
  <2>10. \A i, j : InBatch(n, t, i, j) /\ ~(i = 1 /\ j = 1) =>
           IF i = 1 THEN InBatch(n, t, 1, j - 1)' ELSE InBatch(n, t, i, j)'
    <3>1. \A j : j # 1 /\ InBatch(n, t, 1, j) => InBatch(n, t, 1, j - 1)'
      BY ZenonT(60), <2>2, <2>7, <2>8 DEF InBatch
    <3>2. \A i, j : i # 1 /\ InBatch(n, t, i, j) => InBatch(n, t, i, j)'
      BY Zenon, <2>7 DEF InBatch
    <3>3. QED BY Zenon, <3>1, <3>2
  <2>11. \A u \in Threads \ {t} : \A i, j : InBatch(n, u, i, j)' <=> InBatch(n, u, i, j)
    BY Zenon, <2>3 DEF InBatch
  <2>12. \A i : InQueue(n, i)' <=> InQueue(n, i)
    BY Zenon, <1>b, <2>1
  <2>13. CASE InBatch(n, t, 1, 1)
    <3>1. \A u \in Threads : \A i, j : InBatch(n, u, i, j) => u = t /\ i = 1 /\ j = 1
      BY Zenon, <2>13 DEF OnePlace
    <3>2. \A u \in Threads : \A i, j : ~InBatch(n, u, i, j)'
      BY <2>9, <2>11, <3>1
    <3>3. Batch(n) /\ ~Hand(n) /\ ~Queue(n)
      BY Zenon, <2>13 DEF OnePlace, Batch
    <3>4. Hand(n)' /\ ~Queue(n)' /\ ~Batch(n)' /\ \A u \in Threads : InHand(n, u)' => u = t
      BY ZenonT(60), <2>5, <2>12, <2>13, <3>2, <3>3 DEF Hand, Queue, Batch
    <3>5. QED BY Zenon, <2>1, <2>12, <3>2, <3>3, <3>4 DEF OnePlace
  <2>14. CASE ~InBatch(n, t, 1, 1)
    <3>1. \A u \in Threads : InHand(n, u)' <=> InHand(n, u)
      BY Zenon, <2>5, <2>6, <2>14
    <3>2. (Hand(n)' <=> Hand(n)) /\ (Queue(n)' <=> Queue(n))
      BY Zenon, <2>12, <3>1 DEF Hand, Queue
    <3>3. Batch(n)' <=> Batch(n)
      BY <2>9, <2>10, <2>11, <2>14 DEF Batch
    <3>4. ASSUME NEW u \in Threads, NEW v \in Threads, NEW i, NEW j, NEW k, NEW l,
                 InBatch(n, u, i, j)', InBatch(n, v, k, l)'
          PROVE  u = v /\ i = k /\ j = l
      <4>1. u = v /\ i = k
        BY <2>9, <2>11, <3>4 DEF OnePlace
      <4>2. CASE u = t /\ i = 1
        <5>1. j \in Nat /\ l \in Nat /\ InBatch(n, t, 1, j + 1) /\ InBatch(n, t, 1, l + 1)
          BY Zenon, <2>9, <3>4, <4>1, <4>2
        <5>2. j + 1 = l + 1
          BY Zenon, <5>1 DEF OnePlace
        <5>3. QED BY <4>1, <5>1, <5>2
      <4>3. CASE ~(u = t /\ i = 1)
        BY <2>9, <2>11, <3>4, <4>1, <4>3 DEF OnePlace
      <4>4. QED BY Zenon, <4>2, <4>3
    <3>5. (\A u, v \in Threads : InHand(n, u)' /\ InHand(n, v)' => u = v)
          /\ \A i, j : InQueue(n, i)' /\ InQueue(n, j)' => i = j
      BY ZenonT(60), <2>12, <3>1 DEF OnePlace
    <3>6. QED BY <2>1, <3>2, <3>3, <3>4, <3>5 DEF OnePlace
  <2>15. QED BY Zenon, <2>13, <2>14
<1>12. ASSUME NEW t \in Threads, EndFlush(t) PROVE OnePlace(n)'
  <2>1. UNCHANGED <<calls, done, lock, pending, call, pc>> /\ stack[t] # <<>>
        /\ Head(stack[t]) = <<>>
    BY Zenon, <1>12 DEF EndFlush, shared, history
  <2>2. stack'[t] = Tail(stack[t]) /\ \A u \in Threads \ {t} : stack'[u] = stack[u]
    BY Zenon, <1>0, <1>12 DEF EndFlush
  <2>3. stack[t] \in Seq(Seq(Call)) /\ stack[t][1] = <<>>
    BY <1>0, <2>1
  <2>4. /\ \A i \in DOMAIN Tail(stack[t]) : /\ i \in Nat /\ i + 1 # 1
                                            /\ i + 1 \in DOMAIN stack[t]
                                            /\ Tail(stack[t])[i] = stack[t][i + 1]
        /\ \A i \in DOMAIN stack[t] : i # 1 => /\ i - 1 \in DOMAIN Tail(stack[t])
                                               /\ Tail(stack[t])[i - 1] = stack[t][i]
    BY Zenon, <2>1, <2>3, TailShift
  <2>5. \A i, j : InBatch(n, t, i, j)' => i \in Nat /\ InBatch(n, t, i + 1, j)
    BY Zenon, <2>2, <2>4 DEF InBatch
  <2>6. \A i, j : InBatch(n, t, i, j) => InBatch(n, t, i - 1, j)'
    <3>1. \A j : ~InBatch(n, t, 1, j)
      BY <2>3 DEF InBatch
    <3>2. QED BY ZenonT(30), <2>2, <2>4, <3>1 DEF InBatch
  <2>7. \A u \in Threads \ {t} : \A i, j : InBatch(n, u, i, j)' <=> InBatch(n, u, i, j)
    BY Zenon, <2>2 DEF InBatch
  <2>8. Batch(n)' <=> Batch(n)
    BY ZenonT(30), <2>5, <2>6, <2>7 DEF Batch
  <2>9. ASSUME NEW u \in Threads, NEW v \in Threads, NEW i, NEW j, NEW k, NEW l,
               InBatch(n, u, i, j)', InBatch(n, v, k, l)'
        PROVE  u = v /\ i = k /\ j = l
    <3>1. u = v
      BY <2>5, <2>7, <2>9 DEF OnePlace
    <3>2. CASE u = t
      <4>1. i \in Nat /\ k \in Nat /\ InBatch(n, t, i + 1, j) /\ InBatch(n, t, k + 1, l)
        BY Zenon, <2>5, <2>9, <3>1, <3>2
      <4>2. i + 1 = k + 1 /\ j = l
        BY Zenon, <4>1 DEF OnePlace
      <4>3. QED BY <3>1, <4>1, <4>2
    <3>3. CASE u # t
      BY <2>7, <2>9, <3>1, <3>3 DEF OnePlace
    <3>4. QED BY Zenon, <3>2, <3>3
  <2>10. (\A u \in Threads : InHand(n, u)' <=> InHand(n, u))
         /\ \A i : InQueue(n, i)' <=> InQueue(n, i)
    BY Zenon, <1>a, <1>b, <2>1
  <2>11. (Hand(n)' <=> Hand(n)) /\ (Queue(n)' <=> Queue(n))
    BY Zenon, <2>10 DEF Hand, Queue
  <2>12. (\A u, v \in Threads : InHand(n, u)' /\ InHand(n, v)' => u = v)
         /\ \A i, j : InQueue(n, i)' /\ InQueue(n, j)' => i = j
    BY Zenon, <2>10 DEF OnePlace
  <2>13. QED BY <2>1, <2>8, <2>9, <2>11, <2>12 DEF OnePlace
<1>13. ASSUME NEW t \in Threads, Return(t) PROVE OnePlace(n)'
  <2>1. UNCHANGED <<calls, done, lock, pending, stack>>
    BY Zenon, <1>13 DEF Return, shared, history
  <2>2. \A u \in Threads : InHand(n, u)' <=> InHand(n, u)
    BY Zenon, <1>0, <1>13 DEF Return, InHand
  <2>3. QED BY Zenon, <1>b, <1>c, <2>1, <2>2, PlaceKept
<1>14. QED
  BY Zenon, <1>1, <1>2, <1>3, <1>4, <1>5, <1>6, <1>8, <1>9, <1>10, <1>11, <1>12, <1>13
     DEF Next, Progress

\* A set with at most one element has cardinality 0 or 1.
LEMMA AtMostOne ==
  ASSUME NEW S, \A x, y \in S : x = y
  PROVE  Cardinality(S) = IF S = {} THEN 0 ELSE 1
<1>1. CASE S = {}
  BY Zenon, <1>1, FS_EmptySet
<1>2. CASE S # {}
  <2>1. PICK x : S = {x}
    BY <1>2
  <2>2. QED BY Zenon, <1>2, <2>1, FS_Singleton
<1>3. QED BY Zenon, <1>1, <1>2

\* However try_locks, pushes, takes and nested replays interleave, every call of the
\* event system is carried out exactly once or waits in exactly one place; only a
\* panic drops calls, and even then none is carried out twice.
THEOREM ExactlyOnce == Spec => []NothingLostOrDoubled
<1> DEFINE Placed == \A n \in Nat : OnePlace(n)
<1>1. Init => Placed
  <2> SUFFICES ASSUME Init, NEW n \in Nat PROVE OnePlace(n)
    BY Zenon
  <2>1. ~Hand(n) /\ ~Queue(n) /\ ~Batch(n)
    BY DEF Init, Hand, Queue, Batch, InHand, InQueue, InBatch, Holding
  <2>2. done = {} /\ ~(n \in 1 .. calls)
    BY DEF Init
  <2>3. QED BY Zenon, <2>1, <2>2 DEF OnePlace, Hand, Queue, Batch
<1>2. IInv /\ Placed /\ [Next]_vars => Placed'
  BY Zenon, PlaceStep
<1>3. IInv /\ Placed => NothingLostOrDoubled
  <2> SUFFICES ASSUME IInv, Placed, NEW n \in 1 .. calls
               PROVE  /\ Copies(n) + (IF n \in done THEN 1 ELSE 0) <= 1
                      /\ lock # Poisoned => Copies(n) = 1 \/ n \in done
    BY Zenon DEF NothingLostOrDoubled
  <2> DEFINE H == {t \in Threads : Holding(t) /\ call[t].n = n}
             Q == {i \in DOMAIN pending : pending[i].n = n}
             B == UNION {UNION {{<<t, i, j>> :
                    j \in {k \in DOMAIN stack[t][i] : stack[t][i][k].n = n}} :
                    i \in DOMAIN stack[t]} : t \in Threads}
  <2>0. OnePlace(n)
    BY DEF IInv, TypeOK
  <2>1. Cardinality(H) = IF Hand(n) THEN 1 ELSE 0
    <3>1. (H # {} <=> Hand(n)) /\ \A x, y \in H : x = y
      BY Zenon, <2>0 DEF OnePlace, Hand, InHand
    <3>2. QED BY Zenon, <3>1, AtMostOne
  <2>2. Cardinality(Q) = IF Queue(n) THEN 1 ELSE 0
    <3>1. (Q # {} <=> Queue(n)) /\ \A x, y \in Q : x = y
      BY Zenon, <2>0 DEF OnePlace, Queue, InQueue
    <3>2. QED BY Zenon, <3>1, AtMostOne
  <2>3. Cardinality(B) = IF Batch(n) THEN 1 ELSE 0
    <3>1. ASSUME NEW x \in B
          PROVE  \E t \in Threads : \E i, j : x = <<t, i, j>> /\ InBatch(n, t, i, j)
      BY DEF InBatch
    <3>2. ASSUME NEW t \in Threads, NEW i, NEW j, InBatch(n, t, i, j)
          PROVE  <<t, i, j>> \in B
      BY <3>2 DEF InBatch
    <3> HIDE DEF B
    <3>3. B # {} <=> Batch(n)
      BY Zenon, <3>1, <3>2 DEF Batch
    <3>4. \A x, y \in B : x = y
      BY <2>0, <3>1 DEF OnePlace
    <3>5. QED BY Zenon, <3>3, <3>4, AtMostOne
  <2>4. Copies(n) = Cardinality(H) + Cardinality(Q) + Cardinality(B)
    BY Zenon DEF Copies
  <2> HIDE DEF H, Q, B
  <2>5. QED BY <2>0, <2>1, <2>2, <2>3, <2>4 DEF OnePlace
<1>4. QED BY <1>1, <1>2, <1>3, Inductive, PTL DEF Spec
=============================================================================
