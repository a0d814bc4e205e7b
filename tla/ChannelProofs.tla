---------------------------- MODULE ChannelProofs ----------------------------
(***************************************************************************)
(* Theorems about Channel, for any number of handles, channels, messages   *)
(* and page loads.  When every channel of the page has one handle, the     *)
(* messages arrive in the order they were sent, Channel implements         *)
(* OrderedChannel, and no message is lost unnoticed or doubled.  In any    *)
(* case the data queue holds only what will be fetched.                    *)
(*                                                                         *)
(* The inductive invariant IInv says, besides the types, which body every  *)
(* data id stands for (DataInv); that a message on its way has one record  *)
(* and an index that onmessage has not reached (TransitInv); and how the   *)
(* page's pending messages (PendingInv), the call of onmessage under way   *)
(* (RunningInv) and its counter (CountInv) relate to what was delivered.   *)
(***************************************************************************)
EXTENDS Channel, TLAPS, FiniteSetTheorems

\* The page passes every channel to one command only.
OneHandlePerChannel ==
  \A g, h \in Handles : ChannelOf[g] = ChannelOf[h] => g = h

\* What is, or will be, fetched under a data id is the body of the message that
\* carries the id.
DataInv ==
  /\ \A m \in flight : m.data < data_counter /\ m.response \subseteq {Name(m)}
  /\ \A e \in data_queue : e.data < data_counter
  /\ \A e \in data_queue, m \in flight : e.data = m.data => e.body = Name(m)

\* A message that has not come to its callback is in one place, and its index
\* lies between what was delivered and what was sent.
TransitInv ==
  /\ \A s \in sending : /\ s.id < counter[s.handle]
                        /\ Len(delivered[s.handle]) <= s.id
  /\ \A m \in flight : /\ m.id < counter[m.handle]
                       /\ Len(delivered[m.handle]) <= m.id
                       /\ Name(m) \notin sending
  /\ \A m, n \in flight : Name(m) = Name(n) => m = n

\* A message that waits in pendingMessages waits under its own index, is nowhere
\* else, and has not been passed over.
PendingInv ==
  \A p \in pendingMessages :
    /\ p.channel = ChannelOf[p.body.handle]
    /\ p.id = p.body.id
    /\ p.id < counter[p.body.handle]
    /\ nextMessageId[p.channel] <= p.id
    /\ p.body \notin sending
    /\ \A m \in flight : Name(m) # p.body

\* At most one call of onmessage is under way, with the message whose turn it is,
\* which has left its former place.
RunningInv ==
  /\ \A r, q \in running : r = q
  /\ \A r \in running :
       /\ r.channel = ChannelOf[r.body.handle]
       /\ r.body.id = nextMessageId[r.channel]
       /\ r.body.id < counter[r.body.handle]
       /\ r.channel \notin thrown
       /\ r.body \notin sending
       /\ \A m \in flight : Name(m) # r.body
       /\ ~r.drained => \A p \in pendingMessages : p.body # r.body

\* nextMessageId counts what was delivered, but for a last one that threw.
CountInv ==
  \A h \in Handles :
    Len(delivered[h]) = nextMessageId[ChannelOf[h]]
                          + (IF ChannelOf[h] \in thrown THEN 1 ELSE 0)

IInv == TypeOK /\ DataInv /\ TransitInv /\ PendingInv /\ RunningInv /\ CountInv
          /\ InOrder

-----------------------------------------------------------------------------
(* Types *)

\* Every step keeps the types.
LEMMA TypeStep == TypeOK /\ [Next]_vars => TypeOK'
<1> SUFFICES ASSUME TypeOK, [Next]_vars PROVE TypeOK'
  BY Zenon
<1> USE DEF rust, js, history, Move, NotFound, Response, Name
<1>1. CASE UNCHANGED vars
  BY Zenon, <1>1 DEF TypeOK, vars
<1>2. ASSUME NEW h \in Handles, TakeIndex(h) PROVE TypeOK'
  <2>1. [handle |-> h, id |-> counter[h]] \in Body
    BY Zenon DEF Body, TypeOK
  <2>2. QED BY <1>2, <2>1 DEF TakeIndex, TypeOK
<1>3. ASSUME NEW s \in sending, Intercept(s) PROVE TypeOK'
  BY Zenon, <1>3 DEF Intercept, TypeOK
<1>4. ASSUME NEW s \in sending, Enqueue(s) PROVE TypeOK'
  <2>1. s \in Body
    BY Zenon DEF TypeOK
  <2>2. [data |-> data_counter, body |-> s] \in Entry
    BY Zenon, <2>1 DEF Entry, TypeOK
  <2>3. [handle |-> s.handle, id |-> s.id, data |-> data_counter,
         stage |-> "queued", page |-> 0, post |-> FALSE, response |-> NotFound]
          \in Message
    BY Zenon, <2>1 DEF Message, Body, TypeOK, Stages
  <2>4. data_queue' \in SUBSET Entry /\ flight' \in SUBSET Message
    BY Zenon, <1>4, <2>2, <2>3 DEF Enqueue, TypeOK
  <2>5. data_counter' \in Nat /\ sending' \in SUBSET Body
    BY <1>4 DEF Enqueue, TypeOK
  <2>6. UNCHANGED <<counter, closed, js, history>>
    BY Zenon, <1>4 DEF Enqueue
  <2>7. QED BY Zenon, <2>4, <2>5, <2>6 DEF TypeOK
<1>5. ASSUME NEW m \in flight, Eval(m) PROVE TypeOK'
  <2>1. m \in Message
    BY Zenon DEF TypeOK
  <2>2. Name(m) \in Body /\ [m EXCEPT !.stage = "script"] \in Message
    BY Zenon, <2>1 DEF Message, Body, Stages
  <2>3. flight' \in SUBSET Message /\ lost' \in SUBSET Body
    BY Zenon, <1>5, <2>2 DEF Eval, TypeOK
  <2>4. QED BY Zenon, <1>5, <2>3 DEF Eval, TypeOK
<1>6. ASSUME NEW m \in flight, Fetch(m) PROVE TypeOK'
  <2> DEFINE found == {e \in data_queue : e.data = m.data}
             answer == [m EXCEPT !.stage = "answer",
                                 !.response = {e.body : e \in found}]
  <2>1. {e.body : e \in found} \in SUBSET Body
    BY Zenon DEF TypeOK, Entry
  <2>2. answer \in Message
    BY Zenon, <2>1 DEF TypeOK, Message, Stages
  <2>3. data_queue' \in SUBSET Entry /\ flight' \in SUBSET Message
    BY Zenon, <1>6, <2>2 DEF Fetch, TypeOK
  <2>4. QED BY Zenon, <1>6, <2>3 DEF Fetch, TypeOK
<1>7. ASSUME NEW m \in flight, RunScript(m) PROVE TypeOK'
  <2>1. [m EXCEPT !.stage = "request", !.page = page,
                  !.post = customProtocolIpcFailed] \in Message
    BY Zenon DEF TypeOK, Message, Stages
  <2>2. QED BY Zenon, <1>7, <2>1 DEF RunScript, TypeOK
<1>8. ASSUME NEW m \in flight, FetchRejected(m) PROVE TypeOK'
  <2>1. [m EXCEPT !.stage = "request", !.post = TRUE, !.response = NotFound]
          \in Message
    BY ZenonT(30) DEF TypeOK, Message, Stages
  <2>2. QED BY Zenon, <1>8, <2>1 DEF FetchRejected, TypeOK
<1>9. ASSUME NEW m \in flight, Receive(m) PROVE TypeOK'
  <2> DEFINE c == ChannelOf[m.handle]
             calls == {[channel |-> c, body |-> b, drained |-> FALSE] :
                         b \in m.response}
             waits == {[channel |-> c, id |-> m.id, body |-> b] : b \in m.response}
  <2>1. m \in Message /\ c \in Channels /\ Name(m) \in Body
    BY Zenon, ChannelAssumption DEF TypeOK, Message, Body
  <2>2. calls \in SUBSET Running /\ waits \in SUBSET Pending
    <3>1. \A b \in m.response :
            /\ [channel |-> c, body |-> b, drained |-> FALSE] \in Running
            /\ [channel |-> c, id |-> m.id, body |-> b] \in Pending
      BY Zenon, <2>1 DEF Message, Running, Pending
    <3>2. QED BY Zenon, <3>1
  <2>3. lost' \in SUBSET Body
    BY Zenon, <1>9, <2>1 DEF Receive, TypeOK
  <2>4. running' \in SUBSET Running
    BY Zenon, <1>9, <2>2 DEF Receive, TypeOK
  <2>5. pendingMessages' \in SUBSET Pending
    BY Zenon, <1>9, <2>2 DEF Receive, TypeOK
  <2>6. UNCHANGED <<rust, closed, page, callbacks, customProtocolIpcFailed,
                    nextMessageId, delivered, thrown>> /\ flight' = flight \ {m}
    BY Zenon, <1>9 DEF Receive
  <2>7. QED BY Zenon, <2>3, <2>4, <2>5, <2>6 DEF TypeOK
<1>10. ASSUME NEW r \in running, OnMessage(r) PROVE TypeOK'
  <2> DEFINE c == r.channel
             n == nextMessageId[c]
             calls == {[channel |-> c, body |-> p.body, drained |-> TRUE] :
                         p \in PendingAt(c, n + 1)}
  <2>1. r \in Running /\ c \in Channels /\ n \in Nat
    BY Zenon DEF TypeOK, Running
  <2>2. r.body.handle \in Handles /\ r.body.id \in Nat
    BY Zenon, <2>1 DEF Running, Body
  <2>3. delivered' \in [Handles -> Seq(Nat)]
    BY <1>10, <2>2 DEF OnMessage, Deliver, TypeOK
  <2>4. calls \in SUBSET Running
    <3>1. \A p \in PendingAt(c, n + 1) :
            [channel |-> c, body |-> p.body, drained |-> TRUE] \in Running
      BY Zenon, <2>1 DEF PendingAt, TypeOK, Pending, Running
    <3>2. QED BY Zenon, <3>1
  <2>5. running' \in SUBSET Running
    BY Zenon, <1>10, <2>4 DEF OnMessage
  <2>6. nextMessageId' \in [Channels -> Nat] /\ pendingMessages' \in SUBSET Pending
    BY <1>10, <2>1 DEF OnMessage, TypeOK
  <2>7. UNCHANGED <<rust, flight, closed, page, callbacks,
                    customProtocolIpcFailed, lost, thrown>>
    BY Zenon, <1>10 DEF OnMessage
  <2>8. QED BY Zenon, <2>3, <2>5, <2>6, <2>7 DEF TypeOK
<1>11. ASSUME NEW r \in running, OnMessageThrows(r) PROVE TypeOK'
  <2>1. r.channel \in Channels /\ r.body.handle \in Handles /\ r.body.id \in Nat
    BY Zenon DEF TypeOK, Running, Body
  <2>2. delivered' \in [Handles -> Seq(Nat)]
    BY <1>11, <2>1 DEF OnMessageThrows, Deliver, TypeOK
  <2>3. QED BY Zenon, <1>11, <2>1, <2>2 DEF OnMessageThrows, TypeOK
<1>12. CASE Load
  <2>1. page' \in Nat
    BY <1>12 DEF Load, TypeOK
  <2>2. callbacks' = {} /\ customProtocolIpcFailed' = FALSE /\ running' = {}
    BY Zenon, <1>12 DEF Load
  <2>3. UNCHANGED <<rust, flight, closed, nextMessageId, pendingMessages, history>>
    BY Zenon, <1>12 DEF Load
  <2>4. QED BY Zenon, <2>1, <2>2, <2>3 DEF TypeOK
<1>13. CASE Close
  BY Zenon, <1>13 DEF Close, TypeOK
<1>14. QED
  BY Zenon, <1>1, <1>2, <1>3, <1>4, <1>5, <1>6, <1>7, <1>8, <1>9, <1>10, <1>11, <1>12,
     <1>13 DEF Next, RustStep, PageStep

-----------------------------------------------------------------------------
(* Messages on their way *)

\* The message m becomes n on its way: it keeps its name and its data id, and
\* gets no response but from the data queue.
MovedTo(m, n) ==
  /\ flight' = (flight \ {m}) \cup {n}
  /\ n.handle = m.handle /\ n.id = m.id /\ n.data = m.data
  /\ \/ n.response \subseteq m.response
     \/ n.response = {e.body : e \in {d \in data_queue : d.data = m.data}}
  /\ data_queue' \subseteq data_queue
  /\ UNCHANGED <<counter, data_counter, sending, nextMessageId, pendingMessages,
                 running, delivered, thrown>>

\* webview.eval, the script, the fetch command and its repetition by postMessage
\* only move a message on.
LEMMA Moves ==
  ASSUME TypeOK, NEW m \in flight,
         (Eval(m) /\ ~closed) \/ Fetch(m) \/ RunScript(m) \/ FetchRejected(m)
  PROVE  \E n : MovedTo(m, n)
<1> USE DEF MovedTo, Move, NotFound, rust, js, history
<1>0. m \in Message
  BY Zenon DEF TypeOK
<1>1. CASE Eval(m) /\ ~closed
  <2> DEFINE n == [m EXCEPT !.stage = "script"]
  <2>1. n.handle = m.handle /\ n.id = m.id /\ n.data = m.data
        /\ n.response = m.response
    BY Zenon, <1>0 DEF Message
  <2>2. flight' = (flight \ {m}) \cup {n}
    BY Zenon, <1>1 DEF Eval
  <2>3. UNCHANGED <<rust, js, delivered, thrown>>
    BY Zenon, <1>1 DEF Eval
  <2> HIDE DEF n
  <2>4. QED BY Zenon, <2>1, <2>2, <2>3
<1>2. CASE Fetch(m)
  <2> DEFINE a == {e.body : e \in {d \in data_queue : d.data = m.data}}
             n == [m EXCEPT !.stage = "answer", !.response = a]
  <2>1. n.handle = m.handle /\ n.id = m.id /\ n.data = m.data /\ n.response = a
    BY Zenon, <1>0 DEF Message
  <2>2. flight' = (flight \ {m}) \cup {n}
    BY Zenon, <1>2 DEF Fetch
  <2>3. UNCHANGED <<counter, data_counter, sending, js, history>>
        /\ data_queue' \subseteq data_queue
    BY Zenon, <1>2 DEF Fetch
  <2> HIDE DEF n
  <2>4. QED BY Zenon, <1>2, <2>1, <2>2, <2>3
<1>3. CASE RunScript(m)
  <2> DEFINE n == [m EXCEPT !.stage = "request", !.page = page,
                            !.post = customProtocolIpcFailed]
  <2>1. n.handle = m.handle /\ n.id = m.id /\ n.data = m.data
        /\ n.response = m.response
    BY Zenon, <1>0 DEF Message
  <2>2. flight' = (flight \ {m}) \cup {n}
    BY Zenon, <1>3 DEF RunScript
  <2>3. UNCHANGED <<rust, js, history>>
    BY Zenon, <1>3 DEF RunScript
  <2> HIDE DEF n
  <2>4. QED BY Zenon, <2>1, <2>2, <2>3
<1>4. CASE FetchRejected(m)
  <2> DEFINE n == [m EXCEPT !.stage = "request", !.post = TRUE,
                            !.response = NotFound]
  <2>1. n.handle = m.handle /\ n.id = m.id /\ n.data = m.data /\ n.response = {}
    BY Zenon, <1>0 DEF Message
  <2>2. flight' = (flight \ {m}) \cup {n}
    BY Zenon, <1>4 DEF FetchRejected
  <2>3. UNCHANGED <<rust, nextMessageId, pendingMessages, running, history>>
    BY Zenon, <1>4 DEF FetchRejected
  <2> HIDE DEF n
  <2>4. QED BY Zenon, <2>1, <2>2, <2>3
<1>5. QED BY Zenon, <1>1, <1>2, <1>3, <1>4

\* Every step keeps the data ids apart.
LEMMA DataStep == TypeOK /\ DataInv /\ [Next]_vars => DataInv'
<1> SUFFICES ASSUME TypeOK, DataInv, [Next]_vars PROVE DataInv'
  BY Zenon
<1> USE DEF rust, js, history
<1>1. ASSUME UNCHANGED <<flight, data_queue, data_counter>> PROVE DataInv'
  BY Zenon, <1>1 DEF DataInv, Name
<1>2. ASSUME NEW m \in flight, flight' = flight \ {m},
             UNCHANGED <<data_queue, data_counter>>
      PROVE  DataInv'
  BY Zenon, <1>2 DEF DataInv, Name
<1>3. ASSUME NEW m \in flight, NEW n, MovedTo(m, n) PROVE DataInv'
  <2>1. Name(n) = Name(m)
    BY Zenon, <1>3 DEF MovedTo, Name
  <2>2. n.response \subseteq {Name(m)}
    BY <1>3 DEF MovedTo, DataInv
  <2>3. \A k \in flight' : k \in flight \/ k = n
    BY Zenon, <1>3 DEF MovedTo
  <2>4. \A k \in flight' : k.data < data_counter' /\ k.response \subseteq {Name(k)}
    BY Zenon, <1>3, <2>1, <2>2, <2>3 DEF MovedTo, DataInv
  <2>5. \A e \in data_queue' : e.data < data_counter'
    BY Zenon, <1>3 DEF MovedTo, DataInv
  <2>6. \A e \in data_queue', k \in flight' : e.data = k.data => e.body = Name(k)
    BY <1>3, <2>1, <2>3 DEF MovedTo, DataInv
  <2>7. QED BY Zenon, <2>4, <2>5, <2>6 DEF DataInv, Name
<1>4. ASSUME NEW s \in sending, Enqueue(s) PROVE DataInv'
  <2> DEFINE m == [handle |-> s.handle, id |-> s.id, data |-> data_counter,
                   stage |-> "queued", page |-> 0, post |-> FALSE,
                   response |-> NotFound]
             d == [data |-> data_counter, body |-> s]
  <2>1. Name(m) = s /\ m.response = {} /\ m.data = data_counter
    BY Zenon DEF Name, NotFound, TypeOK, Body
  <2>2. d.data = data_counter /\ d.body = s
    BY Zenon
  <2>3. \A k \in flight' : k \in flight \/ k = m
    BY Zenon, <1>4 DEF Enqueue
  <2>4. \A e \in data_queue' : e \in data_queue \/ e = d
    BY Zenon, <1>4 DEF Enqueue
  <2> HIDE DEF m, d
  <2>5. data_counter \in Nat /\ data_counter' = data_counter + 1
    BY Zenon, <1>4 DEF Enqueue, TypeOK
  <2>6. (\A k \in flight : k.data \in Nat) /\ (\A e \in data_queue : e.data \in Nat)
    BY Zenon DEF TypeOK, Message, Entry
  <2>7. \A k \in flight' : k.data < data_counter' /\ k.response \subseteq {Name(k)}
    BY <2>1, <2>3, <2>5, <2>6 DEF DataInv
  <2>8. \A e \in data_queue' : e.data < data_counter'
    BY <2>2, <2>4, <2>5, <2>6 DEF DataInv
  <2>9. \A e \in data_queue', k \in flight' : e.data = k.data => e.body = Name(k)
    BY <2>1, <2>2, <2>3, <2>4, <2>5, <2>6 DEF DataInv
  <2>10. QED BY Zenon, <2>7, <2>8, <2>9 DEF DataInv, Name
<1>5. CASE UNCHANGED vars
  BY Zenon, <1>1, <1>5 DEF vars
<1>6. ASSUME NEW h \in Handles, TakeIndex(h) PROVE DataInv'
  BY Zenon, <1>1, <1>6 DEF TakeIndex
<1>7. ASSUME NEW s \in sending, Intercept(s) PROVE DataInv'
  BY Zenon, <1>1, <1>7 DEF Intercept
<1>8. ASSUME NEW m \in flight, Eval(m) /\ closed PROVE DataInv'
  BY Zenon, <1>2, <1>8 DEF Eval
<1>9. ASSUME NEW m \in flight,
             (Eval(m) /\ ~closed) \/ Fetch(m) \/ RunScript(m) \/ FetchRejected(m)
      PROVE  DataInv'
  BY Zenon, <1>3, <1>9, Moves
<1>10. ASSUME NEW m \in flight, Receive(m) PROVE DataInv'
  BY Zenon, <1>2, <1>10 DEF Receive
<1>11. ASSUME NEW r \in running, OnMessage(r) \/ OnMessageThrows(r) PROVE DataInv'
  BY Zenon, <1>1, <1>11 DEF OnMessage, OnMessageThrows
<1>12. CASE Load \/ Close
  BY Zenon, <1>1, <1>12 DEF Load, Close
<1>13. QED
  BY ZenonT(30), <1>4, <1>5, <1>6, <1>7, <1>8, <1>9, <1>10, <1>11, <1>12
     DEF Next, RustStep, PageStep

-----------------------------------------------------------------------------
(* The page *)

\* onmessage is called with the message that is next in the order of sending.
LEMMA CallsInTurn ==
  ASSUME TypeOK, RunningInv, CountInv, NEW r \in running,
         OnMessage(r) \/ OnMessageThrows(r)
  PROVE  /\ r \in Running
         /\ r.body.handle \in Handles
         /\ r.body.id = Len(delivered[r.body.handle])
         /\ r.body.id = nextMessageId[r.channel]
         /\ delivered' = [delivered EXCEPT ![r.body.handle] =
                            Append(@, Len(delivered[r.body.handle]))]
         /\ \A h \in Handles :
              Len(delivered'[h]) = IF h = r.body.handle
                                     THEN Len(delivered[h]) + 1
                                     ELSE Len(delivered[h])
         /\ UNCHANGED <<counter, sending, flight>>
<1>1. r \in Running /\ r.body.handle \in Handles
  BY Zenon DEF TypeOK, Running, Body
<1>2. r.body.id = nextMessageId[r.channel] /\ r.channel \notin thrown
      /\ r.channel = ChannelOf[r.body.handle]
  BY Zenon DEF RunningInv
<1>3. nextMessageId[r.channel] \in Nat
  BY Zenon, <1>1 DEF TypeOK, Running
<1>4. r.body.id = Len(delivered[r.body.handle])
  BY <1>1, <1>2, <1>3 DEF CountInv
<1>5. delivered' = [delivered EXCEPT ![r.body.handle] = Append(@, r.body.id)]
  BY Zenon DEF OnMessage, OnMessageThrows, Deliver
<1>6. \A h \in Handles :
        Len(delivered'[h]) = IF h = r.body.handle THEN Len(delivered[h]) + 1
                                                  ELSE Len(delivered[h])
  BY <1>1, <1>3, <1>2, <1>5 DEF TypeOK
<1>7. UNCHANGED <<counter, sending, flight>>
  BY Zenon DEF OnMessage, OnMessageThrows, rust
<1>8. QED BY Zenon, <1>1, <1>2, <1>4, <1>5, <1>6, <1>7

\* Every step keeps the messages on their way distinct and not yet delivered.
LEMMA TransitStep ==
  TypeOK /\ TransitInv /\ RunningInv /\ CountInv /\ InOrder /\ [Next]_vars
    => TransitInv'
<1> SUFFICES ASSUME TypeOK, TransitInv, RunningInv, CountInv, InOrder, [Next]_vars
             PROVE  TransitInv'
  BY Zenon
<1> USE DEF rust, js, history
<1>0. /\ sending \in SUBSET Body /\ flight \in SUBSET Message
      /\ counter \in [Handles -> Nat] /\ delivered \in [Handles -> Seq(Nat)]
  BY Zenon DEF TypeOK
<1>1. ASSUME UNCHANGED <<counter, delivered>>, flight' \subseteq flight,
             sending' \subseteq sending
      PROVE  TransitInv'
  BY Zenon, <1>1 DEF TransitInv, Name
<1>2. ASSUME NEW m \in flight, NEW n, MovedTo(m, n) PROVE TransitInv'
  <2>1. Name(n) = Name(m)
    BY Zenon, <1>2 DEF MovedTo, Name
  <2>2. \A k \in flight' : k \in flight \ {m} \/ k = n
    BY Zenon, <1>2 DEF MovedTo
  <2>3. \A s \in sending' : /\ s.id < counter'[s.handle]
                            /\ Len(delivered'[s.handle]) <= s.id
    BY Zenon, <1>2 DEF MovedTo, TransitInv
  <2>4. \A k \in flight' : /\ k.id < counter'[k.handle]
                           /\ Len(delivered'[k.handle]) <= k.id
                           /\ Name(k) \notin sending'
    BY Zenon, <1>2, <2>1, <2>2 DEF MovedTo, TransitInv
  <2>5. \A k, l \in flight' : Name(k) = Name(l) => k = l
    BY Zenon, <2>1, <2>2 DEF TransitInv
  <2>6. QED BY Zenon, <2>3, <2>4, <2>5 DEF TransitInv, Name
<1>3. ASSUME NEW h \in Handles, TakeIndex(h) PROVE TransitInv'
  <2> DEFINE new == [handle |-> h, id |-> counter[h]]
  <2>1. new.handle = h /\ new.id = counter[h]
    BY Zenon
  <2>2. \A s \in sending' : s \in sending \/ s = new
    BY Zenon, <1>3 DEF TakeIndex
  <2>3. \A m \in flight : Name(m) # new
    <3>1. ASSUME NEW m \in flight, Name(m) = new PROVE FALSE
      <4>1. m.handle = h /\ m.id = counter[h]
        BY Zenon, <3>1 DEF Name
      <4>2. m.id < counter[m.handle]
        BY Zenon DEF TransitInv
      <4>3. QED BY <1>0, <4>1, <4>2
    <3>2. QED BY Zenon, <3>1
  <2> HIDE DEF new
  <2>4. \A g \in Handles : counter'[g] = IF g = h THEN counter[h] + 1 ELSE counter[g]
    BY Zenon, <1>0, <1>3 DEF TakeIndex
  <2>a. \A g \in Handles : counter[g] \in Nat /\ counter'[g] \in Nat /\ counter[g] <= counter'[g]
    BY <1>0, <2>4
  <2>5. UNCHANGED <<flight, delivered>>
    BY Zenon, <1>3 DEF TakeIndex
  <2>6. \A s \in sending' : /\ s.id < counter'[s.handle]
                            /\ Len(delivered'[s.handle]) <= s.id
    <3>1. new.id < counter'[new.handle] /\ Len(delivered'[new.handle]) <= new.id
      BY <1>0, <2>1, <2>4, <2>5 DEF InOrder
    <3>2. ASSUME NEW s \in sending
          PROVE  s.id < counter'[s.handle] /\ Len(delivered'[s.handle]) <= s.id
      <4>1. s.handle \in Handles /\ s.id \in Nat /\ s.id < counter[s.handle]
            /\ Len(delivered[s.handle]) <= s.id
        BY Zenon, <1>0 DEF Body, TransitInv
      <4>2. QED BY <2>a, <2>5, <4>1
    <3>3. QED BY Zenon, <2>2, <3>1, <3>2
  <2>7. \A m \in flight' : /\ m.id < counter'[m.handle]
                           /\ Len(delivered'[m.handle]) <= m.id
                           /\ Name(m) \notin sending'
    <3>1. ASSUME NEW m \in flight
          PROVE  m.id < counter'[m.handle] /\ Len(delivered'[m.handle]) <= m.id
      <4>1. m.handle \in Handles /\ m.id \in Nat /\ m.id < counter[m.handle]
            /\ Len(delivered[m.handle]) <= m.id
        BY Zenon, <1>0 DEF Message, TransitInv
      <4>2. QED BY <2>a, <2>5, <4>1
    <3>2. \A m \in flight : Name(m) \notin sending'
      BY Zenon, <2>2, <2>3 DEF TransitInv
    <3>3. QED BY Zenon, <2>5, <3>1, <3>2
  <2>8. QED BY Zenon, <2>5, <2>6, <2>7 DEF TransitInv, Name
<1>4. ASSUME NEW s \in sending, Enqueue(s) PROVE TransitInv'
  <2> DEFINE m == [handle |-> s.handle, id |-> s.id, data |-> data_counter,
                   stage |-> "queued", page |-> 0, post |-> FALSE,
                   response |-> NotFound]
  <2>1. Name(m) = s /\ m.id = s.id /\ m.handle = s.handle
    BY Zenon, <1>0 DEF Name, Body
  <2>2. \A k \in flight' : k \in flight \/ k = m
    BY Zenon, <1>4 DEF Enqueue
  <2> HIDE DEF m
  <2>3. sending' = sending \ {s} /\ UNCHANGED <<counter, delivered>>
    BY Zenon, <1>4 DEF Enqueue
  <2>4. \A k \in flight : Name(k) # s
    BY Zenon DEF TransitInv
  <2>5. \A k \in flight' : /\ k.id < counter'[k.handle]
                           /\ Len(delivered'[k.handle]) <= k.id
                           /\ Name(k) \notin sending'
    BY Zenon, <2>1, <2>2, <2>3 DEF TransitInv
  <2>6. \A k, l \in flight' : Name(k) = Name(l) => k = l
    BY Zenon, <2>1, <2>2, <2>4 DEF TransitInv
  <2>7. QED BY Zenon, <2>3, <2>5, <2>6 DEF TransitInv, Name
<1>5. CASE UNCHANGED vars
  BY Zenon, <1>1, <1>5 DEF vars
<1>6. ASSUME NEW s \in sending, Intercept(s) PROVE TransitInv'
  BY Zenon, <1>1, <1>6 DEF Intercept
<1>7. ASSUME NEW m \in flight, Eval(m) /\ closed PROVE TransitInv'
  BY Zenon, <1>1, <1>7 DEF Eval
<1>8. ASSUME NEW m \in flight,
             (Eval(m) /\ ~closed) \/ Fetch(m) \/ RunScript(m) \/ FetchRejected(m)
      PROVE  TransitInv'
  BY Zenon, <1>2, <1>8, Moves
<1>9. ASSUME NEW m \in flight, Receive(m) PROVE TransitInv'
  BY Zenon, <1>1, <1>9 DEF Receive
<1>10. ASSUME NEW r \in running, OnMessage(r) \/ OnMessageThrows(r)
       PROVE  TransitInv'
  <2> DEFINE b == r.body
  <2>1. /\ b.handle \in Handles /\ b.id = Len(delivered[b.handle])
        /\ \A h \in Handles :
             Len(delivered'[h]) = IF h = b.handle THEN Len(delivered[h]) + 1
                                                  ELSE Len(delivered[h])
        /\ UNCHANGED <<counter, sending, flight>>
    BY Zenon, <1>10, CallsInTurn
  <2>2. b \in Body /\ b \notin sending /\ \A m \in flight : Name(m) # b
    BY Zenon DEF RunningInv, TypeOK, Running
  <2> HIDE DEF b
  <2>3. ASSUME NEW s \in sending
        PROVE  Len(delivered'[s.handle]) <= s.id /\ s.id < counter'[s.handle]
    <3>1. s \in Body /\ s.id < counter[s.handle] /\ Len(delivered[s.handle]) <= s.id
      BY Zenon, <1>0 DEF TransitInv
    <3>2. s.handle = b.handle => s.id # b.id
      BY <2>2, <3>1 DEF Body
    <3>3. QED BY <1>0, <2>1, <3>1, <3>2 DEF Body
  <2>4. ASSUME NEW m \in flight
        PROVE  Len(delivered'[m.handle]) <= m.id /\ m.id < counter'[m.handle]
    <3>1. m \in Message /\ m.id < counter[m.handle]
          /\ Len(delivered[m.handle]) <= m.id
      BY Zenon, <1>0 DEF TransitInv
    <3>2. m.handle = b.handle => m.id # b.id
      BY Zenon, <2>2, <3>1 DEF Body, Name, Message
    <3>3. QED BY <1>0, <2>1, <3>1, <3>2 DEF Message
  <2>5. QED BY Zenon, <2>1, <2>3, <2>4 DEF TransitInv, Name
<1>11. CASE Load \/ Close
  BY Zenon, <1>1, <1>11 DEF Load, Close
<1>12. QED
  BY Zenon, <1>3, <1>4, <1>5, <1>6, <1>7, <1>8, <1>9, <1>10, <1>11
     DEF Next, RustStep, PageStep

-----------------------------------------------------------------------------
(* The initial state, and types *)

\* Before the first send (channel_on has just made the handles) the invariant
\* holds: nothing is on its way and every counter is 0.
LEMMA InitIInv == Init => IInv
<1> SUFFICES ASSUME Init PROVE IInv
  BY Zenon
<1>1. TypeOK
  <2>1. /\ counter \in [Handles -> Nat] /\ nextMessageId \in [Channels -> Nat]
        /\ delivered \in [Handles -> Seq(Nat)]
    BY DEF Init
  <2>2. data_counter \in Nat /\ page \in Nat
    BY Zenon DEF Init
  <2>3. closed \in BOOLEAN /\ customProtocolIpcFailed \in BOOLEAN
    BY Zenon DEF Init
  <2>4. /\ data_queue = {} /\ sending = {} /\ flight = {} /\ callbacks = Channels
        /\ pendingMessages = {} /\ running = {} /\ lost = {} /\ thrown = {}
    BY Zenon DEF Init
  <2>5. QED BY Zenon, <2>1, <2>2, <2>3, <2>4 DEF TypeOK
<1>2. DataInv /\ TransitInv /\ PendingInv /\ RunningInv
  BY Zenon DEF Init, DataInv, TransitInv, PendingInv, RunningInv
<1>3. CountInv /\ InOrder
  BY ChannelAssumption DEF Init, CountInv, InOrder
<1>4. QED BY Zenon, <1>1, <1>2, <1>3 DEF IInv

\* The state of the channels is always of its type, even when channels share
\* handles.
THEOREM TypeCorrect == Spec => []TypeOK
<1>1. Init => TypeOK
  BY Zenon, InitIInv DEF IInv
<1>2. QED BY <1>1, TypeStep, PTL DEF Spec

-----------------------------------------------------------------------------
(* Messages in the page *)

\* What the page holds of a channel belongs to its one handle, so the index tells
\* pending messages apart.
LEMMA PendingUnique ==
  ASSUME TypeOK, PendingInv, OneHandlePerChannel,
         NEW p \in pendingMessages, NEW h \in Handles,
         p.channel = ChannelOf[h]
  PROVE  p.body = [handle |-> h, id |-> p.id]
<1>1. p.body \in Body
  BY Zenon DEF TypeOK, Pending
<1>2. p.body.handle = h
  BY <1>1 DEF PendingInv, OneHandlePerChannel, Body
<1>3. p.body.id = p.id
  BY Zenon DEF PendingInv
<1>4. QED BY Zenon, <1>1, <1>2, <1>3 DEF Body

\* Every step keeps the pending messages under their own index and not passed over.
LEMMA PendingStep ==
  OneHandlePerChannel /\ IInv /\ [Next]_vars => PendingInv'
<1> SUFFICES ASSUME OneHandlePerChannel, TypeOK, DataInv, TransitInv, PendingInv,
                    RunningInv, CountInv, InOrder, [Next]_vars
             PROVE  PendingInv'
  BY Zenon DEF IInv
<1> USE DEF rust, js, history
<1>0. /\ sending \in SUBSET Body /\ flight \in SUBSET Message
      /\ counter \in [Handles -> Nat] /\ delivered \in [Handles -> Seq(Nat)]
      /\ pendingMessages \in SUBSET Pending /\ nextMessageId \in [Channels -> Nat]
  BY Zenon DEF TypeOK
<1>1. ASSUME UNCHANGED <<counter, nextMessageId, pendingMessages>>,
             flight' \subseteq flight, sending' \subseteq sending
      PROVE  PendingInv'
  BY Zenon, <1>1 DEF PendingInv, Name
<1>2. ASSUME NEW m \in flight, NEW n, MovedTo(m, n) PROVE PendingInv'
  <2>1. Name(n) = Name(m)
    BY Zenon, <1>2 DEF MovedTo, Name
  <2>2. \A k \in flight' : k \in flight \/ k = n
    BY Zenon, <1>2 DEF MovedTo
  <2>3. \A p \in pendingMessages : \A k \in flight' : Name(k) # p.body
    BY Zenon, <2>1, <2>2 DEF PendingInv
  <2>4. QED BY Zenon, <1>2, <2>3 DEF MovedTo, PendingInv, Name
<1>3. ASSUME NEW h \in Handles, TakeIndex(h) PROVE PendingInv'
  <2>1. UNCHANGED <<flight, nextMessageId, pendingMessages>>
    BY Zenon, <1>3 DEF TakeIndex
  <2>2. ASSUME NEW p \in pendingMessages
        PROVE  p.id < counter'[p.body.handle] /\ p.body \notin sending'
    <3>1. p.body.handle \in Handles /\ p.id \in Nat /\ p.id = p.body.id
          /\ p.id < counter[p.body.handle] /\ p.body \notin sending
      BY Zenon, <1>0 DEF PendingInv, Pending, Body
    <3>2. p.id < counter'[p.body.handle]
      BY <1>0, <1>3, <3>1 DEF TakeIndex
    <3>3. p.body # [handle |-> h, id |-> counter[h]]
      BY <1>0, <3>1
    <3>4. QED BY Zenon, <1>3, <3>1, <3>2, <3>3 DEF TakeIndex
  <2>3. QED BY Zenon, <2>1, <2>2 DEF PendingInv, Name
<1>4. ASSUME NEW s \in sending, Enqueue(s) PROVE PendingInv'
  <2> DEFINE m == [handle |-> s.handle, id |-> s.id, data |-> data_counter,
                   stage |-> "queued", page |-> 0, post |-> FALSE,
                   response |-> NotFound]
  <2>1. Name(m) = s
    BY Zenon, <1>0 DEF Name, Body
  <2>2. \A k \in flight' : k \in flight \/ k = m
    BY Zenon, <1>4 DEF Enqueue
  <2> HIDE DEF m
  <2>3. sending' \subseteq sending
        /\ UNCHANGED <<counter, nextMessageId, pendingMessages>>
    BY Zenon, <1>4 DEF Enqueue
  <2>4. \A p \in pendingMessages : \A k \in flight' : Name(k) # p.body
    BY Zenon, <2>1, <2>2 DEF PendingInv
  <2>5. QED BY Zenon, <2>3, <2>4 DEF PendingInv, Name
<1>5. CASE UNCHANGED vars
  BY Zenon, <1>1, <1>5 DEF vars
<1>6. ASSUME NEW s \in sending, Intercept(s) PROVE PendingInv'
  BY Zenon, <1>1, <1>6 DEF Intercept
<1>7. ASSUME NEW m \in flight, Eval(m) /\ closed PROVE PendingInv'
  BY Zenon, <1>1, <1>7 DEF Eval
<1>8. ASSUME NEW m \in flight,
             (Eval(m) /\ ~closed) \/ Fetch(m) \/ RunScript(m) \/ FetchRejected(m)
      PROVE  PendingInv'
  BY Zenon, <1>2, <1>8, Moves
<1>9. ASSUME NEW m \in flight, Receive(m) PROVE PendingInv'
  <2> DEFINE c == ChannelOf[m.handle]
             new == [channel |-> c, id |-> m.id, body |-> Name(m)]
  <2>1. UNCHANGED <<counter, sending, nextMessageId>> /\ flight' = flight \ {m}
    BY Zenon, <1>9 DEF Receive
  <2>2. m.response \subseteq {Name(m)}
    BY Zenon DEF DataInv
  <2>3. \A p \in pendingMessages' : p \in pendingMessages \/ p = new
    BY Zenon, <1>9, <2>2 DEF Receive
  <2>4. m.handle \in Handles /\ m.id \in Nat /\ c \in Channels
    BY Zenon, <1>0, ChannelAssumption DEF Message
  <2>5. new \in pendingMessages' =>
          /\ m.id < counter[m.handle] /\ nextMessageId[c] <= m.id
          /\ Name(m) \notin sending
          /\ \A k \in flight \ {m} : Name(k) # Name(m)
    <3>1. Len(delivered[m.handle]) <= m.id
      BY Zenon DEF TransitInv
    <3>2. nextMessageId[c] <= Len(delivered[m.handle])
      BY <1>0, <2>4 DEF CountInv
    <3>3. nextMessageId[c] <= m.id
      BY <1>0, <2>4, <3>1, <3>2
    <3>4. QED BY Zenon, <3>3 DEF TransitInv
  <2>6. new.channel = c /\ new.id = m.id /\ new.body = Name(m)
        /\ Name(m).handle = m.handle /\ Name(m).id = m.id
    BY Zenon DEF Name
  <2> HIDE DEF new
  <2>7. ASSUME NEW p \in pendingMessages'
        PROVE  /\ p.channel = ChannelOf[p.body.handle] /\ p.id = p.body.id
               /\ p.id < counter[p.body.handle] /\ nextMessageId[p.channel] <= p.id
               /\ p.body \notin sending
               /\ \A k \in flight \ {m} : Name(k) # p.body
    <3>1. CASE p \in pendingMessages
      BY Zenon, <3>1 DEF PendingInv
    <3>2. CASE p = new
      BY Zenon, <2>5, <2>6, <3>2
    <3>3. QED BY Zenon, <2>3, <3>1, <3>2
  <2>8. QED BY Zenon, <2>1, <2>7 DEF PendingInv, Name
<1>10. ASSUME NEW r \in running, OnMessage(r) PROVE PendingInv'
  <2> DEFINE c == r.channel
             k == nextMessageId[c]
  <2>1. r \in Running /\ r.body.handle \in Handles /\ c = ChannelOf[r.body.handle]
        /\ r.body.id = k
    BY Zenon DEF RunningInv, TypeOK, Running, Body
  <2>2. c \in Channels /\ k \in Nat
    BY Zenon, <1>0, <2>1 DEF Running
  <2>3. UNCHANGED <<counter, sending, flight>> /\ pendingMessages' \subseteq pendingMessages
        /\ nextMessageId' = [nextMessageId EXCEPT ![c] = k + 1]
    BY Zenon, <1>10 DEF OnMessage
  <2>4. ASSUME NEW p \in pendingMessages', p.channel = c PROVE p.id # k
    <3>1. p \in pendingMessages
      BY Zenon, <2>3
    <3>2. CASE r.drained
      BY Zenon, <1>10, <2>4, <3>1, <3>2 DEF OnMessage, PendingAt
    <3>3. CASE ~r.drained
      <4>1. p.body # r.body
        BY Zenon, <3>1, <3>3 DEF RunningInv
      <4>2. p.body = [handle |-> r.body.handle, id |-> p.id]
        BY ZenonT(30), <2>1, <2>4, <3>1, PendingUnique
      <4>3. r.body = [handle |-> r.body.handle, id |-> k]
        BY Zenon, <2>1 DEF Running, Body
      <4>4. QED BY Zenon, <4>1, <4>2, <4>3
    <3>4. QED BY Zenon, <3>2, <3>3
  <2>5. ASSUME NEW p \in pendingMessages' PROVE nextMessageId'[p.channel] <= p.id
    <3>1. p.id \in Nat /\ p.channel \in Channels /\ nextMessageId[p.channel] <= p.id
      BY Zenon, <1>0, <2>3 DEF PendingInv, Pending
    <3>2. QED BY <1>0, <2>2, <2>3, <2>4, <3>1
  <2>6. QED BY Zenon, <2>3, <2>5 DEF PendingInv, Name
<1>11. ASSUME NEW r \in running, OnMessageThrows(r) PROVE PendingInv'
  BY Zenon, <1>1, <1>11 DEF OnMessageThrows
<1>12. CASE Load \/ Close
  BY Zenon, <1>1, <1>12 DEF Load, Close
<1>13. QED
  BY Zenon, <1>3, <1>4, <1>5, <1>6, <1>7, <1>8, <1>9, <1>10, <1>11, <1>12
     DEF Next, RustStep, PageStep

\* Every step keeps onmessage to one call at a time, with the message whose turn
\* it is.
LEMMA RunningStep ==
  OneHandlePerChannel /\ IInv /\ [Next]_vars => RunningInv'
<1> SUFFICES ASSUME OneHandlePerChannel, TypeOK, DataInv, TransitInv, PendingInv,
                    RunningInv, CountInv, InOrder, [Next]_vars
             PROVE  RunningInv'
  BY Zenon DEF IInv
<1> USE DEF rust, js, history
<1>0. /\ sending \in SUBSET Body /\ flight \in SUBSET Message
      /\ counter \in [Handles -> Nat] /\ delivered \in [Handles -> Seq(Nat)]
      /\ pendingMessages \in SUBSET Pending /\ nextMessageId \in [Channels -> Nat]
      /\ running \in SUBSET Running
  BY Zenon DEF TypeOK
<1>1. ASSUME UNCHANGED <<counter, nextMessageId, pendingMessages, running, thrown>>,
             flight' \subseteq flight, sending' \subseteq sending
      PROVE  RunningInv'
  BY Zenon, <1>1 DEF RunningInv, Name
<1>2. ASSUME running' = {} PROVE RunningInv'
  BY Zenon, <1>2 DEF RunningInv
<1>3. ASSUME NEW m \in flight, NEW n, MovedTo(m, n) PROVE RunningInv'
  <2>1. Name(n) = Name(m)
    BY Zenon, <1>3 DEF MovedTo, Name
  <2>2. \A k \in flight' : k \in flight \/ k = n
    BY Zenon, <1>3 DEF MovedTo
  <2>3. \A r \in running : \A k \in flight' : Name(k) # r.body
    BY Zenon, <2>1, <2>2 DEF RunningInv
  <2>4. QED BY Zenon, <1>3, <2>3 DEF MovedTo, RunningInv, Name
<1>4. ASSUME NEW h \in Handles, TakeIndex(h) PROVE RunningInv'
  <2>1. UNCHANGED <<flight, nextMessageId, pendingMessages, running, thrown>>
    BY Zenon, <1>4 DEF TakeIndex
  <2>2. ASSUME NEW r \in running
        PROVE  r.body.id < counter'[r.body.handle] /\ r.body \notin sending'
    <3>1. r.body.handle \in Handles /\ r.body.id \in Nat
          /\ r.body.id < counter[r.body.handle] /\ r.body \notin sending
      BY Zenon, <1>0 DEF RunningInv, Running, Body
    <3>2. r.body.id < counter'[r.body.handle]
      BY <1>0, <1>4, <3>1 DEF TakeIndex
    <3>3. r.body # [handle |-> h, id |-> counter[h]]
      BY <1>0, <3>1
    <3>4. QED BY Zenon, <1>4, <3>1, <3>2, <3>3 DEF TakeIndex
  <2>3. QED BY Zenon, <2>1, <2>2 DEF RunningInv, Name
<1>5. ASSUME NEW s \in sending, Enqueue(s) PROVE RunningInv'
  <2> DEFINE m == [handle |-> s.handle, id |-> s.id, data |-> data_counter,
                   stage |-> "queued", page |-> 0, post |-> FALSE,
                   response |-> NotFound]
  <2>1. Name(m) = s
    BY Zenon, <1>0 DEF Name, Body
  <2>2. \A k \in flight' : k \in flight \/ k = m
    BY Zenon, <1>5 DEF Enqueue
  <2> HIDE DEF m
  <2>3. sending' \subseteq sending
        /\ UNCHANGED <<counter, nextMessageId, pendingMessages, running, thrown>>
    BY Zenon, <1>5 DEF Enqueue
  <2>4. \A r \in running : \A k \in flight' : Name(k) # r.body
    BY Zenon, <2>1, <2>2 DEF RunningInv
  <2>5. QED BY Zenon, <2>3, <2>4 DEF RunningInv, Name
<1>6. CASE UNCHANGED vars
  BY Zenon, <1>1, <1>6 DEF vars
<1>7. ASSUME NEW s \in sending, Intercept(s) PROVE RunningInv'
  BY Zenon, <1>1, <1>7 DEF Intercept
<1>8. ASSUME NEW m \in flight, Eval(m) /\ closed PROVE RunningInv'
  BY Zenon, <1>1, <1>8 DEF Eval
<1>9. ASSUME NEW m \in flight,
             (Eval(m) /\ ~closed) \/ Fetch(m) \/ RunScript(m) \/ FetchRejected(m)
      PROVE  RunningInv'
  BY Zenon, <1>3, <1>9, Moves
<1>10. ASSUME NEW m \in flight, Receive(m) PROVE RunningInv'
  <2> DEFINE c == ChannelOf[m.handle]
             call == [channel |-> c, body |-> Name(m), drained |-> FALSE]
  <2>1. m.handle \in Handles /\ m.id \in Nat /\ c \in Channels
    BY Zenon, <1>0, ChannelAssumption DEF Message
  <2>2. CASE m.response = NotFound \/ c \notin callbacks \/ m.id # nextMessageId[c]
    BY Zenon, <1>2, <1>10, <2>2 DEF Receive
  <2>3. CASE m.response # NotFound /\ c \in callbacks /\ m.id = nextMessageId[c]
    <3>1. UNCHANGED <<counter, sending, nextMessageId, pendingMessages, thrown>>
          /\ flight' = flight \ {m}
      BY Zenon, <1>10, <2>3 DEF Receive
    <3>2. \A q \in running' : q = call
      BY <1>10, <2>3 DEF Receive, DataInv
    <3>3. m.id < counter[m.handle] /\ Name(m) \notin sending
          /\ \A k \in flight \ {m} : Name(k) # Name(m)
      BY Zenon DEF TransitInv
    <3>4. c \notin thrown
      <4>1. Len(delivered[m.handle]) <= m.id
        BY Zenon DEF TransitInv
      <4>2. QED BY <1>0, <2>1, <2>3, <4>1 DEF CountInv
    <3>5. \A p \in pendingMessages : p.body # Name(m)
      BY Zenon DEF PendingInv
    <3>6. call.channel = c /\ call.body = Name(m) /\ Name(m).handle = m.handle
          /\ Name(m).id = m.id
      BY Zenon DEF Name
    <3> HIDE DEF call
    <3>7. QED BY <2>3, <3>1, <3>2, <3>3, <3>4, <3>5, <3>6 DEF RunningInv, Name
  <2>4. QED BY Zenon, <2>2, <2>3
<1>11. ASSUME NEW r \in running, OnMessage(r) PROVE RunningInv'
  <2> DEFINE c == r.channel
             k == nextMessageId[c]
  <2>1. r \in Running /\ r.body.handle \in Handles /\ c = ChannelOf[r.body.handle]
        /\ c \notin thrown
    BY Zenon, <1>0 DEF RunningInv, Running, Body
  <2>2. c \in Channels /\ k \in Nat
    BY Zenon, <1>0, <2>1 DEF Running
  <2>3. UNCHANGED <<counter, sending, flight, thrown>>
        /\ nextMessageId' = [nextMessageId EXCEPT ![c] = k + 1]
    BY Zenon, <1>11 DEF OnMessage
  <2>4. running' = {[channel |-> c, body |-> p.body, drained |-> TRUE] :
                      p \in PendingAt(c, k + 1)}
    BY Zenon, <1>11 DEF OnMessage
  <2>5. ASSUME NEW q \in running'
        PROVE  /\ q = [channel |-> c, body |-> [handle |-> r.body.handle,
                                                id |-> k + 1], drained |-> TRUE]
               /\ q.body.id < counter[r.body.handle]
               /\ q.body \notin sending
               /\ \A m \in flight : Name(m) # q.body
    <3>1. PICK p \in PendingAt(c, k + 1) :
            q = [channel |-> c, body |-> p.body, drained |-> TRUE]
      BY Zenon, <2>4
    <3>2. p \in pendingMessages /\ p.channel = c /\ p.id = k + 1
      BY Zenon DEF PendingAt
    <3>3. p.body = [handle |-> r.body.handle, id |-> k + 1]
      BY ZenonT(30), <2>1, <3>2, PendingUnique
    <3>4. q.body = p.body
      BY Zenon, <3>1
    <3>5. p.id < counter[p.body.handle] /\ p.body \notin sending
          /\ \A m \in flight : Name(m) # p.body
      BY Zenon, <3>2 DEF PendingInv
    <3>6. QED BY <3>1, <3>2, <3>3, <3>4, <3>5
  <2>6. ASSUME NEW q \in running'
        PROVE  /\ q.channel = ChannelOf[q.body.handle]
               /\ q.body.id = nextMessageId'[q.channel]
               /\ q.body.id < counter[q.body.handle]
               /\ q.channel \notin thrown
               /\ q.drained
    BY <1>0, <2>1, <2>2, <2>3, <2>5
  <2>7. \A q, l \in running' : q = l
    BY Zenon, <2>5
  <2>8. QED BY Zenon, <2>3, <2>5, <2>6, <2>7 DEF RunningInv, Name
<1>12. ASSUME NEW r \in running, OnMessageThrows(r) PROVE RunningInv'
  BY Zenon, <1>2, <1>12 DEF OnMessageThrows
<1>13. CASE Load
  BY Zenon, <1>2, <1>13 DEF Load
<1>14. CASE Close
  BY Zenon, <1>1, <1>14 DEF Close
<1>15. QED
  BY ZenonT(30), <1>4, <1>5, <1>6, <1>7, <1>8, <1>9, <1>10, <1>11, <1>12, <1>13, <1>14
     DEF Next, RustStep, PageStep

-----------------------------------------------------------------------------
(* What was delivered *)

\* A step that is not a call of onmessage delivers nothing, and takes no index but
\* the next.
LEMMA NotDelivering ==
  ASSUME TypeOK, [Next]_vars,
         ~ \E r \in running : OnMessage(r) \/ OnMessageThrows(r)
  PROVE  /\ UNCHANGED <<delivered, nextMessageId, thrown>>
         /\ \/ UNCHANGED counter
            \/ \E h \in Handles : counter' = [counter EXCEPT ![h] = @ + 1]
<1> USE DEF rust, js, history
<1>1. CASE UNCHANGED vars
  BY Zenon, <1>1 DEF vars
<1>2. ASSUME NEW h \in Handles, TakeIndex(h)
      PROVE  UNCHANGED <<delivered, nextMessageId, thrown>>
             /\ counter' = [counter EXCEPT ![h] = @ + 1]
  BY Zenon, <1>2 DEF TakeIndex
<1>3. ASSUME NEW s \in sending, Intercept(s) \/ Enqueue(s)
      PROVE  UNCHANGED <<delivered, nextMessageId, thrown, counter>>
  BY Zenon, <1>3 DEF Intercept, Enqueue
<1>4. ASSUME NEW m \in flight,
             Eval(m) \/ Fetch(m) \/ RunScript(m) \/ FetchRejected(m) \/ Receive(m)
      PROVE  UNCHANGED <<delivered, nextMessageId, thrown, counter>>
  BY Zenon, <1>4 DEF Eval, Fetch, RunScript, FetchRejected, Receive
<1>5. CASE Load \/ Close
  BY Zenon, <1>5 DEF Load, Close
<1>6. QED
  BY Zenon, <1>1, <1>2, <1>3, <1>4, <1>5 DEF Next, RustStep, PageStep

\* Every step keeps nextMessageId in step with what was delivered.
LEMMA CountStep == OneHandlePerChannel /\ IInv /\ [Next]_vars => CountInv'
<1> SUFFICES ASSUME OneHandlePerChannel, TypeOK, RunningInv, CountInv, [Next]_vars
             PROVE  CountInv'
  BY Zenon DEF IInv
<1>1. CASE ~ \E r \in running : OnMessage(r) \/ OnMessageThrows(r)
  BY Zenon, <1>1, NotDelivering DEF CountInv
<1>2. ASSUME NEW r \in running, OnMessage(r) \/ OnMessageThrows(r) PROVE CountInv'
  <2> DEFINE g == r.body.handle
             c == r.channel
  <2>1. g \in Handles /\ c = ChannelOf[g] /\ c \in Channels /\ c \notin thrown
    BY Zenon, ChannelAssumption DEF RunningInv, TypeOK, Running, Body
  <2>2. \A h \in Handles : Len(delivered'[h]) = IF h = g THEN Len(delivered[h]) + 1
                                                         ELSE Len(delivered[h])
    BY Zenon, <1>2, CallsInTurn
  <2>3. nextMessageId \in [Channels -> Nat] /\ \A h \in Handles : ChannelOf[h] \in Channels
    BY Zenon, ChannelAssumption DEF TypeOK
  <2>4. CASE OnMessage(r)
    <3>1. nextMessageId' = [nextMessageId EXCEPT ![c] = @ + 1] /\ UNCHANGED thrown
      BY Zenon, <2>4 DEF OnMessage
    <3>2. ASSUME NEW h \in Handles
          PROVE  Len(delivered'[h]) = nextMessageId'[ChannelOf[h]]
                                        + (IF ChannelOf[h] \in thrown' THEN 1 ELSE 0)
      <4>1. CASE h = g
        BY <2>1, <2>2, <2>3, <3>1, <4>1 DEF CountInv
      <4>2. CASE h # g
        <5>1. ChannelOf[h] # c
          BY Zenon, <2>1, <4>2 DEF OneHandlePerChannel
        <5>2. QED BY Zenon, <2>1, <2>2, <2>3, <3>1, <4>2, <5>1 DEF CountInv
      <4>3. QED BY Zenon, <4>1, <4>2
    <3>3. QED BY Zenon, <3>2 DEF CountInv
  <2>5. CASE OnMessageThrows(r)
    <3>1. nextMessageId' = nextMessageId /\ thrown' = thrown \cup {c}
      BY Zenon, <2>5 DEF OnMessageThrows
    <3>2. ASSUME NEW h \in Handles
          PROVE  Len(delivered'[h]) = nextMessageId'[ChannelOf[h]]
                                        + (IF ChannelOf[h] \in thrown' THEN 1 ELSE 0)
      <4>1. CASE h = g
        BY <2>1, <2>2, <2>3, <3>1, <4>1 DEF CountInv
      <4>2. CASE h # g
        <5>1. ChannelOf[h] # c
          BY Zenon, <2>1, <4>2 DEF OneHandlePerChannel
        <5>2. QED BY Zenon, <2>1, <2>2, <2>3, <3>1, <4>2, <5>1 DEF CountInv
      <4>3. QED BY Zenon, <4>1, <4>2
    <3>3. QED BY Zenon, <3>2 DEF CountInv
  <2>6. QED BY Zenon, <1>2, <2>4, <2>5
<1>3. QED BY Zenon, <1>1, <1>2

\* Every step keeps what was delivered a prefix of what was sent.
LEMMA OrderStep == IInv /\ [Next]_vars => InOrder'
<1> SUFFICES ASSUME TypeOK, RunningInv, CountInv, InOrder, [Next]_vars
             PROVE  InOrder'
  BY Zenon DEF IInv
<1>0. counter \in [Handles -> Nat] /\ delivered \in [Handles -> Seq(Nat)]
  BY Zenon DEF TypeOK
<1>1. CASE ~ \E r \in running : OnMessage(r) \/ OnMessageThrows(r)
  <2>1. delivered' = delivered
    BY Zenon, <1>1, NotDelivering
  <2>2. \A h \in Handles : counter[h] <= counter'[h] /\ counter'[h] \in Nat
    <3>1. CASE counter' = counter
      BY <1>0, <3>1
    <3>2. ASSUME NEW g \in Handles, counter' = [counter EXCEPT ![g] = @ + 1]
          PROVE  \A h \in Handles : counter[h] <= counter'[h] /\ counter'[h] \in Nat
      BY <1>0, <3>2
    <3>3. QED BY Zenon, <1>1, <3>1, <3>2, NotDelivering
  <2>3. QED BY <1>0, <2>1, <2>2 DEF InOrder
<1>2. ASSUME NEW r \in running, OnMessage(r) \/ OnMessageThrows(r) PROVE InOrder'
  <2> DEFINE g == r.body.handle
  <2>1. /\ g \in Handles /\ r.body.id = Len(delivered[g]) /\ counter' = counter
        /\ delivered' = [delivered EXCEPT ![g] = Append(@, Len(delivered[g]))]
    BY Zenon, <1>2, CallsInTurn
  <2>2. Len(delivered[g]) < counter[g]
    BY Zenon, <2>1 DEF RunningInv
  <2>3. ASSUME NEW h \in Handles
        PROVE  /\ Len(delivered'[h]) <= counter[h]
               /\ \A i \in DOMAIN delivered'[h] : delivered'[h][i] = i - 1
    <3>1. CASE h = g
      <4>1. delivered'[h] = Append(delivered[g], Len(delivered[g]))
        BY Zenon, <1>0, <2>1, <3>1
      <4>2. QED BY <1>0, <2>1, <2>2, <3>1, <4>1 DEF InOrder
    <3>2. CASE h # g
      BY Zenon, <1>0, <2>1, <3>2 DEF InOrder
    <3>3. QED BY Zenon, <3>1, <3>2
  <2>4. QED BY Zenon, <2>1, <2>3 DEF InOrder
<1>3. QED BY Zenon, <1>1, <1>2

-----------------------------------------------------------------------------
(* Theorems *)

\* IInv is inductive when every channel of the page has one handle.
THEOREM Inductive == ASSUME OneHandlePerChannel PROVE Spec => []IInv
<1>1. IInv /\ [Next]_vars => IInv'
  BY Zenon, OneHandlePerChannel, TypeStep, DataStep, TransitStep, PendingStep, RunningStep,
     CountStep, OrderStep DEF IInv
<1>2. QED BY InitIInv, <1>1, PTL DEF Spec

\* With one handle per channel, onmessage gets the messages in the order of the
\* calls of send, without gap or repetition, whatever threads, scripts, fetches,
\* retries, exceptions and page loads do.
THEOREM OrderPreserved == ASSUME OneHandlePerChannel PROVE Spec => []InOrder
<1>1. IInv => InOrder
  BY Zenon DEF IInv
<1>2. QED BY Inductive, <1>1, PTL

\* With one handle per channel, Channel implements OrderedChannel: taking an index
\* is the abstract Send, a call of onmessage the abstract Deliver, every other
\* step a stutter.
THEOREM Refinement ==
  ASSUME OneHandlePerChannel PROVE Spec => ImplementsOrderedChannel
<1>1. Init => Ordered!Init
  BY Zenon DEF Init, Ordered!Init
<1>2. IInv /\ [Next]_vars => [Ordered!Next]_Ordered!vars
  <2> SUFFICES ASSUME TypeOK, RunningInv, CountInv, [Next]_vars
               PROVE  [Ordered!Next]_Ordered!vars
    BY Zenon DEF IInv
  <2>1. CASE ~ \E r \in running : OnMessage(r) \/ OnMessageThrows(r)
    BY Zenon, <2>1, NotDelivering DEF Ordered!Next, Ordered!Send, Ordered!vars
  <2>2. ASSUME NEW r \in running, OnMessage(r) \/ OnMessageThrows(r)
        PROVE  Ordered!Deliver(r.body.handle) /\ r.body.handle \in Handles
    BY ZenonT(30), <2>2, CallsInTurn DEF Ordered!Deliver, RunningInv, TypeOK
  <2>3. QED BY Zenon, <2>1, <2>2 DEF Ordered!Next
<1>3. QED BY Inductive, <1>1, <1>2, PTL DEF Spec, ImplementsOrderedChannel, Ordered!Spec

-----------------------------------------------------------------------------
(* Nothing is left behind in the data queue *)

\* Every step leaves in the data queue only what some message will still fetch.
LEMMA QueueStep == TypeOK /\ QueueIsFetched /\ [Next]_vars => QueueIsFetched'
<1> SUFFICES ASSUME TypeOK, QueueIsFetched, [Next]_vars, ~closed', page' = 0,
                    NEW e \in data_queue'
             PROVE  \E m \in flight' : /\ m.data = e.data
                                       /\ m.stage \in {"queued", "script", "request"}
                                       /\ Name(m) = e.body
  BY Zenon DEF QueueIsFetched, Name
<1> USE DEF rust, js, history
<1> DEFINE Fetches(m) == /\ m.data = e.data
                         /\ m.stage \in {"queued", "script", "request"}
                         /\ Name(m) = e.body
<1>0. /\ sending \in SUBSET Body /\ flight \in SUBSET Message
      /\ data_queue \in SUBSET Entry /\ page \in Nat
  BY Zenon DEF TypeOK
<1>1. ASSUME UNCHANGED <<closed, page, data_queue, flight>>
      PROVE  \E m \in flight' : Fetches(m)
  BY Zenon, <1>1 DEF QueueIsFetched
<1>2. CASE UNCHANGED vars
  BY Zenon, <1>1, <1>2 DEF vars
<1>3. ASSUME NEW h \in Handles, TakeIndex(h) PROVE \E m \in flight' : Fetches(m)
  BY Zenon, <1>1, <1>3 DEF TakeIndex
<1>4. ASSUME NEW s \in sending, Intercept(s) PROVE \E m \in flight' : Fetches(m)
  BY Zenon, <1>1, <1>4 DEF Intercept
<1>5. ASSUME NEW s \in sending, Enqueue(s) PROVE \E m \in flight' : Fetches(m)
  <2> DEFINE n == [handle |-> s.handle, id |-> s.id, data |-> data_counter,
                   stage |-> "queued", page |-> 0, post |-> FALSE,
                   response |-> NotFound]
             d == [data |-> data_counter, body |-> s]
  <2>1. Name(n) = s /\ n.data = data_counter /\ n.stage = "queued"
    BY Zenon, <1>0 DEF Name, Body
  <2>2. d.data = data_counter /\ d.body = s
    BY Zenon
  <2>3. (e \in data_queue \/ e = d) /\ flight' = flight \cup {n}
        /\ UNCHANGED <<closed, page>>
    BY Zenon, <1>5 DEF Enqueue
  <2> HIDE DEF n, d
  <2>4. CASE e = d
    BY Zenon, <2>1, <2>2, <2>3, <2>4
  <2>5. CASE e \in data_queue
    BY Zenon, <2>3, <2>5 DEF QueueIsFetched
  <2>6. QED BY Zenon, <2>3, <2>4, <2>5
<1>6. ASSUME NEW m \in flight, NEW n, flight' = (flight \ {m}) \cup {n},
             Name(n) = Name(m), n.data = m.data,
             n.stage \in {"queued", "script", "request"},
             UNCHANGED <<closed, page, data_queue>>
      PROVE  \E k \in flight' : Fetches(k)
  <2>1. PICK k \in flight : Fetches(k)
    BY Zenon, <1>6 DEF QueueIsFetched
  <2>2. CASE k = m
    BY Zenon, <1>6, <2>1, <2>2
  <2>3. CASE k # m
    BY Zenon, <1>6, <2>1, <2>3
  <2>4. QED BY Zenon, <2>2, <2>3
<1>7. ASSUME NEW m \in flight, Eval(m) PROVE \E k \in flight' : Fetches(k)
  <2> DEFINE n == [m EXCEPT !.stage = "script"]
  <2>1. Name(n) = Name(m) /\ n.data = m.data /\ n.stage = "script"
    BY Zenon, <1>0 DEF Message, Name
  <2>2. flight' = (flight \ {m}) \cup {n} /\ UNCHANGED <<closed, page, data_queue>>
    BY Zenon, <1>7 DEF Eval, Move
  <2> HIDE DEF n
  <2>3. QED BY Zenon, <1>6, <2>1, <2>2
<1>8. ASSUME NEW m \in flight, RunScript(m) PROVE \E k \in flight' : Fetches(k)
  <2> DEFINE n == [m EXCEPT !.stage = "request", !.page = page,
                            !.post = customProtocolIpcFailed]
  <2>1. Name(n) = Name(m) /\ n.data = m.data /\ n.stage = "request"
    BY Zenon, <1>0 DEF Message, Name
  <2>2. flight' = (flight \ {m}) \cup {n} /\ UNCHANGED <<closed, page, data_queue>>
    BY Zenon, <1>8 DEF RunScript, Move
  <2> HIDE DEF n
  <2>3. QED BY Zenon, <1>6, <2>1, <2>2
<1>9. ASSUME NEW m \in flight, FetchRejected(m) PROVE \E k \in flight' : Fetches(k)
  <2> DEFINE n == [m EXCEPT !.stage = "request", !.post = TRUE,
                            !.response = NotFound]
  <2>1. Name(n) = Name(m) /\ n.data = m.data /\ n.stage = "request"
    BY Zenon, <1>0 DEF Message, Name
  <2>2. flight' = (flight \ {m}) \cup {n} /\ UNCHANGED <<closed, page, data_queue>>
    BY Zenon, <1>9 DEF FetchRejected, Move
  <2> HIDE DEF n
  <2>3. QED BY Zenon, <1>6, <2>1, <2>2
<1>10. ASSUME NEW m \in flight, Fetch(m) PROVE \E k \in flight' : Fetches(k)
  <2>1. e \in data_queue /\ e.data # m.data /\ flight \ {m} \subseteq flight'
        /\ UNCHANGED <<closed, page>>
    BY Zenon, <1>10 DEF Fetch, Move
  <2>2. PICK k \in flight : Fetches(k)
    BY Zenon, <2>1 DEF QueueIsFetched
  <2>3. QED BY Zenon, <2>1, <2>2
<1>11. ASSUME NEW m \in flight, Receive(m) PROVE \E k \in flight' : Fetches(k)
  <2>1. e \in data_queue /\ m.stage = "answer" /\ flight' = flight \ {m}
        /\ UNCHANGED <<closed, page>>
    BY Zenon, <1>11 DEF Receive
  <2>2. PICK k \in flight : Fetches(k)
    BY Zenon, <2>1 DEF QueueIsFetched
  <2>3. QED BY Zenon, <2>1, <2>2
<1>12. ASSUME NEW r \in running, OnMessage(r) \/ OnMessageThrows(r)
       PROVE  \E m \in flight' : Fetches(m)
  BY Zenon, <1>1, <1>12 DEF OnMessage, OnMessageThrows
<1>13. CASE Load
  BY <1>0, <1>13 DEF Load
<1>14. CASE Close
  BY Zenon, <1>14 DEF Close
<1>15. QED
  BY ZenonT(30), <1>2, <1>3, <1>4, <1>5, <1>7, <1>8, <1>9, <1>10, <1>11, <1>12, <1>13, <1>14
     DEF Next, RustStep, PageStep

\* As long as the webview lives and shows its page, ChannelDataIpcQueue holds
\* nothing but bodies that a message on its way is still going to fetch, also when
\* channels share handles.
THEOREM QueueEmptied == Spec => []QueueIsFetched
<1>1. Init => QueueIsFetched
  BY Zenon DEF Init, QueueIsFetched
<1>2. QED BY <1>1, QueueStep, TypeCorrect, PTL DEF Spec

-----------------------------------------------------------------------------
(* Every message is accounted for *)

\* A message that was given up is nowhere else and will not be passed to onmessage.
LostInv ==
  \A n \in lost :
    /\ n.id < counter[n.handle]
    /\ Len(delivered[n.handle]) <= n.id
    /\ n \notin sending
    /\ \A m \in flight : Name(m) # n
    /\ \A p \in pendingMessages : p.body # n
    /\ \A r \in running : r.body # n

\* The places a message can be in.
Somewhere(n) ==
  \/ n \in sending
  \/ \E m \in flight : Name(m) = n
  \/ \E p \in pendingMessages : p.body = n
  \/ \E r \in running : r.body = n /\ ~r.drained
  \/ n \in lost
  \/ n.id < Len(delivered[n.handle])

\* No message has disappeared.
CoverInv ==
  page = 0 /\ thrown = {} =>
    \A h \in Handles : \A i \in 0 .. (counter[h] - 1) :
      Somewhere([handle |-> h, id |-> i])

\* Every step keeps the lost messages lost.
LEMMA LostStep == OneHandlePerChannel /\ IInv /\ LostInv /\ [Next]_vars => LostInv'
<1> SUFFICES ASSUME OneHandlePerChannel, TypeOK, DataInv, TransitInv, PendingInv,
                    RunningInv, CountInv, InOrder, LostInv, [Next]_vars
             PROVE  LostInv'
  BY Zenon DEF IInv
<1> USE DEF rust, js, history
<1>0. /\ sending \in SUBSET Body /\ flight \in SUBSET Message /\ lost \in SUBSET Body
      /\ counter \in [Handles -> Nat] /\ delivered \in [Handles -> Seq(Nat)]
      /\ pendingMessages \in SUBSET Pending /\ nextMessageId \in [Channels -> Nat]
      /\ running \in SUBSET Running
  BY Zenon DEF TypeOK
<1>1. ASSUME UNCHANGED <<counter, delivered, lost, pendingMessages>>,
             flight' \subseteq flight, sending' \subseteq sending,
             running' \subseteq running
      PROVE  LostInv'
  BY Zenon, <1>1 DEF LostInv, Name
<1>2. ASSUME NEW m \in flight, NEW n, MovedTo(m, n), UNCHANGED lost PROVE LostInv'
  <2>1. Name(n) = Name(m)
    BY Zenon, <1>2 DEF MovedTo, Name
  <2>2. \A k \in flight' : k \in flight \/ k = n
    BY Zenon, <1>2 DEF MovedTo
  <2>3. \A l \in lost : \A k \in flight' : Name(k) # l
    BY Zenon, <2>1, <2>2 DEF LostInv
  <2>4. QED BY Zenon, <1>2, <2>3 DEF MovedTo, LostInv, Name
<1>3. ASSUME NEW h \in Handles, TakeIndex(h) PROVE LostInv'
  <2>1. UNCHANGED <<flight, delivered, lost, pendingMessages, running>>
    BY Zenon, <1>3 DEF TakeIndex
  <2>2. ASSUME NEW n \in lost PROVE n.id < counter'[n.handle] /\ n \notin sending'
    <3>1. n.handle \in Handles /\ n.id \in Nat /\ n.id < counter[n.handle]
          /\ n \notin sending
      BY Zenon, <1>0 DEF LostInv, Body
    <3>2. n.id < counter'[n.handle]
      BY <1>0, <1>3, <3>1 DEF TakeIndex
    <3>3. n # [handle |-> h, id |-> counter[h]]
      BY <1>0, <3>1
    <3>4. QED BY Zenon, <1>3, <3>1, <3>2, <3>3 DEF TakeIndex
  <2>3. QED BY Zenon, <2>1, <2>2 DEF LostInv, Name
<1>4. ASSUME NEW n, lost' = lost \cup {n}, n.id < counter[n.handle],
             Len(delivered[n.handle]) <= n.id, n \notin sending',
             \A m \in flight' : Name(m) # n,
             \A p \in pendingMessages : p.body # n, \A r \in running : r.body # n,
             UNCHANGED <<counter, delivered, pendingMessages, running>>,
             flight' \subseteq flight, sending' \subseteq sending
      PROVE  LostInv'
  BY Zenon, <1>4 DEF LostInv, Name
<1>5. ASSUME NEW s \in sending, Intercept(s) PROVE LostInv'
  <2>1. s.id < counter[s.handle] /\ Len(delivered[s.handle]) <= s.id
        /\ \A m \in flight : Name(m) # s
    BY Zenon DEF TransitInv
  <2>2. (\A p \in pendingMessages : p.body # s) /\ \A r \in running : r.body # s
    BY Zenon DEF PendingInv, RunningInv
  <2>3. QED BY Zenon, <1>4, <1>5, <2>1, <2>2 DEF Intercept
<1>6. ASSUME NEW s \in sending, Enqueue(s) PROVE LostInv'
  <2> DEFINE m == [handle |-> s.handle, id |-> s.id, data |-> data_counter,
                   stage |-> "queued", page |-> 0, post |-> FALSE,
                   response |-> NotFound]
  <2>1. Name(m) = s
    BY Zenon, <1>0 DEF Name, Body
  <2>2. \A k \in flight' : k \in flight \/ k = m
    BY Zenon, <1>6 DEF Enqueue
  <2> HIDE DEF m
  <2>3. sending' \subseteq sending
        /\ UNCHANGED <<counter, delivered, lost, pendingMessages, running>>
    BY Zenon, <1>6 DEF Enqueue
  <2>4. \A n \in lost : \A k \in flight' : Name(k) # n
    BY Zenon, <2>1, <2>2 DEF LostInv
  <2>5. QED BY Zenon, <2>3, <2>4 DEF LostInv, Name
<1>7. ASSUME NEW m \in flight, flight' = flight \ {m}, lost' = lost \cup {Name(m)},
             UNCHANGED <<counter, delivered, sending, pendingMessages, running>>
      PROVE  LostInv'
  <2>1. m.id < counter[m.handle] /\ Len(delivered[m.handle]) <= m.id
        /\ Name(m) \notin sending /\ \A k \in flight \ {m} : Name(k) # Name(m)
    BY Zenon DEF TransitInv
  <2>2. (\A p \in pendingMessages : p.body # Name(m))
        /\ \A r \in running : r.body # Name(m)
    BY Zenon DEF PendingInv, RunningInv
  <2>3. Name(m).id = m.id /\ Name(m).handle = m.handle
    BY Zenon DEF Name
  <2>4. QED BY ZenonT(30), <1>4, <1>7, <2>1, <2>2, <2>3
<1>8. ASSUME NEW m \in flight, Eval(m) PROVE LostInv'
  <2>1. CASE closed
    BY Zenon, <1>7, <1>8, <2>1 DEF Eval
  <2>2. CASE ~closed
    <3>1. UNCHANGED lost
      BY Zenon, <1>8, <2>2 DEF Eval
    <3>2. QED BY ZenonT(30), <1>2, <1>8, <2>2, <3>1, Moves
  <2>3. QED BY Zenon, <2>1, <2>2
<1>9. ASSUME NEW m \in flight, Fetch(m) \/ RunScript(m) \/ FetchRejected(m)
      PROVE  LostInv'
  <2>1. UNCHANGED lost
    BY Zenon, <1>9 DEF Fetch, RunScript, FetchRejected
  <2>2. QED BY Zenon, <1>2, <1>9, <2>1, Moves
<1>10. ASSUME NEW m \in flight, Receive(m) PROVE LostInv'
  <2> DEFINE c == ChannelOf[m.handle]
  <2>1. CASE m.response = NotFound \/ c \notin callbacks
    BY Zenon, <1>7, <1>10, <2>1 DEF Receive
  <2>2. CASE m.response # NotFound /\ c \in callbacks
    <3>1. UNCHANGED <<counter, delivered, sending, lost>> /\ flight' = flight \ {m}
      BY Zenon, <1>10, <2>2 DEF Receive
    <3>2. m.response \subseteq {Name(m)}
      BY Zenon DEF DataInv
    <3>3. \A p \in pendingMessages' : p \in pendingMessages \/ p.body = Name(m)
      BY <1>10, <2>2, <3>2 DEF Receive
    <3>4. \A r \in running' : r \in running \/ r.body = Name(m)
      BY <1>10, <2>2, <3>2 DEF Receive
    <3>5. Name(m) \notin lost
      BY Zenon DEF LostInv
    <3>6. QED BY Zenon, <3>1, <3>3, <3>4, <3>5 DEF LostInv, Name
  <2>3. QED BY Zenon, <2>1, <2>2
<1>11. ASSUME NEW r \in running, OnMessage(r) \/ OnMessageThrows(r) PROVE LostInv'
  <2>1. UNCHANGED <<counter, sending, flight, lost>>
        /\ pendingMessages' \subseteq pendingMessages
    BY Zenon, <1>11 DEF OnMessage, OnMessageThrows
  <2>2. \A q \in running' : \E p \in pendingMessages : q.body = p.body
    BY <1>11 DEF OnMessage, OnMessageThrows, PendingAt
  <2>3. ASSUME NEW n \in lost PROVE Len(delivered'[n.handle]) <= n.id
    <3>1. n \in Body /\ n.handle \in Handles /\ n.id \in Nat /\ n # r.body
          /\ Len(delivered[n.handle]) <= n.id
      BY Zenon, <1>0 DEF LostInv, Body
    <3>2. r.body.handle \in Handles /\ r.body.id = Len(delivered[r.body.handle])
          /\ Len(delivered'[n.handle]) = IF n.handle = r.body.handle
                                           THEN Len(delivered[n.handle]) + 1
                                           ELSE Len(delivered[n.handle])
      BY Zenon, <1>11, <3>1, CallsInTurn
    <3>3. r.body \in Body
      BY Zenon, <1>0 DEF Running
    <3>4. n.handle = r.body.handle => n.id # r.body.id
      BY <3>1, <3>3 DEF Body
    <3>5. Len(delivered[n.handle]) \in Nat
      BY <1>0, <3>1
    <3>6. QED BY <3>1, <3>2, <3>4, <3>5
  <2>4. QED BY ZenonT(60), <2>1, <2>2, <2>3 DEF LostInv, Name
<1>12. CASE Load \/ Close
  BY Zenon, <1>1, <1>12 DEF Load, Close
<1>13. CASE UNCHANGED vars
  BY Zenon, <1>1, <1>13 DEF vars
<1>14. QED
  BY ZenonT(30), <1>3, <1>5, <1>6, <1>8, <1>9, <1>10, <1>11, <1>12, <1>13
     DEF Next, RustStep, PageStep

\* Every step leaves every message in some place.
LEMMA CoverStep == OneHandlePerChannel /\ IInv /\ CoverInv /\ [Next]_vars => CoverInv'
<1> SUFFICES ASSUME OneHandlePerChannel, TypeOK, DataInv, TransitInv, PendingInv,
                    RunningInv, CountInv, InOrder, CoverInv, [Next]_vars,
                    page' = 0, thrown' = {}, NEW g \in Handles,
                    NEW i \in 0 .. (counter'[g] - 1)
             PROVE  Somewhere([handle |-> g, id |-> i])'
  BY Zenon DEF IInv, CoverInv
<1> USE DEF rust, js, history
<1> DEFINE b == [handle |-> g, id |-> i]
<1>0. /\ sending \in SUBSET Body /\ flight \in SUBSET Message /\ page \in Nat
      /\ counter \in [Handles -> Nat] /\ delivered \in [Handles -> Seq(Nat)]
      /\ pendingMessages \in SUBSET Pending /\ nextMessageId \in [Channels -> Nat]
      /\ running \in SUBSET Running
  BY Zenon DEF TypeOK
<1>a. b.handle = g /\ b.id = i
  BY Zenon
<1>b. counter' = counter /\ page = 0 /\ thrown = {} => Somewhere(b)
  BY Zenon DEF CoverInv
<1> HIDE DEF b
<1> SUFFICES Somewhere(b)'
  BY Zenon DEF b
<1>1. ASSUME UNCHANGED <<counter, page, thrown, sending, flight, pendingMessages, running,
                         lost, delivered>>
      PROVE  Somewhere(b)'
  BY Zenon, <1>1, <1>b DEF Somewhere, Name
<1>2. ASSUME NEW m \in flight, NEW n, MovedTo(m, n), UNCHANGED <<page, lost>>
      PROVE  Somewhere(b)'
  <2>1. Name(n) = Name(m) /\ n \in flight'
    BY Zenon, <1>2 DEF MovedTo, Name
  <2>2. \A k \in flight : \E l \in flight' : Name(l) = Name(k)
    BY Zenon, <1>2, <2>1 DEF MovedTo
  <2>3. UNCHANGED <<counter, thrown, sending, pendingMessages, running, delivered>>
    BY Zenon, <1>2 DEF MovedTo
  <2>4. (\E k \in flight : Name(k) = b) => \E l \in flight' : Name(l) = b
    BY Zenon, <2>2
  <2>5. QED BY Zenon, <1>2, <1>b, <2>3, <2>4 DEF Somewhere, Name
<1>3. ASSUME NEW h \in Handles, TakeIndex(h) PROVE Somewhere(b)'
  <2>1. UNCHANGED <<page, thrown, flight, pendingMessages, running, lost, delivered>>
        /\ sending' = sending \cup {[handle |-> h, id |-> counter[h]]}
        /\ counter' = [counter EXCEPT ![h] = @ + 1]
    BY Zenon, <1>3 DEF TakeIndex
  <2>2. CASE g = h /\ i = counter[h]
    BY Zenon, <2>1, <2>2 DEF Somewhere, b
  <2>3. CASE ~(g = h /\ i = counter[h])
    <3>1. i \in 0 .. (counter[g] - 1)
      BY <1>0, <2>1, <2>3
    <3>2. Somewhere(b)
      BY Zenon, <2>1, <3>1 DEF CoverInv, b
    <3>3. QED BY Zenon, <2>1, <3>2 DEF Somewhere, Name
  <2>4. QED BY Zenon, <2>2, <2>3
<1>4. ASSUME NEW s \in sending, Intercept(s) PROVE Somewhere(b)'
  <2>1. UNCHANGED <<counter, page, thrown, flight, pendingMessages, running, delivered>>
        /\ sending' = sending \ {s} /\ lost' = lost \cup {s}
    BY Zenon, <1>4 DEF Intercept
  <2>2. QED BY Zenon, <1>b, <2>1 DEF Somewhere, Name
<1>5. ASSUME NEW s \in sending, Enqueue(s) PROVE Somewhere(b)'
  <2> DEFINE m == [handle |-> s.handle, id |-> s.id, data |-> data_counter,
                   stage |-> "queued", page |-> 0, post |-> FALSE,
                   response |-> NotFound]
  <2>1. Name(m) = s
    BY Zenon, <1>0 DEF Name, Body
  <2>2. flight' = flight \cup {m} /\ sending' = sending \ {s}
        /\ UNCHANGED <<counter, page, thrown, pendingMessages, running, lost, delivered>>
    BY Zenon, <1>5 DEF Enqueue
  <2> HIDE DEF m
  <2>3. QED BY Zenon, <1>b, <2>1, <2>2 DEF Somewhere, Name
<1>6. ASSUME NEW m \in flight, flight' = flight \ {m}, lost' = lost \cup {Name(m)},
             UNCHANGED <<counter, page, thrown, sending, pendingMessages, running,
                         delivered>>
      PROVE  Somewhere(b)'
  BY Zenon, <1>6, <1>b DEF Somewhere, Name
<1>7. ASSUME NEW m \in flight, Eval(m) PROVE Somewhere(b)'
  <2>1. CASE closed
    BY Zenon, <1>6, <1>7, <2>1 DEF Eval
  <2>2. CASE ~closed
    <3>1. UNCHANGED <<page, lost>>
      BY Zenon, <1>7, <2>2 DEF Eval
    <3>2. QED BY Zenon, <1>2, <1>7, <2>2, <3>1, Moves
  <2>3. QED BY Zenon, <2>1, <2>2
<1>8. ASSUME NEW m \in flight, Fetch(m) \/ RunScript(m) \/ FetchRejected(m)
      PROVE  Somewhere(b)'
  <2>1. UNCHANGED <<page, lost>>
    BY Zenon, <1>8 DEF Fetch, RunScript, FetchRejected
  <2>2. QED BY Zenon, <1>2, <1>8, <2>1, Moves
<1>9. ASSUME NEW m \in flight, Receive(m) PROVE Somewhere(b)'
  <2> DEFINE c == ChannelOf[m.handle]
  <2>1. CASE m.response = NotFound \/ c \notin callbacks
    BY Zenon, <1>6, <1>9, <2>1 DEF Receive
  <2>2. CASE m.response # NotFound /\ c \in callbacks
    <3>1. UNCHANGED <<counter, page, thrown, sending, lost, delivered>>
          /\ flight' = flight \ {m} /\ running = {}
      BY Zenon, <1>9, <2>2 DEF Receive
    <3>2. m.response = {Name(m)}
      BY <2>2 DEF DataInv, NotFound
    <3>3. \A p \in pendingMessages : p \in pendingMessages'
      <4>1. PendingAt(c, m.id) = {}
        <5>1. SUFFICES ASSUME NEW p \in pendingMessages, p.channel = c, p.id = m.id
                       PROVE  FALSE
          BY Zenon DEF PendingAt
        <5>2. p.body = [handle |-> m.handle, id |-> m.id]
          BY <1>0, <5>1, PendingUnique DEF Message
        <5>3. QED BY Zenon, <5>2 DEF PendingInv, Name
      <4>2. QED BY Zenon, <1>9, <2>2, <4>1 DEF Receive
    <3>4. \/ \E p \in pendingMessages' : p.body = Name(m)
          \/ \E r \in running' : r.body = Name(m) /\ ~r.drained
      <4>1. CASE m.id = nextMessageId[c]
        <5> DEFINE r == [channel |-> c, body |-> Name(m), drained |-> FALSE]
        <5>1. r \in running'
          BY Zenon, <1>9, <2>2, <3>2, <4>1 DEF Receive
        <5>2. QED BY Zenon, <5>1
      <4>2. CASE m.id # nextMessageId[c]
        <5> DEFINE p == [channel |-> c, id |-> m.id, body |-> Name(m)]
        <5>1. p \in pendingMessages'
          BY Zenon, <1>9, <2>2, <3>2, <4>2 DEF Receive
        <5>2. QED BY Zenon, <5>1
      <4>3. QED BY Zenon, <4>1, <4>2
    <3>5. QED BY Zenon, <1>b, <3>1, <3>3, <3>4 DEF Somewhere, Name
  <2>3. QED BY Zenon, <2>1, <2>2
<1>10. ASSUME NEW r \in running, OnMessage(r) PROVE Somewhere(b)'
  <2> DEFINE c == r.channel
  <2>1. UNCHANGED <<counter, page, thrown, sending, flight, lost>>
    BY Zenon, <1>10 DEF OnMessage
  <2>2. /\ r.body.handle \in Handles /\ r.body.id = Len(delivered[r.body.handle])
        /\ r.body.id = nextMessageId[c] /\ c = ChannelOf[r.body.handle]
        /\ \A h \in Handles : Len(delivered'[h]) = IF h = r.body.handle
                                                     THEN Len(delivered[h]) + 1
                                                     ELSE Len(delivered[h])
    BY Zenon, <1>10, CallsInTurn DEF RunningInv
  <2>3. \A h \in Handles : Len(delivered[h]) \in Nat
    BY <1>0
  <2>4. b = r.body => b.id < Len(delivered'[b.handle])
    <3> DEFINE k == Len(delivered[r.body.handle])
    <3>1. k \in Nat /\ r.body.id = k /\ Len(delivered'[r.body.handle]) = k + 1
      BY Zenon, <2>2, <2>3
    <3> HIDE DEF k
    <3>2. r.body.id < Len(delivered'[r.body.handle])
      BY <3>1
    <3>3. QED BY Zenon, <3>2
  <2>5. \A p \in pendingMessages : p \in pendingMessages' \/ p.body = r.body
    <3>1. SUFFICES ASSUME NEW p \in pendingMessages, p \notin pendingMessages'
                   PROVE  p.body = r.body
      BY Zenon
    <3>2. p.channel = c /\ p.id = nextMessageId[c]
      BY Zenon, <1>10, <3>1 DEF OnMessage, PendingAt
    <3>3. p.body = [handle |-> r.body.handle, id |-> p.id]
      BY <2>2, <3>2, PendingUnique
    <3>4. r.body \in Body
      BY Zenon, <1>0 DEF Running
    <3>5. QED BY Zenon, <2>2, <3>2, <3>3, <3>4 DEF Body
  <2>6. \A q \in running : q = r
    BY Zenon DEF RunningInv
  <2>7. b.id < Len(delivered[b.handle]) => b.id < Len(delivered'[b.handle])
    BY <1>a, <2>2, <2>3
  <2>8. Somewhere(b)
    BY Zenon, <1>b, <2>1
  <2>9. QED BY ZenonT(30), <2>1, <2>4, <2>5, <2>6, <2>7, <2>8 DEF Somewhere, Name
<1>11. ASSUME NEW r \in running, OnMessageThrows(r) PROVE Somewhere(b)'
  BY Zenon, <1>11 DEF OnMessageThrows
<1>12. CASE Load
  BY <1>0, <1>12 DEF Load
<1>13. CASE Close
  BY Zenon, <1>1, <1>13 DEF Close
<1>14. CASE UNCHANGED vars
  BY Zenon, <1>1, <1>14 DEF vars
<1>15. QED
  BY ZenonT(30), <1>3, <1>4, <1>5, <1>7, <1>8, <1>9, <1>10, <1>11, <1>12, <1>13, <1>14
     DEF Next, RustStep, PageStep

\* A set of which at most one element has a property has one or none such element.
LEMMA AtMostOne ==
  ASSUME NEW S, \A x, y \in S : x = y
  PROVE  Cardinality(S) = IF S = {} THEN 0 ELSE 1
<1>1. CASE S = {}
  BY Zenon, <1>1, FS_EmptySet
<1>2. CASE S # {}
  <2>1. PICK x : S = {x}
    BY <1>2
  <2>2. QED BY Zenon, <1>2, <2>1, FS_Singleton
<1>3. QED BY Zenon, <1>1, <1>2

\* With one handle per channel, as long as the page stays and its handlers do not
\* throw, every message whose index was taken is in exactly one place, delivered or
\* given up.
THEOREM AllAccounted == ASSUME OneHandlePerChannel PROVE Spec => []Accounted
<1>1. Init => LostInv /\ CoverInv
  BY DEF Init, LostInv, CoverInv
<1>2. IInv /\ LostInv /\ CoverInv => Accounted
  <2> SUFFICES ASSUME TypeOK, TransitInv, PendingInv, RunningInv, CountInv, InOrder,
                      LostInv, CoverInv, page = 0, thrown = {}, NEW h \in Handles,
                      NEW i \in 0 .. (counter[h] - 1)
               PROVE  Places([handle |-> h, id |-> i]) = 1
    BY Zenon DEF IInv, Accounted
  <2> DEFINE n == [handle |-> h, id |-> i]
             F == {m \in flight : Name(m) = n}
             P == {p \in pendingMessages : p.body = n}
             R == {r \in running : r.body = n /\ ~r.drained}
             D == {delivered[h][j] : j \in DOMAIN delivered[h]}
  <2>0. n.handle = h /\ n.id = i /\ Somewhere(n)
    BY Zenon DEF CoverInv
  <2>1. Cardinality(F) = IF F = {} THEN 0 ELSE 1
    BY Zenon, AtMostOne DEF TransitInv
  <2>2. Cardinality(P) = IF P = {} THEN 0 ELSE 1
    <3>1. ASSUME NEW p \in P, NEW q \in P PROVE p = q
      <4>1. p \in Pending /\ q \in Pending /\ p.body = q.body
        BY Zenon DEF TypeOK
      <4>2. p.channel = q.channel /\ p.id = q.id
        BY ZenonT(30) DEF PendingInv
      <4>3. QED BY <4>1, <4>2 DEF Pending
    <3>2. QED BY Zenon, <3>1, AtMostOne
  <2>3. Cardinality(R) = IF R = {} THEN 0 ELSE 1
    BY Zenon, AtMostOne DEF RunningInv
  <2>4. i \in D <=> i < Len(delivered[h])
    <3>1. delivered[h] \in Seq(Nat) /\ i \in Nat
      BY DEF TypeOK
    <3>2. i < Len(delivered[h]) => i + 1 \in DOMAIN delivered[h]
      BY <3>1
    <3>3. QED BY <3>1, <3>2 DEF InOrder
  <2>5. Len(delivered[h]) = nextMessageId[ChannelOf[h]]
    BY ChannelAssumption DEF CountInv, TypeOK
  <2>6. n \in sending => F = {} /\ P = {} /\ R = {} /\ n \notin lost /\ i \notin D
    BY <2>0, <2>4 DEF TransitInv, PendingInv, RunningInv, LostInv
  <2>7. F # {} => P = {} /\ R = {} /\ n \notin lost /\ i \notin D
    <3> SUFFICES ASSUME NEW m \in flight, Name(m) = n
                 PROVE  P = {} /\ R = {} /\ n \notin lost /\ i \notin D
      BY Zenon
    <3>1. m.handle = h /\ m.id = i
      BY Zenon, <2>0 DEF Name
    <3>2. ~(i < Len(delivered[h]))
      BY <3>1 DEF TransitInv, TypeOK
    <3>3. QED BY <2>4, <3>2 DEF PendingInv, RunningInv, LostInv
  <2>8. P # {} => R = {} /\ n \notin lost /\ i \notin D
    BY SMTT(30), <2>0, <2>4, <2>5 DEF PendingInv, RunningInv, LostInv
  <2>9. R # {} => n \notin lost /\ i \notin D
    BY SMTT(30), <2>0, <2>4, <2>5 DEF RunningInv, LostInv
  <2>10. n \in lost => i \notin D
    BY SMTT(30), <2>0, <2>4 DEF LostInv
  <2>11. n \in sending \/ F # {} \/ P # {} \/ R # {} \/ n \in lost \/ i \in D
    BY Zenon, <2>0, <2>4 DEF Somewhere
  <2>12. Places(n) = Cardinality(F) + Cardinality(P) + Cardinality(R)
                     + (IF n \in sending THEN 1 ELSE 0) + (IF n \in lost THEN 1 ELSE 0)
                     + (IF i \in D THEN 1 ELSE 0)
    BY Zenon, <2>0 DEF Places
  <2> HIDE DEF F, P, R, D, n
  <2>13. Places(n) = 1
    BY <2>1, <2>2, <2>3, <2>6, <2>7, <2>8, <2>9, <2>10, <2>11, <2>12
  <2>14. QED BY Zenon, <2>13 DEF n
<1>3. QED BY <1>1, <1>2, Inductive, LostStep, CoverStep, PTL DEF Spec
=============================================================================
