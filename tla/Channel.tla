------------------------------- MODULE Channel -------------------------------
(***************************************************************************)
(* IPC channels: crates/tauri/Source/ipc/channel.rs on the Rust side,      *)
(* class Channel of packages/api/Source/core.ts in the page, and between   *)
(* them the data queue, the evaluated script and the fetch command it      *)
(* invokes over scripts/ipc-protocol.js.                                   *)
(*                                                                         *)
(* send takes an index from the counter of its handle, puts the body in the*)
(* queue shared by all channels under a fresh data id, and evaluates a     *)
(* script that fetches the body and hands it, with the index, to the       *)
(* callback of the channel.  Sends run on any threads, scripts of the main *)
(* thread overtake those of the others, and the answers to the fetches come*)
(* in any order, so the page sorts the messages by index again.            *)
(*                                                                         *)
(* A message on its way is a record: in "sending" while send has only taken*)
(* the index, then in "flight" with its data id and the stage it is in.    *)
(* JavaScript runs one callback at a time: "running" is the call of        *)
(* onmessage under way, if any.                                            *)
(***************************************************************************)
EXTENDS Naturals, Sequences, FiniteSets

CONSTANTS
  Handles,     \* the Channel values that channel_on created
  Channels,    \* the Channel objects of the page
  ChannelOf,   \* the page's channel that a handle was created for
  MaxData,     \* bound on the data ids: 2^32 - 1 in the program, where the
               \* counter then wraps around
  SendBounds,  \* bounds on the numbers of sends: they stay within one of these
  MaxPages     \* bound on the number of page loads

ASSUME ChannelAssumption ==
  /\ ChannelOf \in [Handles -> Channels]
  /\ MaxData \in Nat
  /\ SendBounds \subseteq [Handles -> Nat]
  /\ MaxPages \in Nat

VARIABLES
  counter,        \* the AtomicUsize of each handle
  data_counter,   \* CHANNEL_DATA_COUNTER
  data_queue,     \* ChannelDataIpcQueue
  sending,        \* sends that have taken their index
  flight,         \* messages between the data queue and the page's callback
  closed,         \* the webview is gone
  page,           \* number of the page the webview shows
  callbacks,      \* channels whose callback is a property of window
  customProtocolIpcFailed,
  nextMessageId,  \* of each channel
  pendingMessages,
  running,        \* the call of onmessage under way
  delivered,      \* history: what onmessage was called with, per handle
  lost,           \* history: messages that will never reach their callback
  thrown          \* history: channels whose onmessage threw

rust == <<counter, data_counter, data_queue, sending>>
js == <<page, callbacks, customProtocolIpcFailed, nextMessageId,
        pendingMessages, running>>
history == <<delivered, lost, thrown>>
vars == <<rust, flight, closed, js, history>>

-----------------------------------------------------------------------------
(* Data *)

\* All that matters of a message's content is which message it is: the id-th
\* that was sent on the handle.
Body == [handle : Handles, id : Nat]

\* A response of the fetch command is the set of what it found: one body, or none
\* for Err("data not found").
Response == SUBSET Body
NotFound == {}

\* An entry of ChannelDataIpcQueue.
Entry == [data : Nat, body : Body]

Stages == {"queued",    \* in the data queue, webview.eval not yet called
           "script",    \* the script is on its way to the page
           "request",   \* the page has sent the fetch command
           "answer"}    \* the command has run, the page has not got the response

\* "page" and "post" (sent by postMessage) matter from "request" on, "response"
\* at "answer".
Message == [handle : Handles, id : Nat, data : Nat, stage : Stages,
            page : Nat, post : BOOLEAN, response : Response]

\* An element of pendingMessages, and a call of onmessage: with a message just
\* received, or with one taken from pendingMessages.
Pending == [channel : Channels, id : Nat, body : Body]
Running == [channel : Channels, body : Body, drained : BOOLEAN]

Name(m) == [handle |-> m.handle, id |-> m.id]

Move(m, n) == flight' = (flight \ {m}) \cup {n}

PendingAt(c, i) == {p \in pendingMessages : p.channel = c /\ p.id = i}

-----------------------------------------------------------------------------
(* channel_on: the closure that send calls *)

\* Mutant: the index is taken from the wrong side of the addition.
TakeIndexBelow(h) ==
  /\ counter' = [counter EXCEPT ![h] = @ + 1]
  /\ \E b \in SendBounds : \A k \in Handles : counter'[k] <= b[k]
  /\ sending' = sending \cup {[handle |-> h, id |-> counter[h] - 1]}
  /\ UNCHANGED <<data_counter, data_queue, flight, closed, js, history>>

\* counter.fetch_add(1)
TakeIndex(h) ==
  /\ counter' = [counter EXCEPT ![h] = @ + 1]
  /\ \E b \in SendBounds : \A k \in Handles : counter'[k] <= b[k]
  /\ sending' = sending \cup {[handle |-> h, id |-> counter[h]]}
  /\ UNCHANGED <<data_counter, data_queue, flight, closed, js, history>>

\* The application's channel_interceptor takes the message.
Intercept(s) ==
  /\ sending' = sending \ {s}
  /\ lost' = lost \cup {s}
  /\ UNCHANGED <<counter, data_counter, data_queue, flight, closed, js,
                 delivered, thrown>>

\* CHANNEL_DATA_COUNTER.fetch_add(1) and the insertion in the data queue
Enqueue(s) ==
  /\ data_counter < MaxData
  /\ sending' = sending \ {s}
  /\ data_queue' = {e \in data_queue : e.data # data_counter}
                     \cup {[data |-> data_counter, body |-> s]}
  /\ flight' = flight \cup
       {[handle |-> s.handle, id |-> s.id, data |-> data_counter,
         stage |-> "queued", page |-> 0, post |-> FALSE, response |-> NotFound]}
  /\ data_counter' = data_counter + 1
  /\ UNCHANGED <<counter, closed, js, history>>

\* webview.eval: an error, or a script that finds no webview, leaves the body in
\* the data queue.
Eval(m) ==
  /\ m.stage = "queued"
  /\ IF closed
       THEN flight' = flight \ {m} /\ lost' = lost \cup {Name(m)}
       ELSE Move(m, [m EXCEPT !.stage = "script"]) /\ UNCHANGED lost
  /\ UNCHANGED <<rust, closed, js, delivered, thrown>>

\* Mutant: the body is read, not removed.
FetchPeek(m) ==
  /\ m.stage = "request"
  /\ ~closed
  /\ LET found == {e \in data_queue : e.data = m.data}
     IN  Move(m, [m EXCEPT !.stage = "answer",
                           !.response = {e.body : e \in found}])
  /\ UNCHANGED <<rust, closed, js, history>>

\* The fetch command, called from on_message: removes the body and answers with it
Fetch(m) ==
  /\ m.stage = "request"
  /\ ~closed
  /\ LET found == {e \in data_queue : e.data = m.data}
     IN  /\ data_queue' = data_queue \ found
         /\ Move(m, [m EXCEPT !.stage = "answer",
                              !.response = {e.body : e \in found}])
  /\ UNCHANGED <<counter, data_counter, sending, closed, js, history>>

-----------------------------------------------------------------------------
(* The page *)

\* The script runs: invoke sends the fetch command, over the custom protocol
\* unless that failed before.
RunScript(m) ==
  /\ m.stage = "script"
  /\ ~closed
  /\ running = {}
  /\ Move(m, [m EXCEPT !.stage = "request", !.page = page,
                       !.post = customProtocolIpcFailed])
  /\ UNCHANGED <<rust, closed, js, history>>

\* Mutant: the first request is not given up when the command is sent again.
FetchRejectedKept(m) ==
  /\ m.stage \in {"request", "answer"}
  /\ ~closed
  /\ m.page = page
  /\ ~m.post
  /\ running = {}
  /\ customProtocolIpcFailed' = TRUE
  /\ flight' = flight \cup
       {[m EXCEPT !.stage = "request", !.post = TRUE, !.response = NotFound]}
  /\ UNCHANGED <<rust, closed, page, callbacks, nextMessageId, pendingMessages,
                 running, history>>

\* The promise of fetch() is rejected: the request did not get through, or its
\* response did not.  sendIpcMessage sends the command again, by postMessage.
FetchRejected(m) ==
  /\ m.stage \in {"request", "answer"}
  /\ ~closed
  /\ m.page = page
  /\ ~m.post
  /\ running = {}
  /\ customProtocolIpcFailed' = TRUE
  /\ Move(m, [m EXCEPT !.stage = "request", !.post = TRUE, !.response = NotFound])
  /\ UNCHANGED <<rust, closed, page, callbacks, nextMessageId, pendingMessages,
                 running, history>>

\* Mutant: the messages are not sorted.
ReceiveAtOnce(m) ==
  /\ m.stage = "answer"
  /\ ~closed
  /\ m.page = page
  /\ running = {}
  /\ flight' = flight \ {m}
  /\ IF m.response = NotFound \/ ChannelOf[m.handle] \notin callbacks
       THEN lost' = lost \cup {Name(m)} /\ UNCHANGED running
       ELSE /\ running' = {[channel |-> ChannelOf[m.handle], body |-> b,
                            drained |-> FALSE] : b \in m.response}
            /\ UNCHANGED lost
  /\ UNCHANGED <<rust, closed, page, callbacks, customProtocolIpcFailed,
                 nextMessageId, pendingMessages, delivered, thrown>>

\* The response resolves the promise of invoke, and the callback of the channel
\* is called with { message, id }: in its turn it is given to onmessage at once,
\* otherwise it waits in pendingMessages.  An error response, or a callback that
\* is no longer there, goes to console.error.
Receive(m) ==
  /\ m.stage = "answer"
  /\ ~closed
  /\ m.page = page
  /\ running = {}
  /\ flight' = flight \ {m}
  /\ LET c == ChannelOf[m.handle]
     IN  IF m.response = NotFound \/ c \notin callbacks
           THEN /\ lost' = lost \cup {Name(m)}
                /\ UNCHANGED <<pendingMessages, running>>
           ELSE /\ IF m.id = nextMessageId[c]
                     THEN /\ running' = {[channel |-> c, body |-> b,
                                          drained |-> FALSE] : b \in m.response}
                          /\ UNCHANGED pendingMessages
                     ELSE /\ pendingMessages' =
                               (pendingMessages \ PendingAt(c, m.id)) \cup
                               {[channel |-> c, id |-> m.id, body |-> b] :
                                  b \in m.response}
                          /\ UNCHANGED running
                /\ UNCHANGED lost
  /\ UNCHANGED <<rust, closed, page, callbacks, customProtocolIpcFailed,
                 nextMessageId, delivered, thrown>>

Deliver(b) == delivered' = [delivered EXCEPT ![b.handle] = Append(@, b.id)]

\* Mutant: the loop takes the pending messages as they come.
OnMessageAnyPending(r) ==
  /\ ~closed
  /\ Deliver(r.body)
  /\ LET c == r.channel
         n == nextMessageId[c]
     IN  /\ nextMessageId' = [nextMessageId EXCEPT ![c] = n + 1]
         /\ pendingMessages' =
              IF r.drained THEN {p \in pendingMessages : p.body # r.body}
                           ELSE pendingMessages
         /\ \/ /\ {p \in pendingMessages' : p.channel = c} = {}
               /\ running' = {}
            \/ \E p \in pendingMessages' :
                 /\ p.channel = c
                 /\ running' = {[channel |-> c, body |-> p.body, drained |-> TRUE]}
  /\ UNCHANGED <<rust, flight, closed, page, callbacks, customProtocolIpcFailed,
                 lost, thrown>>

\* Mutant: there is no loop over the pending messages.
OnMessageOnly(r) ==
  /\ ~closed
  /\ Deliver(r.body)
  /\ nextMessageId' = [nextMessageId EXCEPT ![r.channel] = @ + 1]
  /\ running' = {}
  /\ UNCHANGED <<rust, flight, closed, page, callbacks, customProtocolIpcFailed,
                 pendingMessages, lost, thrown>>

\* onmessage returns: nextMessageId advances, and the loop goes on with the next
\* of pendingMessages if it is there.
OnMessage(r) ==
  /\ ~closed
  /\ Deliver(r.body)
  /\ LET c == r.channel
         n == nextMessageId[c]
     IN  /\ nextMessageId' = [nextMessageId EXCEPT ![c] = n + 1]
         /\ pendingMessages' =
              IF r.drained THEN pendingMessages \ PendingAt(c, n)
                           ELSE pendingMessages
         /\ running' = {[channel |-> c, body |-> p.body, drained |-> TRUE] :
                          p \in PendingAt(c, n + 1)}
  /\ UNCHANGED <<rust, flight, closed, page, callbacks, customProtocolIpcFailed,
                 lost, thrown>>

\* onmessage throws: nextMessageId does not advance, the loop is left.
OnMessageThrows(r) ==
  /\ ~closed
  /\ Deliver(r.body)
  /\ running' = {}
  /\ thrown' = thrown \cup {r.channel}
  /\ UNCHANGED <<rust, flight, closed, page, callbacks, customProtocolIpcFailed,
                 nextMessageId, pendingMessages, lost>>

\* The webview loads another page: its window has none of the callbacks, and the
\* initialization scripts run anew.
Load ==
  /\ ~closed
  /\ page < MaxPages
  /\ page' = page + 1
  /\ callbacks' = {}
  /\ customProtocolIpcFailed' = FALSE
  /\ running' = {}
  /\ UNCHANGED <<rust, flight, closed, nextMessageId, pendingMessages, history>>

Close ==
  /\ ~closed
  /\ closed' = TRUE
  /\ UNCHANGED <<rust, flight, js, history>>

-----------------------------------------------------------------------------
Init ==
  /\ counter = [h \in Handles |-> 0]
  /\ data_counter = 0
  /\ data_queue = {}
  /\ sending = {}
  /\ flight = {}
  /\ closed = FALSE
  /\ page = 0
  /\ callbacks = Channels
  /\ customProtocolIpcFailed = FALSE
  /\ nextMessageId = [c \in Channels |-> 0]
  /\ pendingMessages = {}
  /\ running = {}
  /\ delivered = [h \in Handles |-> <<>>]
  /\ lost = {}
  /\ thrown = {}

\* The steps of the Rust threads, and of the page's event loop, that follow from
\* a send.
RustStep ==
  \/ \E s \in sending : Enqueue(s)
  \/ \E m \in flight : Eval(m) \/ Fetch(m)
PageStep ==
  \/ \E m \in flight : RunScript(m) \/ Receive(m)
  \/ \E r \in running : OnMessage(r)

Next ==
  \/ \E h \in Handles : TakeIndex(h)
  \/ \E s \in sending : Intercept(s)
  \/ RustStep
  \/ PageStep
  \/ \E m \in flight : FetchRejected(m)
  \/ \E r \in running : OnMessageThrows(r)
  \/ Load
  \/ Close

Spec == Init /\ [][Next]_vars

\* A send under way goes on, and the page's event loop keeps turning.
Fairness == WF_vars(RustStep) /\ WF_vars(PageStep)

FairSpec == Spec /\ Fairness

-----------------------------------------------------------------------------
(* Properties *)

\* Types of the state of the Rust side, of the messages in flight, of the page.
TypeOK ==
  /\ counter \in [Handles -> Nat]
  /\ data_counter \in Nat
  /\ data_queue \in SUBSET Entry
  /\ sending \in SUBSET Body
  /\ flight \in SUBSET Message
  /\ closed \in BOOLEAN
  /\ page \in Nat
  /\ callbacks \in SUBSET Channels
  /\ customProtocolIpcFailed \in BOOLEAN
  /\ nextMessageId \in [Channels -> Nat]
  /\ pendingMessages \in SUBSET Pending
  /\ running \in SUBSET Running
  /\ delivered \in [Handles -> Seq(Nat)]
  /\ lost \in SUBSET Body
  /\ thrown \in SUBSET Channels

\* core.ts: "the id is used as a mechanism to preserve message order".  What
\* onmessage has been called with is a prefix of what was sent: in order, nothing
\* twice, nothing skipped, whatever is reordered, lost, fetched twice or thrown.
InOrder ==
  \A h \in Handles :
    /\ Len(delivered[h]) <= counter[h]
    /\ \A i \in DOMAIN delivered[h] : delivered[h][i] = i - 1

\* The same as a refinement.
Ordered == INSTANCE OrderedChannel WITH sent <- counter
ImplementsOrderedChannel == Ordered!Spec

\* Where the message with the given name is.
Places(n) ==
  Cardinality({m \in flight : Name(m) = n})
  + Cardinality({p \in pendingMessages : p.body = n})
  + Cardinality({r \in running : r.body = n /\ ~r.drained})
  + (IF n \in sending THEN 1 ELSE 0) + (IF n \in lost THEN 1 ELSE 0)
  + (IF n.id \in {delivered[n.handle][i] : i \in DOMAIN delivered[n.handle]}
       THEN 1 ELSE 0)

\* As long as the page stays and its handlers do not throw, every message whose
\* index was taken is in exactly one place on its way, or delivered, or known to
\* be lost: the retry over postMessage and the reordering duplicate nothing.
Accounted ==
  page = 0 /\ thrown = {} =>
    \A h \in Handles : \A i \in 0 .. (counter[h] - 1) :
      Places([handle |-> h, id |-> i]) = 1

\* The data queue is emptied by the fetches: as long as the webview lives and
\* shows its page, an entry belongs to a message whose fetch is still to run.
QueueIsFetched ==
  ~closed /\ page = 0 =>
    \A e \in data_queue : \E m \in flight :
      /\ m.data = e.data
      /\ m.stage \in {"queued", "script", "request"}
      /\ Name(m) = e.body

\* A message is delivered, unless the webview closes, the page goes, a handler
\* throws, or this message or an EARLIER one of the same handle was lost: then
\* the page waits for it for ever.
Delivered ==
  \A h \in Handles : \A i \in UNION {0 .. (b[h] - 1) : b \in SendBounds} :
    counter[h] > i ~>
      \/ Len(delivered[h]) > i
      \/ closed
      \/ page > 0
      \/ thrown # {}
      \/ \E n \in lost : n.handle = h /\ n.id <= i
=============================================================================
