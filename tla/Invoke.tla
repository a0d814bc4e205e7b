------------------------------- MODULE Invoke -------------------------------
(***************************************************************************)
(* The invoke protocol: how a call of invoke() in a page becomes a command *)
(* on the Rust side and its result the settlement of the page's promise.   *)
(* In the page it is scripts/core.js, ipc.js and ipc-protocol.js (and, with*)
(* the isolation pattern, isolation.js of tauri-utils), on the Rust side   *)
(* ipc/protocol.rs, Webview::on_message and InvokeResolver.                *)
(*                                                                         *)
(* A call is sent over one of two transports.  The custom protocol is an   *)
(* HTTP request that the responder answers; when it fails for any reason   *)
(* the page sends the same message again with postMessage, and from then on*)
(* uses nothing else.  A call received by postMessage is answered by       *)
(* evaluating a script in the page, which settles the promise or, for a    *)
(* large body, invokes the command that fetches the body: such a nested    *)
(* call is itself a call, the one with data = TRUE.  So one call may be    *)
(* received twice, and be answered after its page is gone.                 *)
(***************************************************************************)
EXTENDS Naturals, FiniteSets

CONSTANTS
  Commands,    \* the calls of invoke() that the application's pages make
  Sends,       \* what may be sent with each of them: kinds of messages
  Answers,     \* what the command of each of them may answer
  Bounds       \* bounds on the numbers of calls and of page loads: they stay
               \* within one of these

VARIABLES
  canUseCustomProtocol,  \* osName !== 'android'
  isolation,             \* the pattern is "isolation", not "brownfield"
  webview,               \* the webview in the manager's table
  page,                  \* number of the page the webview shows, 0 when gone
  ready,                 \* isolation.ready
  customProtocolIpcFailed,
  window,                \* the callbacks that are properties of window
  promise,               \* the state of each call's promise
  kind,                  \* what is sent with the call
  stage,                 \* where the page's side of a call stands
  net,                   \* where the message of a call stands, per transport
  blocked,               \* posts that say customProtocolIpcBlocked
  scripts,               \* scripts evaluated that have not run yet
  data_queue,            \* ChannelDataIpcQueue: bodies not fetched yet
  garbled,               \* the bodies put into it that are not JSON
  runs,                  \* history: times the command ran, per transport
  taken,                 \* history: times the responder was taken
  succeeded,             \* history: calls whose command returned a body the page
                         \* can read
  fellBack               \* history: calls whose request failed in the page

build == <<canUseCustomProtocol, isolation>>
js == <<page, ready, customProtocolIpcFailed, window, promise, stage>>
rust == <<data_queue, garbled, runs, taken, succeeded>>
vars == <<build, webview, js, kind, net, blocked, scripts, rust, fellBack>>

-----------------------------------------------------------------------------
(* Data *)

\* The call of a command, and the nested call that fetches its body.
Calls == [cmd : Commands, data : BOOLEAN]
Call(c) == [cmd |-> c, data |-> FALSE]
Fetch(c) == [cmd |-> c, data |-> TRUE]

Ends == {"callback", "error"}     \* the two callbacks of a call
Transports == {"fetch", "post"}

Kinds == {"plain",       \* a message that can be parsed, with the invoke key
          "malformed",   \* one that the Rust side cannot parse
          "keyless"}     \* one with another invoke key

\* What a command answers: Ok(body), Ok with a Json body that is no JSON (a String
\* that the command put into a Response itself), or Err.
Results == {"ok", "garbled", "error"}

ASSUME InvokeAssumption ==
  /\ Sends \in [Commands -> SUBSET Kinds]
  /\ Answers \in [Commands -> SUBSET Results]
  /\ Bounds \subseteq [calls : Nat, pages : Nat]

Promises == {"none", "pending", "resolved", "rejected",
             "lost"}     \* the page that made the call is gone

Stages == {"none",
           "queued",     \* in isolation.queue
           "frame",      \* with the isolation frame, which encrypts it
           "ignored",    \* the frame never sends it back
           "fetch",      \* waiting for the response to the HTTP request
           "post",       \* given to window.ipc.postMessage
           "answered",   \* the response has come
           "gone"}       \* the page is gone

Nets == {"none",
         "sent",         \* not received yet
         "held",         \* a command has the resolver
         "ok", "error",  \* responses with that Tauri-Response header
         "garbled",      \* a response "ok" that response.json() cannot read
         "failure",      \* a response without that header
         "evaluated",    \* answered with a script
         "dropped"}      \* never to be answered

Script == [call : Calls, does : Ends \cup {"fetch"}]

\* The calls made so far and the page shown stay within a bound.
Within(calls, n) == \E b \in Bounds : Cardinality(calls) <= b.calls /\ n <= b.pages
Made == {c \in Calls : ~c.data /\ promise[c] # "none"}

OneMore(f, c, t) == [f EXCEPT ![<<c, t>>] = @ + 1]

-----------------------------------------------------------------------------
(* The page: sending *)

\* sendIpcMessage, when customProtocolIpcFailed is f
SendIpcMessage(c, f) ==
  LET custom == ~f /\ (canUseCustomProtocol \/ c.data)
      t == IF custom THEN "fetch" ELSE "post"
  IN /\ stage' = [stage EXCEPT ![c] = t]
     /\ net' = [net EXCEPT ![<<c, t>>] = "sent"]
     /\ blocked' = IF ~custom /\ f THEN blocked \cup {c} ELSE blocked

\* window.__TAURI_INTERNALS__.ipc
Ipc(c) ==
  \/ /\ ~isolation
     /\ SendIpcMessage(c, customProtocolIpcFailed)
  \/ /\ isolation
     /\ stage' = [stage EXCEPT ![c] = IF ready THEN "frame" ELSE "queued"]
     /\ UNCHANGED <<net, blocked>>

\* The body of invoke(): the two callbacks are defined, then the message is sent.
NewCall(c) ==
  /\ promise' = [promise EXCEPT ![c] = "pending"]
  /\ window' = window \cup ({c} \X Ends)
  /\ Ipc(c)

InvokeCommand(c, k) ==
  /\ page > 0
  /\ promise[c] = "none"
  /\ ~c.data
  /\ k \in Sends[c.cmd]
  /\ Within(Made \cup {c}, page)
  /\ NewCall(c)
  /\ kind' = [kind EXCEPT ![c] = k]
  /\ UNCHANGED <<build, webview, page, ready, customProtocolIpcFailed, scripts,
                 rust, fellBack>>

\* Mutant: the queue is not sent when the frame is ready.
IsolationReadyOnly ==
  /\ page > 0
  /\ isolation
  /\ ~ready
  /\ ready' = TRUE
  /\ UNCHANGED <<build, webview, page, customProtocolIpcFailed, window, promise,
                 stage, kind, net, blocked, scripts, rust, fellBack>>

\* The frame says '__TAURI_ISOLATION_READY__': the queue is sent to it.
IsolationReady ==
  /\ page > 0
  /\ isolation
  /\ ~ready
  /\ ready' = TRUE
  /\ stage' = [c \in Calls |-> IF stage[c] = "queued" THEN "frame" ELSE stage[c]]
  /\ UNCHANGED <<build, webview, page, customProtocolIpcFailed, window, promise,
                 kind, net, blocked, scripts, rust, fellBack>>

\* The frame sends the encrypted message back.  Its hook is awaited, so messages
\* come back in any order.
IsolationMessage(c) ==
  /\ stage[c] = "frame"
  /\ SendIpcMessage(c, customProtocolIpcFailed)
  /\ UNCHANGED <<build, webview, page, ready, customProtocolIpcFailed, window,
                 promise, kind, scripts, rust, fellBack>>

\* The frame takes the payload for an encrypted one and ignores it, or its hook or
\* encrypt() throws or never settles: nobody tells the page.
IsolationIgnores(c) ==
  /\ stage[c] = "frame"
  /\ stage' = [stage EXCEPT ![c] = "ignored"]
  /\ UNCHANGED <<build, webview, page, ready, customProtocolIpcFailed, window,
                 promise, kind, net, blocked, scripts, rust, fellBack>>

-----------------------------------------------------------------------------
(* The page: settling *)

\* Mutant: the callback that was not called stays a property of window.
SettleOneEnd(c, e) ==
  LET hit == IF <<c, e>> \in window THEN {c} ELSE {}
      parent == IF hit # {} /\ c.data /\ e = "callback"
                   /\ <<Call(c.cmd), "callback">> \in window
                THEN {Call(c.cmd)} ELSE {}
  IN /\ window' = window \ ((hit \cup parent) \X {e})
     /\ promise' = [x \in Calls |->
          IF x \in hit \cup parent
          THEN IF e = "callback" THEN "resolved" ELSE "rejected"
          ELSE promise[x]]

\* Mutant: the catch() of the nested call rejects the call it is for.
SettleParent(c, e) ==
  LET hit == IF <<c, e>> \in window THEN {c} ELSE {}
      parent == IF hit # {} /\ c.data /\ <<Call(c.cmd), e>> \in window
                THEN {Call(c.cmd)} ELSE {}
  IN /\ window' = window \ ((hit \cup parent) \X Ends)
     /\ promise' = [x \in Calls |->
          IF x \in hit \cup parent
          THEN IF e = "callback" THEN "resolved" ELSE "rejected"
          ELSE promise[x]]

\* A callback of c is called if it is there.  It deletes itself (once) and the
\* other one.  The nested call's then() passes the body to the callback of the
\* call it is for; its catch() only logs.
Settle(c, e) ==
  LET hit == IF <<c, e>> \in window THEN {c} ELSE {}
      parent == IF hit # {} /\ c.data /\ e = "callback"
                   /\ <<Call(c.cmd), "callback">> \in window
                THEN {Call(c.cmd)} ELSE {}
  IN /\ window' = window \ ((hit \cup parent) \X Ends)
     /\ promise' = [x \in Calls |->
          IF x \in hit \cup parent
          THEN IF e = "callback" THEN "resolved" ELSE "rejected"
          ELSE promise[x]]

\* Mutant: only an "error" header selects the error callback.
ResponseEndUnlessError(r) == IF r = "error" THEN "error" ELSE "callback"

\* response.headers.get('Tauri-Response') === 'ok' ? callback : error
ResponseEnd(r) == IF r = "ok" THEN "callback" ELSE "error"

HttpResponse(c) ==
  /\ stage[c] = "fetch"
  /\ net[<<c, "fetch">>] \in {"ok", "error", "failure"}
  /\ stage' = [stage EXCEPT ![c] = "answered"]
  /\ Settle(c, ResponseEnd(net[<<c, "fetch">>]))
  /\ UNCHANGED <<build, webview, page, ready, customProtocolIpcFailed, kind, net,
                 blocked, scripts, rust, fellBack>>

\* Mutant: the page does not remember that the custom protocol failed.
FetchFailedForgotten(c) ==
  /\ stage[c] = "fetch"
  /\ SendIpcMessage(c, FALSE)
  /\ fellBack' = fellBack \cup {c}
  /\ UNCHANGED <<build, webview, page, ready, customProtocolIpcFailed, window,
                 promise, kind, scripts, rust>>

\* The catch() of the request: the webview blocked it, the connection broke, or
\* the response could not be read.  The Rust side may have received it or not.
FetchFailed(c) ==
  /\ stage[c] = "fetch"
  /\ customProtocolIpcFailed' = TRUE
  /\ SendIpcMessage(c, TRUE)
  /\ fellBack' = fellBack \cup {c}
  /\ UNCHANGED <<build, webview, page, ready, window, promise, kind, scripts, rust>>

\* The page runs a script: it calls a callback, or fetches the body of a response.
RunScript(s) ==
  /\ s \in scripts
  /\ page > 0
  /\ scripts' = scripts \ {s}
  /\ \/ /\ s.does \in Ends
        /\ Settle(s.call, s.does)
        /\ UNCHANGED <<stage, net, blocked, kind>>
     \/ /\ s.does = "fetch"
        /\ NewCall(Fetch(s.call.cmd))
        /\ kind' = [kind EXCEPT ![Fetch(s.call.cmd)] = "plain"]
  /\ UNCHANGED <<build, webview, page, ready, customProtocolIpcFailed, rust, fellBack>>

-----------------------------------------------------------------------------
(* The Rust side *)

\* Mutant: the body is queued under the call it answers.
BodiesByCall(c, res, channel) ==
  IF channel THEN data_queue \cup {c}
  ELSE IF c.data /\ res # "error" THEN data_queue \ {c.cmd}
  ELSE data_queue

\* Mutant: the body is not in the queue when the script that fetches it runs.
BodiesUnqueued(c, res, channel) ==
  IF c.data /\ res # "error" THEN data_queue \ {c.cmd} ELSE data_queue

\* A channel's sender puts the body into the queue, the fetch command takes it out.
Bodies(c, res, channel) ==
  IF channel THEN data_queue \cup {c.cmd}
  ELSE IF c.data /\ res # "error" THEN data_queue \ {c.cmd}
  ELSE data_queue

\* The responder of a transport is called with a response; large is a body that is
\* sent over a channel when it can be.  Any other is evaluated, as the error callback
\* when format_callback finds that it is no JSON.
Respond(c, t, res, large) ==
  LET channel == t = "post" /\ res # "error" /\ large /\ ~c.data /\ c \notin blocked
      does == IF channel THEN "fetch" ELSE IF res = "ok" THEN "callback" ELSE "error"
  IN /\ net' = [net EXCEPT ![<<c, t>>] = IF t = "post" THEN "evaluated" ELSE res]
     /\ scripts' = IF t = "post" THEN scripts \cup {[call |-> c, does |-> does]}
                   ELSE scripts
     /\ taken' = OneMore(taken, c, t)
     /\ succeeded' = IF res = "ok" THEN succeeded \cup {c} ELSE succeeded
     /\ data_queue' = Bodies(c, res, channel)
     /\ garbled' = IF channel /\ res = "garbled" THEN garbled \cup {c.cmd} ELSE garbled

Drop(c, t) ==
  /\ net' = [net EXCEPT ![<<c, t>>] = "dropped"]
  /\ UNCHANGED <<scripts, rust>>

\* Mutant: the command is reported as not found although a handler has it.
OnMessageNotFound(c, t) ==
  \/ /\ kind[c] = "keyless"
     /\ Drop(c, t)
  \/ /\ kind[c] # "keyless"
     /\ ~c.data
     /\ net' = [net EXCEPT ![<<c, t>>] = "held"]
     /\ runs' = OneMore(runs, c, t)
     /\ taken' = OneMore(taken, c, t)
     /\ UNCHANGED <<scripts, data_queue, garbled, succeeded>>

\* The fetch command takes the body of c out of the queue, whatever it is, or fails.
FetchResult(c) ==
  IF c \notin data_queue THEN "error" ELSE IF c \in garbled THEN "garbled" ELSE "ok"

\* Webview::on_message.  A message with another invoke key is ignored; a command
\* the ACL does not allow, or no handler has, is rejected; otherwise its handler
\* runs with the resolver.  The fetch command is synchronous and not subject to
\* the ACL.
OnMessage(c, t) ==
  \/ /\ kind[c] = "keyless"
     /\ Drop(c, t)
  \/ /\ kind[c] # "keyless"
     /\ ~c.data
     /\ Respond(c, t, "error", FALSE)
     /\ UNCHANGED runs
  \/ /\ kind[c] # "keyless"
     /\ ~c.data
     /\ net' = [net EXCEPT ![<<c, t>>] = "held"]
     /\ runs' = OneMore(runs, c, t)
     /\ UNCHANGED <<scripts, data_queue, garbled, taken, succeeded>>
  \/ /\ c.data
     /\ Respond(c, t, FetchResult(c.cmd), FALSE)
     /\ runs' = OneMore(runs, c, t)

\* protocol::get, for a POST request
ReceiveFetch(c) ==
  /\ net[<<c, "fetch">>] = "sent"
  /\ \/ /\ webview # "attached" \/ kind[c] = "malformed"
        /\ net' = [net EXCEPT ![<<c, "fetch">>] = "failure"]
        /\ UNCHANGED <<scripts, rust>>
     \/ /\ webview = "attached"
        /\ kind[c] # "malformed"
        /\ OnMessage(c, "fetch")
  /\ UNCHANGED <<build, webview, js, kind, blocked, fellBack>>

\* A request that the page no longer waits for is cancelled on its way.
RequestLost(c) ==
  /\ net[<<c, "fetch">>] = "sent"
  /\ stage[c] # "fetch"
  /\ net' = [net EXCEPT ![<<c, "fetch">>] = "dropped"]
  /\ UNCHANGED <<build, webview, js, kind, blocked, scripts, rust, fellBack>>

\* handle_ipc_message
ReceivePost(c) ==
  /\ net[<<c, "post">>] = "sent"
  /\ \/ /\ webview # "attached" \/ kind[c] = "malformed"
        /\ Drop(c, "post")
     \/ /\ webview = "attached"
        /\ kind[c] # "malformed"
        /\ OnMessage(c, "post")
  /\ UNCHANGED <<build, webview, js, kind, blocked, fellBack>>

\* InvokeResolver::return_result, by a command or its task
ReturnResult(c, t, res, large) ==
  /\ net[<<c, t>>] = "held"
  /\ res \in Answers[c.cmd]
  /\ Respond(c, t, res, large)
  /\ UNCHANGED <<build, webview, js, kind, blocked, runs, fellBack>>

\* A command drops its resolver without an answer, or its task never ends.
ForgetResolver(c, t) ==
  /\ net[<<c, t>>] = "held"
  /\ Drop(c, t)
  /\ UNCHANGED <<build, webview, js, kind, blocked, fellBack>>

-----------------------------------------------------------------------------
(* The webview *)

\* The page starts to load before the webview is in the manager's table.
AttachWebview ==
  /\ webview = "created"
  /\ webview' = "attached"
  /\ UNCHANGED <<build, js, kind, net, blocked, scripts, rust, fellBack>>

\* The page goes, with its callbacks, promises and variables; number n is next.
Unload(n) ==
  /\ page' = n
  /\ ready' = FALSE
  /\ customProtocolIpcFailed' = FALSE
  /\ window' = {}
  /\ promise' = [c \in Calls |-> IF promise[c] = "pending" THEN "lost" ELSE promise[c]]
  /\ stage' = [c \in Calls |-> IF stage[c] = "none" THEN "none" ELSE "gone"]

Reload ==
  /\ page > 0
  /\ Within(Made, page + 1)
  /\ Unload(page + 1)
  /\ UNCHANGED <<build, webview, kind, net, blocked, scripts, rust, fellBack>>

\* The runtime destroys the webview; scripts evaluated afterwards do nothing.
DestroyPage ==
  /\ page > 0
  /\ webview # "created"
  /\ Unload(0)
  /\ UNCHANGED <<build, webview, kind, net, blocked, scripts, rust, fellBack>>

\* on_webview_close
CloseWebview ==
  /\ webview = "attached"
  /\ webview' = "closed"
  /\ UNCHANGED <<build, js, kind, net, blocked, scripts, rust, fellBack>>

-----------------------------------------------------------------------------
(* Specification *)

Init ==
  /\ canUseCustomProtocol \in BOOLEAN
  /\ isolation \in BOOLEAN
  /\ webview = "created"
  /\ page = 1
  /\ ready = FALSE
  /\ customProtocolIpcFailed = FALSE
  /\ window = {}
  /\ promise = [c \in Calls |-> "none"]
  /\ kind = [c \in Calls |-> "plain"]
  /\ stage = [c \in Calls |-> "none"]
  /\ net = [m \in Calls \X Transports |-> "none"]
  /\ blocked = {}
  /\ scripts = {}
  /\ data_queue = {}
  /\ garbled = {}
  /\ runs = [m \in Calls \X Transports |-> 0]
  /\ taken = [m \in Calls \X Transports |-> 0]
  /\ succeeded = {}
  /\ fellBack = {}

Page(c) ==
  \/ \E k \in Kinds : InvokeCommand(c, k)
  \/ IsolationMessage(c)
  \/ IsolationIgnores(c)
  \/ HttpResponse(c)
  \/ FetchFailed(c)

Finish(c, t) ==
  \/ \E res \in Results, large \in BOOLEAN : ReturnResult(c, t, res, large)
  \/ ForgetResolver(c, t)

Next ==
  \/ \E c \in Calls : Page(c) \/ ReceiveFetch(c) \/ RequestLost(c) \/ ReceivePost(c)
  \/ \E c \in Calls, t \in Transports : Finish(c, t)
  \/ \E s \in Script : RunScript(s)
  \/ IsolationReady
  \/ AttachWebview
  \/ Reload
  \/ DestroyPage
  \/ CloseWebview

Spec == Init /\ [][Next]_vars

\* What is under way: in the isolation frame, in the webview that delivers requests,
\* responses, messages and scripts, and in commands, each of which answers or gives
\* up its resolver.  No new call is ever due, nor does the custom protocol ever fail
\* by necessity, except on a response that cannot be read.
Progress ==
  \/ IsolationReady
  \/ \E c \in Calls : \/ IsolationMessage(c) \/ IsolationIgnores(c)
                      \/ HttpResponse(c) \/ ReceiveFetch(c) \/ ReceivePost(c)
                      \/ net[<<c, "fetch">>] = "garbled" /\ FetchFailed(c)
  \/ \E c \in Calls, t \in Transports : Finish(c, t)
  \/ \E s \in Script : RunScript(s)

Fairness == WF_vars(Progress)

FairSpec == Spec /\ Fairness

-----------------------------------------------------------------------------
(* Properties *)

\* Every variable holds what its code stores: in particular ChannelDataIpcQueue
\* holds bodies under the ids that the fetch command asks for.
TypeOK ==
  /\ canUseCustomProtocol \in BOOLEAN
  /\ isolation \in BOOLEAN
  /\ webview \in {"created", "attached", "closed"}
  /\ page \in Nat
  /\ ready \in BOOLEAN
  /\ customProtocolIpcFailed \in BOOLEAN
  /\ window \subseteq Calls \X Ends
  /\ promise \in [Calls -> Promises]
  /\ kind \in [Calls -> Kinds]
  /\ stage \in [Calls -> Stages]
  /\ net \in [Calls \X Transports -> Nets]
  /\ blocked \subseteq Calls
  /\ scripts \subseteq Script
  /\ data_queue \subseteq Commands
  /\ garbled \subseteq Commands
  /\ runs \in [Calls \X Transports -> Nat]
  /\ taken \in [Calls \X Transports -> Nat]
  /\ succeeded \subseteq Calls
  /\ fellBack \subseteq Calls

\* Both callbacks of a call are properties of window exactly while its promise is
\* pending (transformCallback and invoke in core.js): the second answer to a call
\* that was sent twice finds neither, and no callback is left behind.
CallbacksPaired ==
  \A c \in Calls, e \in Ends :
    <<c, e>> \in window <=> promise[c] = "pending"

\* A command runs at most once for each transport, and on both only if the page saw
\* its request fail (the catch() of sendIpcMessage in ipc-protocol.js).
RunsOncePerTransport ==
  \A c \in Calls :
    /\ \A t \in Transports : runs[<<c, t>>] <= 1
    /\ runs[<<c, "fetch">>] + runs[<<c, "post">>] = 2 => c \in fellBack

\* The responder of a message is taken at most once, so return_result never panics
\* with "resolver consumed" (ipc/mod.rs), whether on_message rejects the command or
\* its handler answers.
ResponderTakenOnce ==
  \A c \in Calls, t \in Transports : taken[<<c, t>>] <= 1

\* A promise is resolved only if a run of its command returned Ok with a body that
\* can be read: not by a response that protocol::get made without running it, nor by
\* a body that belongs to nothing.
ResolvedBySuccess ==
  \A c \in Calls : promise[c] = "resolved" => c \in succeeded

\* The body of a response is found by the call that fetches it, unless that call
\* was sent a second time (the first may have taken the body), the webview has left
\* the manager's table, or the body is no JSON (fetch in ipc/channel.rs).
BodyFetched ==
  \A c \in Commands :
    promise[Fetch(c)] = "rejected" =>
      Fetch(c) \in fellBack \/ webview = "closed" \/ c \in garbled

Unanswered(c) ==
  \/ stage[c] = "ignored"
  \/ net[<<c, "post">>] = "dropped"
  \/ stage[c] = "fetch" /\ net[<<c, "fetch">>] = "dropped"

\* The ways for a call of a living page to stay without an answer.
Abandoned(c) ==
  \/ Unanswered(c)
  \/ ~c.data /\ (Unanswered(Fetch(c.cmd)) \/ promise[Fetch(c.cmd)] = "rejected")

\* Every promise is settled, unless its page goes away or the call is abandoned:
\* the isolation frame never sent it on (isolation.js ignores a payload that looks
\* encrypted, and tells nobody when its hook or encrypt() throws or hangs), the
\* message was ignored (another invoke key; by postMessage also one that does not
\* parse, or that comes when the webview is not in the table), the command kept its
\* resolver for ever, or the body of its response could not be fetched or read.
Settles ==
  \A c \in Calls :
    promise[c] = "pending" ~> promise[c] # "pending" \/ Abandoned(c)

\* invoke() is a remote call as RemoteCall says, nested calls and transports hidden:
\* a page that repeats a request after the catch() of sendIpcMessage (ipc-protocol.js)
\* may have its command run twice and be told either outcome, and no other page may.
\* A run that returns a body the page cannot read (format_callback.rs, the Err arm of
\* responder_eval) counts as one that failed.
Remote == INSTANCE RemoteCall WITH
  promise <- [c \in Commands |-> promise[Call(c)]],
  ran <- [c \in Commands |-> runs[<<Call(c), "fetch">>] + runs[<<Call(c), "post">>]],
  succeeded <- {c \in Commands : Call(c) \in succeeded},
  repeated <- {c \in Commands : Call(c) \in fellBack}
ImplementsRemoteCall == Remote!Spec
=============================================================================
