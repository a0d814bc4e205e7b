---------------------------- MODULE InvokeProofs ----------------------------
(***************************************************************************)
(* The safety properties of the invoke protocol, for any commands, kinds   *)
(* of messages and bounds.  The invariant is built in layers: where a call *)
(* stands in the page against where its messages stand (Placed), what has  *)
(* run and been taken (Counted), what only a success leaves behind (Earned)*)
(* and where the bodies of responses are (Stored).                         *)
(***************************************************************************)
EXTENDS Invoke, TLAPS

-----------------------------------------------------------------------------
(* Types *)

\* Init gives every variable of the page, the webview and the Rust side a value
\* of its type.
LEMMA InitType == Init => TypeOK
<1> SUFFICES ASSUME Init PROVE TypeOK
  BY Zenon
<1>1. /\ canUseCustomProtocol \in BOOLEAN /\ isolation \in BOOLEAN
      /\ ready \in BOOLEAN /\ customProtocolIpcFailed \in BOOLEAN
  BY Zenon DEF Init
<1>2. /\ webview \in {"created", "attached", "closed"} /\ page \in Nat
      /\ window \subseteq Calls \X Ends
      /\ promise \in [Calls -> Promises]
      /\ kind \in [Calls -> Kinds]
      /\ stage \in [Calls -> Stages]
      /\ net \in [Calls \X Transports -> Nets]
  BY Zenon DEF Init, Promises, Kinds, Stages, Nets
<1>3. /\ blocked \subseteq Calls /\ scripts \subseteq Script /\ data_queue \subseteq Commands
      /\ garbled \subseteq Commands
      /\ runs \in [Calls \X Transports -> Nat]
      /\ taken \in [Calls \X Transports -> Nat]
      /\ succeeded \subseteq Calls /\ fellBack \subseteq Calls
  BY Zenon DEF Init
<1> QED BY Zenon, <1>1, <1>2, <1>3 DEF TypeOK

\* What a message is sent over, and what sendIpcMessage changes.
LEMMA SendType ==
  ASSUME TypeOK, NEW c \in Calls, NEW f \in BOOLEAN, SendIpcMessage(c, f)
  PROVE  /\ stage' \in [Calls -> Stages]
         /\ net' \in [Calls \X Transports -> Nets]
         /\ blocked' \subseteq Calls
<1>1. /\ stage' \in [Calls -> Stages]
      /\ net' \in [Calls \X Transports -> Nets]
  BY Zenon DEF TypeOK, SendIpcMessage, Stages, Nets, Transports
<1>2. blocked' \subseteq Calls
  BY Zenon DEF TypeOK, SendIpcMessage
<1> QED BY Zenon, <1>1, <1>2

\* invoke() defines callbacks, a promise and a place for the call.
LEMMA IpcType ==
  ASSUME TypeOK, NEW c \in Calls, NewCall(c)
  PROVE  /\ stage' \in [Calls -> Stages]
         /\ net' \in [Calls \X Transports -> Nets]
         /\ blocked' \subseteq Calls
         /\ promise' \in [Calls -> Promises]
         /\ window' \subseteq Calls \X Ends
<1>1. /\ promise' \in [Calls -> Promises]
      /\ window' \subseteq Calls \X Ends
  BY Zenon DEF TypeOK, NewCall, Promises
<1>2. customProtocolIpcFailed \in BOOLEAN
  BY Zenon DEF TypeOK
<1>3. CASE SendIpcMessage(c, customProtocolIpcFailed)
  BY Zenon, <1>1, <1>2, <1>3, SendType
<1>4. CASE /\ stage' = [stage EXCEPT ![c] = IF ready THEN "frame" ELSE "queued"]
           /\ UNCHANGED <<net, blocked>>
  BY Zenon, <1>1, <1>4 DEF TypeOK, Stages
<1> QED BY Zenon, <1>3, <1>4 DEF NewCall, Ipc

\* A callback that runs leaves promises and callbacks of known calls.
LEMMA SettleType ==
  ASSUME TypeOK, NEW c \in Calls, NEW e \in Ends, Settle(c, e)
  PROVE  /\ promise' \in [Calls -> Promises]
         /\ window' \subseteq Calls \X Ends
  BY Zenon DEF TypeOK, Settle, Promises

\* A responder leaves responses, scripts and bodies of known calls.
LEMMA RespondType ==
  ASSUME TypeOK, NEW c \in Calls, NEW t \in Transports, NEW res \in Results, NEW large \in BOOLEAN,
         Respond(c, t, res, large)
  PROVE  /\ net' \in [Calls \X Transports -> Nets]
         /\ scripts' \subseteq Script
         /\ taken' \in [Calls \X Transports -> Nat]
         /\ succeeded' \subseteq Calls
         /\ data_queue' \subseteq Commands
         /\ garbled' \subseteq Commands
<1>1. net' \in [Calls \X Transports -> Nets]
  BY Zenon DEF TypeOK, Respond, Nets, Results
<1>2. scripts' \subseteq Script
  BY DEF TypeOK, Respond, Script, Ends
<1>3. taken' \in [Calls \X Transports -> Nat]
  BY DEF TypeOK, Respond, OneMore
<1>4. succeeded' \subseteq Calls
  BY Zenon DEF TypeOK, Respond
<1>5. data_queue' \subseteq Commands
  BY Zenon DEF TypeOK, Respond, Bodies, Calls
<1>6. garbled' \subseteq Commands
  BY Zenon DEF TypeOK, Respond, Calls
<1> QED BY Zenon, <1>1, <1>2, <1>3, <1>4, <1>5, <1>6

\* A message that is dropped changes nothing but where it stands.
LEMMA DropType ==
  ASSUME TypeOK, NEW c \in Calls, NEW t \in Transports, Drop(c, t)
  PROVE  /\ net' \in [Calls \X Transports -> Nets]
         /\ UNCHANGED <<scripts, taken, succeeded, data_queue, garbled, runs>>
  BY Zenon DEF TypeOK, Drop, Nets, rust

\* on_message keeps the types, whichever of its branches is taken.
LEMMA OnMessageType ==
  ASSUME TypeOK, NEW c \in Calls, NEW t \in Transports, OnMessage(c, t)
  PROVE  /\ net' \in [Calls \X Transports -> Nets]
         /\ scripts' \subseteq Script
         /\ taken' \in [Calls \X Transports -> Nat]
         /\ succeeded' \subseteq Calls
         /\ data_queue' \subseteq Commands
         /\ garbled' \subseteq Commands
         /\ runs' \in [Calls \X Transports -> Nat]
<1>0. FetchResult(c.cmd) \in Results /\ "error" \in Results
  BY Zenon DEF FetchResult, Results
<1>1. CASE Drop(c, t)
  BY Zenon, <1>1, DropType DEF TypeOK
<1>2. CASE Respond(c, t, "error", FALSE) /\ UNCHANGED runs
  BY Zenon, <1>0, <1>2, RespondType DEF TypeOK
<1>3. CASE /\ net' = [net EXCEPT ![<<c, t>>] = "held"]
           /\ runs' = OneMore(runs, c, t)
           /\ UNCHANGED <<scripts, data_queue, garbled, taken, succeeded>>
  BY <1>3 DEF TypeOK, OneMore, Nets
<1>4. CASE Respond(c, t, FetchResult(c.cmd), FALSE) /\ runs' = OneMore(runs, c, t)
  <2>1. runs' \in [Calls \X Transports -> Nat]
    BY <1>4 DEF TypeOK, OneMore
  <2> QED BY Zenon, <1>0, <1>4, <2>1, RespondType
<1> QED BY Zenon, <1>1, <1>2, <1>3, <1>4 DEF OnMessage

\* Every step keeps the types, whichever side of the protocol takes it.
LEMMA NextType == TypeOK /\ [Next]_vars => TypeOK'
<1> SUFFICES ASSUME TypeOK, [Next]_vars PROVE TypeOK'
  BY Zenon
<1> USE DEF build, js, rust
<1>1. ASSUME NEW c \in Calls, NEW k \in Kinds, InvokeCommand(c, k) PROVE TypeOK'
  <2>1. kind' \in [Calls -> Kinds]
    BY Zenon, <1>1 DEF InvokeCommand, TypeOK
  <2> QED BY Zenon, <1>1, <2>1, IpcType DEF InvokeCommand, TypeOK
<1>2. ASSUME NEW c \in Calls, IsolationMessage(c) \/ IsolationIgnores(c) PROVE TypeOK'
  <2>1. CASE IsolationMessage(c)
    BY Zenon, <2>1, SendType DEF IsolationMessage, TypeOK
  <2>2. CASE IsolationIgnores(c)
    BY Zenon, <2>2 DEF IsolationIgnores, TypeOK, Stages
  <2> QED BY Zenon, <1>2, <2>1, <2>2
<1>3. ASSUME NEW c \in Calls, HttpResponse(c) PROVE TypeOK'
  <2>1. ResponseEnd(net[<<c, "fetch">>]) \in Ends
    BY Zenon DEF ResponseEnd, Ends
  <2>2. stage' \in [Calls -> Stages]
    BY Zenon, <1>3 DEF HttpResponse, TypeOK, Stages
  <2> QED BY Zenon, <1>3, <2>1, <2>2, SettleType DEF HttpResponse, TypeOK
<1>4. ASSUME NEW c \in Calls, FetchFailed(c) PROVE TypeOK'
  BY Zenon, <1>4, SendType DEF FetchFailed, TypeOK
<1>5. ASSUME NEW c \in Calls, ReceiveFetch(c) PROVE TypeOK'
  <2>1. "fetch" \in Transports
    BY Zenon DEF Transports
  <2>2. CASE OnMessage(c, "fetch")
    BY Zenon, <1>5, <2>1, <2>2, OnMessageType DEF ReceiveFetch, TypeOK
  <2>3. CASE net' = [net EXCEPT ![<<c, "fetch">>] = "failure"] /\ UNCHANGED <<scripts, rust>>
    BY Zenon, <1>5, <2>3 DEF ReceiveFetch, TypeOK, Nets
  <2> QED BY Zenon, <1>5, <2>2, <2>3 DEF ReceiveFetch
<1>6. ASSUME NEW c \in Calls, RequestLost(c) PROVE TypeOK'
  BY Zenon, <1>6 DEF RequestLost, TypeOK, Nets
<1>7. ASSUME NEW c \in Calls, ReceivePost(c) PROVE TypeOK'
  <2>1. "post" \in Transports
    BY Zenon DEF Transports
  <2>2. CASE OnMessage(c, "post")
    BY Zenon, <1>7, <2>1, <2>2, OnMessageType DEF ReceivePost, TypeOK
  <2>3. CASE Drop(c, "post")
    BY Zenon, <1>7, <2>1, <2>3, DropType DEF ReceivePost, TypeOK
  <2> QED BY Zenon, <1>7, <2>2, <2>3 DEF ReceivePost
<1>8. ASSUME NEW c \in Calls, NEW t \in Transports, NEW res \in Results, NEW large \in BOOLEAN,
             ReturnResult(c, t, res, large)
      PROVE  TypeOK'
  BY <1>8, RespondType DEF ReturnResult, TypeOK
<1>9. ASSUME NEW c \in Calls, NEW t \in Transports, ForgetResolver(c, t) PROVE TypeOK'
  BY Zenon, <1>9, DropType DEF ForgetResolver, TypeOK
<1>10. ASSUME NEW s \in Script, RunScript(s) PROVE TypeOK'
  <2>1. s.call \in Calls /\ Fetch(s.call.cmd) \in Calls
    BY Zenon DEF Script, Calls, Fetch
  <2>2. CASE s.does \in Ends /\ Settle(s.call, s.does) /\ UNCHANGED <<stage, net, blocked, kind>>
    BY Zenon, <1>10, <2>1, <2>2, SettleType DEF RunScript, TypeOK
  <2>3. CASE /\ NewCall(Fetch(s.call.cmd))
             /\ kind' = [kind EXCEPT ![Fetch(s.call.cmd)] = "plain"]
    <3>1. kind' \in [Calls -> Kinds]
      BY Zenon, <2>3 DEF TypeOK, Kinds
    <3> QED BY Zenon, <1>10, <2>1, <2>3, <3>1, IpcType DEF RunScript, TypeOK
  <2> QED BY Zenon, <1>10, <2>2, <2>3 DEF RunScript
<1>11. CASE IsolationReady
  <2>1. stage' \in [Calls -> Stages]
    BY Zenon, <1>11 DEF IsolationReady, TypeOK, Stages
  <2> QED BY Zenon, <1>11, <2>1 DEF IsolationReady, TypeOK
<1>12. ASSUME NEW n \in Nat, Unload(n),
              UNCHANGED <<build, webview, kind, net, blocked, scripts, rust, fellBack>>
       PROVE  TypeOK'
  <2>1. stage' \in [Calls -> Stages] /\ promise' \in [Calls -> Promises]
    BY Zenon, <1>12 DEF Unload, TypeOK, Stages, Promises
  <2> QED BY Zenon, <1>12, <2>1 DEF Unload, TypeOK
<1>13. CASE Reload
  BY <1>12, <1>13 DEF Reload, TypeOK
<1>14. CASE DestroyPage
  BY Zenon, <1>12, <1>14 DEF DestroyPage
<1>15. CASE AttachWebview
  BY Zenon, <1>15 DEF AttachWebview, TypeOK
<1>16. CASE CloseWebview
  BY Zenon, <1>16 DEF CloseWebview, TypeOK
<1>17. CASE UNCHANGED vars
  BY Zenon, <1>17 DEF vars, TypeOK
<1> QED BY Zenon, <1>1, <1>2, <1>3, <1>4, <1>5, <1>6, <1>7, <1>8, <1>9, <1>10, <1>11, <1>13,
           <1>14, <1>15, <1>16, <1>17 DEF Next, Page, Finish

-----------------------------------------------------------------------------
(* The invariant *)

\* A message is on its way only if the page has sent it; the body of a response is
\* fetched only after the script that fetches it was evaluated.
Placed ==
  /\ \A c \in Calls, t \in Transports :
       stage[c] \in {"none", "queued", "frame"} => net[<<c, t>>] = "none"
  /\ \A c \in Calls : stage[c] = "fetch" => net[<<c, "post">>] = "none"
  /\ \A c \in Calls : promise[c] = "none" <=> stage[c] = "none"
  /\ \A c \in Calls :
       net[<<c, "fetch">>] # "none" /\ net[<<c, "post">>] # "none" => c \in fellBack
  /\ \A c \in Commands :
       \/ [call |-> Call(c), does |-> "fetch"] \in scripts
       \/ stage[Fetch(c)] # "none"
       => net[<<Call(c), "post">>] = "evaluated"
  /\ \A c \in Commands :
       [call |-> Call(c), does |-> "fetch"] \in scripts => stage[Fetch(c)] = "none"
  /\ \A s \in scripts : s.does = "fetch" => ~s.call.data

\* A command runs, and its responder is taken, after the message was received.
Counted ==
  \A c \in Calls, t \in Transports :
    /\ net[<<c, t>>] \in {"none", "sent"} => runs[<<c, t>>] = 0
    /\ net[<<c, t>>] \in {"none", "sent", "held"} => taken[<<c, t>>] = 0
    /\ runs[<<c, t>>] <= 1
    /\ taken[<<c, t>>] <= 1

\* What a page takes for success only a success leaves behind.
Earned ==
  /\ \A c \in Calls : net[<<c, "fetch">>] = "ok" => c \in succeeded
  /\ \A s \in scripts : s.does = "callback" => s.call \in succeeded
  /\ \A s \in scripts :
       s.does = "fetch" => s.call \in succeeded \/ s.call.cmd \in garbled
  /\ \A c \in Commands : stage[Fetch(c)] # "none" => Call(c) \in succeeded \/ c \in garbled
  /\ \A c \in Commands : Fetch(c) \in succeeded => Call(c) \in succeeded
  /\ ResolvedBySuccess

Unanswering == {"none", "sent", "dropped", "failure"}

\* A body stays in the queue until a call that fetches it is answered.
Stored ==
  /\ \A c \in Commands : kind[Fetch(c)] = "plain"
  /\ \A c \in Calls, t \in Transports :
       net[<<c, t>>] \in {"held", "evaluated"} => webview # "created"
  /\ \A c \in Commands, t \in Transports : net[<<Fetch(c), t>>] # "held"
  /\ \A c \in Commands :
       [call |-> Call(c), does |-> "fetch"] \in scripts => c \in data_queue
  /\ \A c \in Commands :
       /\ stage[Fetch(c)] # "none"
       /\ \A t \in Transports : net[<<Fetch(c), t>>] \in Unanswering
       => c \in data_queue
  /\ \A c \in Commands : net[<<Fetch(c), "fetch">>] = "error" => Fetch(c) \in fellBack
  /\ \A c \in Commands : net[<<Fetch(c), "fetch">>] = "failure" => webview = "closed"
  /\ \A c \in Commands :
       [call |-> Fetch(c), does |-> "error"] \in scripts =>
         Fetch(c) \in fellBack \/ c \in garbled
  /\ BodyFetched

\* A call that was sent once has one outcome: a message is answered after it ran, a
\* success leaves an ok response or a script, and an error only where there is none.
Single ==
  /\ \A s \in scripts : net[<<s.call, "post">>] = "evaluated"
  /\ \A c \in Calls :
       stage[c] \in {"queued", "frame", "fetch"} => promise[c] = "pending"
  /\ \A c \in Calls :
       stage[c] \in {"none", "queued", "frame", "fetch"} => c \notin fellBack
  /\ \A c \in Calls, t \in Transports : net[<<c, t>>] = "held" => runs[<<c, t>>] = 1
  /\ \A c \in succeeded :
       \/ net[<<c, "fetch">>] = "ok"
       \/ net[<<c, "post">>] = "evaluated"
  /\ \A c \in succeeded :
       [call |-> c, does |-> "error"] \in scripts => c \in fellBack
  /\ \A c \in Calls : promise[c] = "rejected" /\ c \notin fellBack =>
       /\ c \notin succeeded
       /\ \A t \in Transports : net[<<c, t>>] \notin {"sent", "held"}

Inv == Placed /\ Counted /\ Earned /\ Stored /\ Single

-----------------------------------------------------------------------------
(* Steps *)

\* The call of a command and the call that fetches its body are two calls, and
\* every call is one of them.
LEMMA CallForms ==
  /\ \A c \in Commands : /\ Call(c) \in Calls /\ Fetch(c) \in Calls
                         /\ ~Call(c).data /\ Fetch(c).data
                         /\ Call(c).cmd = c /\ Fetch(c).cmd = c
  /\ \A c \in Calls : /\ c.cmd \in Commands
                      /\ c.data => c = Fetch(c.cmd)
                      /\ ~c.data => c = Call(c.cmd)
  BY DEF Calls, Call, Fetch

\* What the Rust side may do with one message it has received or holds.
Answer(c, t) ==
  /\ net[<<c, t>>] \in {"sent", "held"}
  /\ UNCHANGED <<build, webview, js, kind, blocked, fellBack>>
  /\ \/ runs' = runs
     \/ net[<<c, t>>] = "sent" /\ net'[<<c, t>>] # "sent" /\ runs' = OneMore(runs, c, t)
  /\ \/ /\ \E r \in {"held", "failure", "dropped"} :
             /\ net' = [net EXCEPT ![<<c, t>>] = r]
             /\ r = "held" => /\ ~c.data /\ webview = "attached"
                             /\ net[<<c, t>>] = "sent" /\ runs' = OneMore(runs, c, t)
             /\ r = "failure" => webview # "attached" \/ kind[c] = "malformed"
        /\ UNCHANGED <<scripts, data_queue, garbled, taken, succeeded>>
     \/ /\ \E res \in Results, large \in BOOLEAN :
             /\ Respond(c, t, res, large)
             /\ c.data /\ net[<<c, t>>] = "sent" => res = FetchResult(c.cmd)
             /\ ~c.data => runs' = runs /\ (res # "error" => net[<<c, t>>] = "held")
        /\ net[<<c, t>>] = "held" \/ webview = "attached"

\* Every step of the Rust side is one of these: on_message answers a message once,
\* at once or through the resolver the command holds.
LEMMA RustSteps ==
  ASSUME TypeOK, NEW c \in Calls, NEW t \in Transports,
         \/ t = "fetch" /\ (ReceiveFetch(c) \/ RequestLost(c))
         \/ t = "post" /\ ReceivePost(c)
         \/ Finish(c, t)
  PROVE  Answer(c, t)
<1> USE DEF rust, Answer
<1>1. ASSUME OnMessage(c, t), net[<<c, t>>] = "sent", webview = "attached",
             UNCHANGED <<build, webview, js, kind, blocked, fellBack>>
      PROVE  Answer(c, t)
  <2>1. CASE Drop(c, t)
    BY Zenon, <1>1, <2>1 DEF Drop
  <2>2. CASE ~c.data /\ Respond(c, t, "error", FALSE) /\ UNCHANGED runs
    BY Zenon, <1>1, <2>2 DEF Results
  <2>3. CASE /\ ~c.data
             /\ net' = [net EXCEPT ![<<c, t>>] = "held"]
             /\ runs' = OneMore(runs, c, t)
             /\ UNCHANGED <<scripts, data_queue, garbled, taken, succeeded>>
    <3>1. net'[<<c, t>>] = "held"
      BY Zenon, <2>3 DEF TypeOK
    <3> QED BY Zenon, <1>1, <2>3, <3>1
  <2>4. CASE c.data /\ Respond(c, t, FetchResult(c.cmd), FALSE) /\ runs' = OneMore(runs, c, t)
    <3>1. FetchResult(c.cmd) \in Results /\ FetchResult(c.cmd) # "sent"
      BY Zenon DEF FetchResult, Results
    <3>2. net'[<<c, t>>] # "sent"
      BY Zenon, <2>4, <3>1 DEF Respond, TypeOK
    <3> QED BY Zenon, <1>1, <2>4, <3>1, <3>2
  <2> QED BY Zenon, <1>1, <2>1, <2>2, <2>3, <2>4 DEF OnMessage
<1>2. CASE t = "fetch" /\ ReceiveFetch(c)
  BY Zenon, <1>1, <1>2 DEF ReceiveFetch
<1>3. CASE t = "fetch" /\ RequestLost(c)
  BY Zenon, <1>3 DEF RequestLost
<1>4. CASE t = "post" /\ ReceivePost(c)
  BY Zenon, <1>1, <1>4 DEF ReceivePost, Drop
<1>5. CASE Finish(c, t)
  BY Zenon, <1>5 DEF Finish, ReturnResult, ForgetResolver, Drop
<1> QED BY Zenon, <1>2, <1>3, <1>4, <1>5

\* sendIpcMessage puts the message on one transport, postMessage when the request
\* has failed.
LEMMA Sending ==
  ASSUME TypeOK, NEW c \in Calls, NEW f \in BOOLEAN, SendIpcMessage(c, f)
  PROVE  \E t \in Transports :
           /\ stage' = [stage EXCEPT ![c] = t]
           /\ net' = [net EXCEPT ![<<c, t>>] = "sent"]
           /\ f => t = "post"
  BY Zenon DEF SendIpcMessage, Transports

\* A new call is sent, or waits for the isolation frame.
LEMMA Calling ==
  ASSUME TypeOK, NEW c \in Calls, NewCall(c)
  PROVE  /\ promise' = [promise EXCEPT ![c] = "pending"]
         /\ window' = window \cup ({c} \X Ends)
         /\ \/ \E t \in Transports :
                 /\ stage' = [stage EXCEPT ![c] = t]
                 /\ net' = [net EXCEPT ![<<c, t>>] = "sent"]
            \/ \E g \in {"frame", "queued"} :
                 stage' = [stage EXCEPT ![c] = g] /\ net' = net
<1>1. customProtocolIpcFailed \in BOOLEAN
  BY Zenon DEF TypeOK
<1>2. CASE SendIpcMessage(c, customProtocolIpcFailed)
  BY Zenon, <1>1, <1>2, Sending DEF NewCall
<1>3. CASE /\ stage' = [stage EXCEPT ![c] = IF ready THEN "frame" ELSE "queued"]
           /\ UNCHANGED <<net, blocked>>
  BY Zenon, <1>3 DEF NewCall
<1> QED BY Zenon, <1>2, <1>3 DEF NewCall, Ipc

\* A new call leaves every other call as it is.
LEMMA CallingOthers ==
  ASSUME TypeOK, NEW c \in Calls, NewCall(c), NEW x \in Calls, x # c
  PROVE  /\ promise'[x] = promise[x]
         /\ stage'[x] = stage[x]
         /\ \A u \in Transports : net'[<<x, u>>] = net[<<x, u>>]
<1>1. CASE \E t \in Transports : /\ stage' = [stage EXCEPT ![c] = t]
                                 /\ net' = [net EXCEPT ![<<c, t>>] = "sent"]
  BY Zenon, <1>1 DEF TypeOK, NewCall
<1>2. CASE \E g \in {"frame", "queued"} : stage' = [stage EXCEPT ![c] = g] /\ net' = net
  BY Zenon, <1>2 DEF TypeOK, NewCall
<1> QED BY Zenon, <1>1, <1>2, Calling

\* Settling changes the promises of the call and of the one it fetches a body for,
\* and only if they are pending.
LEMMA Settling ==
  ASSUME TypeOK, CallbacksPaired, NEW c \in Calls, NEW e \in Ends, Settle(c, e)
  PROVE  \A x \in Calls :
           \/ promise'[x] = promise[x]
           \/ /\ promise[x] = "pending"
              /\ promise[c] = "pending"
              /\ promise'[x] = IF e = "callback" THEN "resolved" ELSE "rejected"
              /\ x = c \/ (c.data /\ e = "callback" /\ x = Call(c.cmd))
  BY Zenon, CallForms DEF Settle, CallbacksPaired, TypeOK

-----------------------------------------------------------------------------
(* Every step preserves the invariant *)

\* The callbacks of a call come and go together.
LEMMA NextPaired == TypeOK /\ CallbacksPaired /\ [Next]_vars => CallbacksPaired'
<1> SUFFICES ASSUME TypeOK, CallbacksPaired, [Next]_vars PROVE CallbacksPaired'
  BY Zenon
<1>1. ASSUME NEW c \in Calls, NewCall(c) PROVE CallbacksPaired'
  BY Zenon, <1>1 DEF NewCall, CallbacksPaired, TypeOK
<1>2. ASSUME NEW c \in Calls, NEW e \in Ends, Settle(c, e) PROVE CallbacksPaired'
  BY Zenon, <1>2 DEF Settle, CallbacksPaired, TypeOK
<1>3. ASSUME NEW n \in Nat, Unload(n) PROVE CallbacksPaired'
  BY Zenon, <1>3 DEF Unload, CallbacksPaired, TypeOK
<1>4. CASE UNCHANGED <<window, promise>>
  BY Zenon, <1>4 DEF CallbacksPaired
<1>5. ASSUME NEW c \in Calls, Page(c) PROVE CallbacksPaired'
  <2>1. ResponseEnd(net[<<c, "fetch">>]) \in Ends
    BY Zenon DEF ResponseEnd, Ends
  <2> QED BY Zenon, <1>1, <1>2, <1>4, <1>5, <2>1
        DEF Page, InvokeCommand, IsolationMessage, IsolationIgnores, HttpResponse,
            FetchFailed
<1>6. ASSUME NEW s \in Script, RunScript(s) PROVE CallbacksPaired'
  BY Zenon, <1>1, <1>2, <1>6, CallForms DEF RunScript, Script
<1>7. CASE Reload \/ DestroyPage
  BY <1>3, <1>7 DEF Reload, DestroyPage, TypeOK
<1>8. CASE IsolationReady \/ AttachWebview \/ CloseWebview \/ UNCHANGED vars
  BY Zenon, <1>4, <1>8 DEF IsolationReady, AttachWebview, CloseWebview, vars, js
<1>9. ASSUME NEW c \in Calls, ReceiveFetch(c) \/ RequestLost(c) \/ ReceivePost(c)
      PROVE  CallbacksPaired'
  BY Zenon, <1>4, <1>9 DEF ReceiveFetch, RequestLost, ReceivePost, js
<1>10. ASSUME NEW c \in Calls, NEW t \in Transports, Finish(c, t) PROVE CallbacksPaired'
  BY Zenon, <1>4, <1>10 DEF Finish, ReturnResult, ForgetResolver, js
<1> QED BY Zenon, <1>5, <1>6, <1>7, <1>8, <1>9, <1>10 DEF Next

\* An answer moves the message it answers and no other.
LEMMA AnsweredNet ==
  ASSUME TypeOK, NEW c \in Calls, NEW t \in Transports, Answer(c, t),
         NEW x \in Calls, NEW u \in Transports
  PROVE  /\ x = c /\ u = t =>
              /\ net[<<x, u>>] \in {"sent", "held"}
              /\ net'[<<x, u>>] \in {"held", "failure", "dropped", "ok", "garbled", "error",
                                   "evaluated"}
         /\ x # c \/ u # t => net'[<<x, u>>] = net[<<x, u>>]
  BY Zenon DEF Answer, TypeOK, Respond, Results

\* A script that an answer adds answers that message.
LEMMA AnsweredScripts ==
  ASSUME TypeOK, NEW c \in Calls, NEW t \in Transports, Answer(c, t)
  PROVE  /\ scripts \subseteq scripts'
         /\ \A s \in scripts' :
              \/ s \in scripts
              \/ /\ t = "post" /\ net'[<<c, t>>] = "evaluated"
                 /\ s.call = c
                 /\ s.does = "fetch" => ~s.call.data
<1>1. CASE UNCHANGED scripts
  BY Zenon, <1>1
<1>2. ASSUME NEW res \in Results, NEW large \in BOOLEAN, Respond(c, t, res, large)
      PROVE  /\ t = "post" => net'[<<c, t>>] = "evaluated"
             /\ scripts \subseteq scripts'
             /\ \A s \in scripts' :
                  \/ s \in scripts
                  \/ /\ t = "post"
                     /\ s.call = c /\ (s.does = "fetch" => ~s.call.data)
  BY <1>2 DEF Respond, TypeOK
<1> QED BY Zenon, <1>1, <1>2 DEF Answer

\* Counting: what the Rust side does with a message it does once.
LEMMA NextCounted == TypeOK /\ Placed /\ Counted /\ [Next]_vars => Counted'
<1> SUFFICES ASSUME TypeOK, Placed, Counted, [Next]_vars PROVE Counted'
  BY Zenon
<1>1. ASSUME NEW c \in Calls, NEW t \in Transports, Answer(c, t) PROVE Counted'
  <2>1. net \in [Calls \X Transports -> Nets] /\ runs \in [Calls \X Transports -> Nat]
        /\ taken \in [Calls \X Transports -> Nat]
    BY Zenon DEF TypeOK
  <2>2. \A x \in Calls, u \in Transports :
          /\ <<x, u>> # <<c, t>> => /\ net'[<<x, u>>] = net[<<x, u>>]
                                    /\ runs'[<<x, u>>] = runs[<<x, u>>]
                                    /\ taken'[<<x, u>>] = taken[<<x, u>>]
          /\ <<x, u>> = <<c, t>> => /\ net'[<<x, u>>] \notin {"none", "sent"}
                                    /\ runs'[<<x, u>>] <= 1
                                    /\ taken'[<<x, u>>] <= 1
                                    /\ net'[<<x, u>>] = "held" => taken'[<<x, u>>] = 0
    <3>1. net[<<c, t>>] \in {"sent", "held"} /\ taken[<<c, t>>] = 0 /\ runs[<<c, t>>] <= 1
      BY Zenon, <1>1 DEF Answer, Counted
    <3>2. net[<<c, t>>] = "sent" => runs[<<c, t>>] = 0
      BY Zenon, <1>1 DEF Counted
    <3>3. \A x \in Calls, u \in Transports :
            /\ <<x, u>> # <<c, t>> => runs'[<<x, u>>] = runs[<<x, u>>]
            /\ <<x, u>> = <<c, t>> => runs'[<<x, u>>] <= 1
      BY <1>1, <2>1, <3>1, <3>2 DEF Answer, OneMore
    <3>4. \A x \in Calls, u \in Transports :
            /\ <<x, u>> # <<c, t>> => net'[<<x, u>>] = net[<<x, u>>]
            /\ <<x, u>> = <<c, t>> => net'[<<x, u>>] \notin {"none", "sent"}
      <4>1. ASSUME NEW x \in Calls, NEW u \in Transports, <<x, u>> # <<c, t>>
            PROVE  net'[<<x, u>>] = net[<<x, u>>]
        <5>1. x # c \/ u # t
          BY Zenon, <4>1
        <5> QED BY <1>1, <5>1, AnsweredNet
      <4>2. net'[<<c, t>>] \notin {"none", "sent"}
        BY Zenon, <1>1, AnsweredNet
      <4> QED BY Zenon, <4>1, <4>2
    <3>5. /\ taken' = taken \/ taken' = OneMore(taken, c, t)
          /\ net'[<<c, t>>] = "held" => taken' = taken
      BY ZenonT(30), <1>1 DEF Answer, Respond, Results, TypeOK
    <3>6. \A x \in Calls, u \in Transports :
            /\ <<x, u>> # <<c, t>> => taken'[<<x, u>>] = taken[<<x, u>>]
            /\ <<x, u>> = <<c, t>> => /\ taken'[<<x, u>>] <= 1
                                      /\ net'[<<x, u>>] = "held" => taken'[<<x, u>>] = 0
      BY <2>1, <3>1, <3>5 DEF OneMore
    <3> QED BY Zenon, <3>3, <3>4, <3>6
  <2> SUFFICES ASSUME NEW x \in Calls, NEW u \in Transports
               PROVE  /\ net'[<<x, u>>] \in {"none", "sent"} => runs'[<<x, u>>] = 0
                      /\ net'[<<x, u>>] \in {"none", "sent", "held"} => taken'[<<x, u>>] = 0
                      /\ runs'[<<x, u>>] <= 1
                      /\ taken'[<<x, u>>] <= 1
    BY Zenon DEF Counted
  <2>3. CASE <<x, u>> = <<c, t>>
    BY Zenon, <2>2, <2>3
  <2>4. CASE <<x, u>> # <<c, t>>
    BY ZenonT(30), <2>2, <2>4 DEF Counted
  <2> QED BY Zenon, <2>3, <2>4
<1>2. ASSUME NEW c \in Calls, NEW t \in Transports, net[<<c, t>>] = "none",
             net' = [net EXCEPT ![<<c, t>>] = "sent"], UNCHANGED <<runs, taken>>
      PROVE  Counted'
  <2>1. \A x \in Calls, u \in Transports :
          \/ net'[<<x, u>>] = net[<<x, u>>]
          \/ net'[<<x, u>>] = "sent" /\ net[<<x, u>>] = "none"
    BY Zenon, <1>2 DEF TypeOK
  <2> QED BY Zenon, <1>2, <2>1 DEF Counted
<1>3. CASE UNCHANGED <<net, runs, taken>>
  BY Zenon, <1>3 DEF Counted
<1>4. ASSUME NEW c \in Calls, NEW f \in BOOLEAN, SendIpcMessage(c, f),
             \/ stage[c] = "frame"
             \/ stage[c] = "fetch" /\ f,
             UNCHANGED <<runs, taken>>
      PROVE  Counted'
  <2>1. PICK t \in Transports : /\ net' = [net EXCEPT ![<<c, t>>] = "sent"]
                                /\ f => t = "post"
    BY Zenon, <1>4, Sending
  <2>2. net[<<c, t>>] = "none"
    BY Zenon, <1>4, <2>1 DEF Placed
  <2> QED BY Zenon, <1>2, <1>4, <2>1, <2>2
<1>5. ASSUME NEW c \in Calls, NewCall(c), promise[c] = "none", UNCHANGED <<runs, taken>>
      PROVE  Counted'
  BY Zenon, <1>2, <1>3, <1>5, Calling DEF Placed
<1> USE DEF rust
<1>6. ASSUME NEW c \in Calls, Page(c) PROVE Counted'
  BY Zenon, <1>3, <1>4, <1>5, <1>6
     DEF Page, InvokeCommand, IsolationMessage, IsolationIgnores, HttpResponse, FetchFailed,
         TypeOK
<1>7. ASSUME NEW s \in Script, RunScript(s) PROVE Counted'
  <2>1. CASE s.does \in Ends /\ UNCHANGED net
    BY Zenon, <1>3, <1>7, <2>1 DEF RunScript
  <2>2. CASE s.does = "fetch" /\ NewCall(Fetch(s.call.cmd))
    <3>1. s \in scripts /\ s = [call |-> s.call, does |-> s.does] /\ s.call \in Calls
      BY Zenon, <1>7 DEF RunScript, Script
    <3>2. s.call.cmd \in Commands /\ s.call = Call(s.call.cmd)
      BY Zenon, <2>2, <3>1, CallForms DEF Placed
    <3>3. promise[Fetch(s.call.cmd)] = "none"
      BY <2>2, <3>1, <3>2, CallForms DEF Placed
    <3> QED BY Zenon, <1>5, <1>7, <2>2, <3>2, <3>3, CallForms DEF RunScript
  <2> QED BY Zenon, <1>7, <2>1, <2>2 DEF RunScript
<1>8. CASE Reload \/ DestroyPage
  BY Zenon, <1>3, <1>8 DEF Reload, DestroyPage
<1>9. CASE IsolationReady \/ AttachWebview \/ CloseWebview \/ UNCHANGED vars
  BY Zenon, <1>3, <1>9 DEF IsolationReady, AttachWebview, CloseWebview, vars
<1>10. ASSUME NEW c \in Calls, ReceiveFetch(c) \/ RequestLost(c) \/ ReceivePost(c)
       PROVE  Counted'
  BY Zenon, <1>1, <1>10, RustSteps DEF Transports
<1>11. ASSUME NEW c \in Calls, NEW t \in Transports, Finish(c, t) PROVE Counted'
  BY Zenon, <1>1, <1>11, RustSteps
<1> QED BY Zenon, <1>6, <1>7, <1>8, <1>9, <1>10, <1>11 DEF Next

\* A script that fetches a body is the script of a command's call, which has no
\* nested call yet.
LEMMA FetchScript ==
  ASSUME TypeOK, Placed, NEW s \in Script, s \in scripts, s.does = "fetch"
  PROVE  /\ s.call.cmd \in Commands
         /\ s = [call |-> Call(s.call.cmd), does |-> "fetch"]
         /\ stage[Fetch(s.call.cmd)] = "none"
         /\ promise[Fetch(s.call.cmd)] = "none"
<1>1. s = [call |-> s.call, does |-> "fetch"] /\ s.call \in Calls
  BY Zenon DEF Script
<1>2. s.call.cmd \in Commands /\ s.call = Call(s.call.cmd)
  BY Zenon, <1>1, CallForms DEF Placed
<1> QED BY <1>1, <1>2, CallForms DEF Placed

\* The places of a call and of its messages agree after every step.
LEMMA NextPlaced == TypeOK /\ CallbacksPaired /\ Placed /\ [Next]_vars => Placed'
<1> SUFFICES ASSUME TypeOK, CallbacksPaired, Placed, [Next]_vars PROVE Placed'
  BY Zenon
<1>1. ASSUME NEW c \in Calls, NEW t \in Transports, Answer(c, t) PROVE Placed'
  <2>1. UNCHANGED <<stage, promise, fellBack>>
    BY Zenon, <1>1 DEF Answer, js
  <2>2. ASSUME NEW x \in Calls, NEW u \in Transports
        PROVE  /\ net'[<<x, u>>] = "none" <=> net[<<x, u>>] = "none"
               /\ net[<<x, u>>] = "evaluated" => net'[<<x, u>>] = "evaluated"
    BY ZenonT(30), <1>1, AnsweredNet
  <2>3. ASSUME NEW x \in Commands, [call |-> Call(x), does |-> "fetch"] \in scripts'
        PROVE  net'[<<Call(x), "post">>] = "evaluated" /\ stage[Fetch(x)] = "none"
    <3>1. CASE [call |-> Call(x), does |-> "fetch"] \in scripts
      BY Zenon, <2>2, <3>1, CallForms DEF Placed, Transports
    <3>2. CASE Call(x) = c /\ t = "post" /\ net'[<<c, t>>] = "evaluated"
      <4>1. net[<<Call(x), "post">>] # "evaluated"
        BY Zenon, <1>1, <3>2, AnsweredNet
      <4>2. stage[Fetch(x)] = "none"
        BY Zenon, <4>1 DEF Placed
      <4> QED BY Zenon, <3>2, <4>2
    <3> QED BY <1>1, <2>3, <3>1, <3>2, AnsweredScripts
  <2>4. \A s \in scripts' : s.does = "fetch" => ~s.call.data
    BY Zenon, <1>1, AnsweredScripts DEF Placed
  <2>5. /\ \A x \in Calls, u \in Transports :
             stage'[x] \in {"none", "queued", "frame"} => net'[<<x, u>>] = "none"
        /\ \A x \in Calls : stage'[x] = "fetch" => net'[<<x, "post">>] = "none"
    BY Zenon, <2>1, <2>2 DEF Placed, Transports
  <2>6. \A x \in Calls : net'[<<x, "fetch">>] # "none" /\ net'[<<x, "post">>] # "none"
                           => x \in fellBack'
    BY Zenon, <2>1, <2>2 DEF Placed, Transports
  <2>7. \A x \in Commands :
          stage'[Fetch(x)] # "none" => net'[<<Call(x), "post">>] = "evaluated"
    BY Zenon, <2>1, <2>2, CallForms DEF Placed, Transports
  <2> QED BY Zenon, <2>1, <2>3, <2>4, <2>5, <2>6, <2>7 DEF Placed
<1>2. ASSUME NEW c \in Calls, NewCall(c), promise[c] = "none", scripts' \subseteq scripts,
             UNCHANGED fellBack,
             \A x \in Commands : c = Fetch(x) =>
               /\ net[<<Call(x), "post">>] = "evaluated"
               /\ [call |-> Call(x), does |-> "fetch"] \notin scripts'
      PROVE  Placed'
  <2>1. /\ \A u \in Transports : net[<<c, u>>] = "none"
        /\ stage[c] = "none"
    BY Zenon, <1>2 DEF Placed
  <2>2. \A x \in Calls : x # c => /\ promise'[x] = promise[x] /\ stage'[x] = stage[x]
                                  /\ \A u \in Transports : net'[<<x, u>>] = net[<<x, u>>]
    BY Zenon, <1>2, CallingOthers
  <2>3. /\ promise'[c] # "none" /\ stage'[c] # "none"
        /\ stage'[c] \in {"queued", "frame"} => \A u \in Transports : net'[<<c, u>>] = "none"
        /\ net'[<<c, "fetch">>] = "none" \/ net'[<<c, "post">>] = "none"
        /\ stage'[c] = "fetch" => net'[<<c, "post">>] = "none"
    BY <1>2, <2>1, Calling DEF TypeOK, Transports
  <2>4. ASSUME NEW x \in Commands,
               \/ [call |-> Call(x), does |-> "fetch"] \in scripts'
               \/ stage'[Fetch(x)] # "none"
        PROVE  net'[<<Call(x), "post">>] = "evaluated"
    <3>1. net[<<Call(x), "post">>] = "evaluated"
      BY <1>2, <2>2, <2>4, CallForms DEF Placed
    <3> QED BY Zenon, <2>1, <2>2, <3>1, CallForms DEF Transports
  <2>5. ASSUME NEW x \in Commands, [call |-> Call(x), does |-> "fetch"] \in scripts'
        PROVE  stage'[Fetch(x)] = "none"
    <3>1. c # Fetch(x) /\ Fetch(x) \in Calls
      BY Zenon, <1>2, <2>5, CallForms
    <3>2. stage[Fetch(x)] = "none"
      BY Zenon, <1>2, <2>5 DEF Placed
    <3> QED BY Zenon, <2>2, <3>1, <3>2
  <2>6. \A s \in scripts' : s.does = "fetch" => ~s.call.data
    BY Zenon, <1>2 DEF Placed
  <2>7. /\ \A x \in Calls, u \in Transports :
             stage'[x] \in {"none", "queued", "frame"} => net'[<<x, u>>] = "none"
        /\ \A x \in Calls : stage'[x] = "fetch" => net'[<<x, "post">>] = "none"
        /\ \A x \in Calls : promise'[x] = "none" <=> stage'[x] = "none"
        /\ \A x \in Calls : net'[<<x, "fetch">>] # "none" /\ net'[<<x, "post">>] # "none"
                              => x \in fellBack'
    <3>1. ASSUME NEW x \in Calls, NEW u \in Transports,
                 stage'[x] \in {"none", "queued", "frame"}
          PROVE  net'[<<x, u>>] = "none"
      <4>1. CASE x = c
        BY Zenon, <2>3, <3>1, <4>1
      <4>2. CASE x # c
        BY <2>2, <3>1, <4>2 DEF Placed
      <4> QED BY Zenon, <4>1, <4>2
    <3>2. \A x \in Calls : stage'[x] = "fetch" => net'[<<x, "post">>] = "none"
      BY ZenonT(30), <2>2, <2>3 DEF Placed, Transports
    <3>3. \A x \in Calls : promise'[x] = "none" <=> stage'[x] = "none"
      BY <2>2, <2>3 DEF Placed
    <3>4. \A x \in Calls : net'[<<x, "fetch">>] # "none" /\ net'[<<x, "post">>] # "none"
                              => x \in fellBack'
      BY ZenonT(60), <1>2, <2>2, <2>3 DEF Placed, Transports
    <3> QED BY Zenon, <3>1, <3>2, <3>3, <3>4
  <2> QED BY Zenon, <2>4, <2>5, <2>6, <2>7 DEF Placed
<1>3. ASSUME NEW c \in Calls, NEW t \in Transports,
             stage' = [stage EXCEPT ![c] = t], net' = [net EXCEPT ![<<c, t>>] = "sent"],
             \/ stage[c] = "frame" /\ fellBack' = fellBack
             \/ stage[c] = "fetch" /\ t = "post" /\ fellBack' = fellBack \cup {c},
             UNCHANGED <<promise, scripts>>
      PROVE  Placed'
  <2>1. net[<<c, t>>] = "none" /\ promise[c] # "none"
    BY Zenon, <1>3 DEF Placed
  <2>2. \A x \in Calls : /\ x # c => stage'[x] = stage[x]
                         /\ stage'[x] = "none" <=> stage[x] = "none"
    BY Zenon, <1>3 DEF TypeOK, Transports
  <2>3. \A x \in Calls, u \in Transports :
          \/ x = c /\ u = t /\ net'[<<x, u>>] = "sent"
          \/ net'[<<x, u>>] = net[<<x, u>>]
    BY Zenon, <1>3 DEF TypeOK
  <2>4. stage'[c] = t /\ t \in {"fetch", "post"}
    BY Zenon, <1>3 DEF TypeOK, Transports
  <2>5. \A x \in Calls, u \in Transports :
          stage'[x] \in {"none", "queued", "frame"} => net'[<<x, u>>] = "none"
    BY <2>2, <2>3, <2>4 DEF Placed
  <2>6. \A x \in Calls : stage'[x] = "fetch" => net'[<<x, "post">>] = "none"
    BY <1>3, <2>2, <2>3, <2>4 DEF Placed, Transports
  <2>7. \A x \in Calls : net'[<<x, "fetch">>] # "none" /\ net'[<<x, "post">>] # "none"
                           => x \in fellBack'
    BY <1>3, <2>3, <2>4 DEF Placed, Transports
  <2>8. \A x \in Calls :
          net[<<x, "post">>] = "evaluated" => net'[<<x, "post">>] = "evaluated"
    BY Zenon, <2>1, <2>3 DEF Transports
  <2> QED BY <1>3, <2>2, <2>5, <2>6, <2>7, <2>8, CallForms DEF Placed
<1> DEFINE Known == \A x \in Calls : promise'[x] = "none" <=> promise[x] = "none"
           Moved == \A x \in Calls :
             /\ stage'[x] = "none" <=> stage[x] = "none"
             /\ \/ stage'[x] \in {stage[x], "ignored", "answered", "gone"}
                \/ stage[x] = "queued" /\ stage'[x] = "frame"
<1>4. ASSUME scripts' \subseteq scripts, UNCHANGED <<net, fellBack>>, Known, Moved
      PROVE  Placed'
  BY <1>4, CallForms DEF Placed
<1>5. ASSUME NEW c \in Calls, NEW e \in Ends, Settle(c, e)
      PROVE  Known
  BY Zenon, <1>5, Settling
<1> USE DEF rust
<1>6. ASSUME NEW c \in Calls, NEW k \in Kinds, InvokeCommand(c, k) PROVE Placed'
  BY Zenon, <1>2, <1>6, CallForms DEF InvokeCommand
<1>7. ASSUME NEW c \in Calls, IsolationMessage(c) PROVE Placed'
  <2>1. customProtocolIpcFailed \in BOOLEAN
    BY Zenon DEF TypeOK
  <2>2. PICK t \in Transports : /\ stage' = [stage EXCEPT ![c] = t]
                                /\ net' = [net EXCEPT ![<<c, t>>] = "sent"]
    BY Zenon, <1>7, <2>1, Sending DEF IsolationMessage
  <2> QED BY Zenon, <1>3, <1>7, <2>2 DEF IsolationMessage
<1>16. ASSUME NEW c \in Calls, IsolationIgnores(c) PROVE Placed'
  <2>1. Moved
    BY Zenon, <1>16 DEF IsolationIgnores, TypeOK
  <2>2. Known
    BY Zenon, <1>16 DEF IsolationIgnores
  <2> HIDE DEF Known, Moved
  <2> QED BY Zenon, <1>4, <1>16, <2>1, <2>2 DEF IsolationIgnores
<1>8. ASSUME NEW c \in Calls, HttpResponse(c) PROVE Placed'
  <2>1. ResponseEnd(net[<<c, "fetch">>]) \in Ends
    BY Zenon DEF ResponseEnd, Ends
  <2>2. Known
    BY Zenon, <1>5, <1>8, <2>1 DEF HttpResponse
  <2>3. Moved
    BY Zenon, <1>8 DEF HttpResponse, TypeOK
  <2> HIDE DEF Known, Moved
  <2> QED BY Zenon, <1>4, <1>8, <2>2, <2>3 DEF HttpResponse
<1>9. ASSUME NEW c \in Calls, FetchFailed(c) PROVE Placed'
  <2>1. PICK t \in Transports : /\ stage' = [stage EXCEPT ![c] = t]
                                /\ net' = [net EXCEPT ![<<c, t>>] = "sent"]
                                /\ t = "post"
    BY Zenon, <1>9, Sending DEF FetchFailed
  <2> QED BY Zenon, <1>3, <1>9, <2>1 DEF FetchFailed
<1>10. ASSUME NEW s \in Script, RunScript(s) PROVE Placed'
  <2>1. s \in scripts /\ s.call \in Calls /\ scripts' = scripts \ {s} /\ UNCHANGED fellBack
    BY Zenon, <1>10 DEF RunScript, Script
  <2>2. CASE s.does \in Ends /\ Settle(s.call, s.does) /\ UNCHANGED <<stage, net>>
    <3>1. Known
      BY Zenon, <1>5, <2>1, <2>2
    <3>2. Moved
      BY Zenon, <2>2
    <3> HIDE DEF Known, Moved
    <3> QED BY Zenon, <1>4, <2>1, <2>2, <3>1, <3>2
  <2>3. CASE s.does = "fetch" /\ NewCall(Fetch(s.call.cmd))
    <3>1. ASSUME NEW x \in Commands, Fetch(s.call.cmd) = Fetch(x)
          PROVE  /\ net[<<Call(x), "post">>] = "evaluated"
                 /\ [call |-> Call(x), does |-> "fetch"] \notin scripts'
      <4>1. x = s.call.cmd
        BY <2>3, <3>1, FetchScript, <2>1, CallForms
      <4> QED BY Zenon, <2>1, <2>3, <4>1, FetchScript DEF Placed
    <3>2. Fetch(s.call.cmd) \in Calls /\ promise[Fetch(s.call.cmd)] = "none"
      BY Zenon, <2>1, <2>3, FetchScript, CallForms
    <3>3. scripts' \subseteq scripts
      BY Zenon, <2>1
    <3> QED BY Zenon, <1>2, <2>1, <2>3, <3>1, <3>2, <3>3
  <2> QED BY Zenon, <1>10, <2>2, <2>3 DEF RunScript
<1>11. CASE Reload \/ DestroyPage
  <2>1. PICK n : Unload(n)
    BY Zenon, <1>11 DEF Reload, DestroyPage
  <2>2. Known
    BY Zenon, <2>1 DEF Unload, TypeOK
  <2>3. Moved
    BY Zenon, <2>1 DEF Unload, TypeOK
  <2> HIDE DEF Known, Moved
  <2> QED BY Zenon, <1>4, <1>11, <2>2, <2>3 DEF Reload, DestroyPage
<1>12. CASE IsolationReady
  <2>1. Moved
    BY Zenon, <1>12 DEF IsolationReady, TypeOK
  <2>2. Known
    BY Zenon, <1>12 DEF IsolationReady
  <2> HIDE DEF Known, Moved
  <2> QED BY Zenon, <1>4, <1>12, <2>1, <2>2 DEF IsolationReady
<1>13. CASE AttachWebview \/ CloseWebview \/ UNCHANGED vars
  <2>1. Moved /\ Known
    BY Zenon, <1>13 DEF AttachWebview, CloseWebview, vars, js
  <2> HIDE DEF Known, Moved
  <2> QED BY Zenon, <1>4, <1>13, <2>1 DEF AttachWebview, CloseWebview, vars, js
<1>14. ASSUME NEW c \in Calls, ReceiveFetch(c) \/ RequestLost(c) \/ ReceivePost(c)
       PROVE  Placed'
  BY Zenon, <1>1, <1>14, RustSteps DEF Transports
<1>15. ASSUME NEW c \in Calls, NEW t \in Transports, Finish(c, t) PROVE Placed'
  BY Zenon, <1>1, <1>15, RustSteps
<1> QED BY Zenon, <1>6, <1>7, <1>8, <1>9, <1>10, <1>11, <1>12, <1>13, <1>14, <1>15,
           <1>16 DEF Next, Page

\* A promise is resolved by the answer to a success, or by the body fetched for one.
LEMMA NextEarned ==
  TypeOK /\ CallbacksPaired /\ Placed /\ Stored /\ Earned /\ [Next]_vars => Earned'
<1> SUFFICES ASSUME TypeOK, CallbacksPaired, Placed, Stored, Earned, [Next]_vars
             PROVE  Earned'
  BY Zenon
<1>1. ASSUME NEW c \in Calls, NEW t \in Transports, Answer(c, t) PROVE Earned'
  <2>1. UNCHANGED <<stage, promise>>
    BY Zenon, <1>1 DEF Answer, js
  <2>2. CASE /\ \E r \in {"held", "failure", "dropped"} : net' = [net EXCEPT ![<<c, t>>] = r]
             /\ UNCHANGED <<scripts, succeeded, garbled>>
    <3>1. \A x \in Calls : net'[<<x, "fetch">>] = "ok" => net[<<x, "fetch">>] = "ok"
      BY Zenon, <2>2 DEF TypeOK, Transports
    <3> QED BY Zenon, <2>1, <2>2, <3>1 DEF Earned, ResolvedBySuccess
  <2>3. ASSUME NEW res \in Results, NEW large \in BOOLEAN, Respond(c, t, res, large),
               c.data /\ net[<<c, t>>] = "sent" => res = FetchResult(c.cmd)
        PROVE  Earned'
    <3>1. /\ succeeded \subseteq succeeded' /\ (res = "ok" => c \in succeeded')
          /\ garbled \subseteq garbled'
      BY Zenon, <2>3 DEF Respond
    <3>2. \A x \in Calls : net'[<<x, "fetch">>] = "ok" => x \in succeeded'
      BY Zenon, <2>3, <3>1 DEF Respond, TypeOK, Transports, Earned
    <3>3. \A s \in scripts' :
            /\ s.does = "callback" => s.call \in succeeded'
            /\ s.does = "fetch" => s.call \in succeeded' \/ s.call.cmd \in garbled'
      BY <2>3, <3>1 DEF Respond, Earned, Results
    <3>4. ASSUME NEW x \in Commands, Fetch(x) \in succeeded' PROVE Call(x) \in succeeded'
      <4>1. CASE Fetch(x) \in succeeded
        BY Zenon, <3>1, <4>1 DEF Earned
      <4>2. CASE Fetch(x) \notin succeeded
        <5>1. c = Fetch(x) /\ res = "ok"
          BY Zenon, <2>3, <3>4, <4>2 DEF Respond
        <5>2. c.data /\ c.cmd = x
          BY Zenon, <5>1, CallForms
        <5>3. net[<<c, t>>] = "sent" /\ stage[Fetch(x)] # "none"
          BY Zenon, <1>1, <5>1 DEF Answer, Stored, Placed
        <5>4. x \notin garbled
          BY Zenon, <2>3, <5>1, <5>2, <5>3 DEF FetchResult
        <5> QED BY Zenon, <3>1, <5>3, <5>4 DEF Earned
      <4> QED BY Zenon, <4>1, <4>2
    <3> QED BY Zenon, <2>1, <3>1, <3>2, <3>3, <3>4 DEF Earned, ResolvedBySuccess
  <2> QED BY Zenon, <1>1, <2>2, <2>3 DEF Answer
<1> DEFINE Kept ==
      /\ scripts' \subseteq scripts /\ UNCHANGED <<succeeded, garbled>>
      /\ \A x \in Calls : net'[<<x, "fetch">>] = "ok" => net[<<x, "fetch">>] = "ok"
<1>2. ASSUME Kept,
             \A x \in Calls : promise'[x] = "resolved" =>
               promise[x] = "resolved" \/ x \in succeeded,
             \A x \in Commands : stage'[Fetch(x)] # "none" =>
               stage[Fetch(x)] # "none" \/ Call(x) \in succeeded \/ x \in garbled
      PROVE  Earned'
  BY Zenon, <1>2 DEF Earned, ResolvedBySuccess
<1>3. ASSUME NEW c \in Calls, NewCall(c), Kept,
             \A x \in Commands : c = Fetch(x) => Call(x) \in succeeded \/ x \in garbled
      PROVE  Earned'
  <2>1. \A x \in Calls : promise'[x] = "resolved" => promise[x] = "resolved"
    BY Zenon, <1>3 DEF NewCall, TypeOK
  <2>2. \A x \in Calls : x # c => stage'[x] = stage[x]
    BY Zenon, <1>3, CallingOthers
  <2>3. \A x \in Commands : stage'[Fetch(x)] # "none" =>
          stage[Fetch(x)] # "none" \/ Call(x) \in succeeded \/ x \in garbled
    BY Zenon, <1>3, <2>2, CallForms
  <2> QED BY Zenon, <1>2, <1>3, <2>1, <2>3
<1>4. ASSUME NEW c \in Calls, NEW e \in Ends, Settle(c, e), Kept,
             e = "callback" => c \in succeeded,
             \A x \in Calls : stage'[x] # "none" => stage[x] # "none"
      PROVE  Earned'
  <2>1. ASSUME NEW x \in Calls, promise'[x] = "resolved", promise[x] # "resolved"
        PROVE  x \in succeeded
    <3>1. /\ promise[c] = "pending" /\ e = "callback"
          /\ x = c \/ (c.data /\ x = Call(c.cmd))
      BY ZenonT(30), <1>4, <2>1, Settling DEF Ends
    <3>2. CASE x = c
      BY Zenon, <1>4, <3>1, <3>2
    <3>3. CASE c.data /\ x = Call(c.cmd)
      <4>1. c = Fetch(c.cmd) /\ c.cmd \in Commands
        BY Zenon, <3>3, CallForms
      <4> QED BY Zenon, <1>4, <3>1, <3>3, <4>1 DEF Earned
    <3> QED BY Zenon, <3>1, <3>2, <3>3
  <2>2. \A x \in Commands : stage'[Fetch(x)] # "none" => stage[Fetch(x)] # "none"
    BY Zenon, <1>4, CallForms
  <2> QED BY Zenon, <1>2, <1>4, <2>1, <2>2
<1>5. ASSUME NEW c \in Calls, SendIpcMessage(c, customProtocolIpcFailed) \/ SendIpcMessage(c, TRUE),
             stage[c] # "none", UNCHANGED <<promise, scripts, succeeded, garbled>>
      PROVE  Earned'
  <2>1. PICK t \in Transports : /\ stage' = [stage EXCEPT ![c] = t]
                                /\ net' = [net EXCEPT ![<<c, t>>] = "sent"]
    <3>1. customProtocolIpcFailed \in BOOLEAN
      BY Zenon DEF TypeOK
    <3> QED BY Zenon, <1>5, <3>1, Sending
  <2>2. Kept
    BY Zenon, <1>5, <2>1 DEF TypeOK, Transports
  <2>3. \A x \in Calls : stage'[x] # "none" => stage[x] # "none"
    BY Zenon, <1>5, <2>1 DEF TypeOK
  <2> HIDE DEF Kept
  <2> QED BY Zenon, <1>2, <1>5, <2>2, <2>3, CallForms
<1> USE DEF rust
<1>6. ASSUME NEW c \in Calls, NEW k \in Kinds, InvokeCommand(c, k) PROVE Earned'
  <2>1. Kept
    BY Zenon, <1>6, Calling DEF InvokeCommand, TypeOK, Transports
  <2> HIDE DEF Kept
  <2> QED BY Zenon, <1>3, <1>6, <2>1, CallForms DEF InvokeCommand
<1>7. ASSUME NEW c \in Calls, IsolationMessage(c) \/ IsolationIgnores(c) PROVE Earned'
  <2>1. CASE IsolationMessage(c)
    BY Zenon, <1>5, <2>1 DEF IsolationMessage
  <2>2. CASE IsolationIgnores(c)
    <3>1. Kept /\ UNCHANGED promise
      BY Zenon, <2>2 DEF IsolationIgnores
    <3>2. \A x \in Calls : stage'[x] # "none" => stage[x] # "none"
      BY Zenon, <2>2 DEF IsolationIgnores, TypeOK
    <3> HIDE DEF Kept
    <3> QED BY Zenon, <1>2, <3>1, <3>2, CallForms
  <2> QED BY Zenon, <1>7, <2>1, <2>2
<1>8. ASSUME NEW c \in Calls, HttpResponse(c) PROVE Earned'
  <2>1. /\ ResponseEnd(net[<<c, "fetch">>]) \in Ends
        /\ ResponseEnd(net[<<c, "fetch">>]) = "callback" => c \in succeeded
    BY Zenon DEF ResponseEnd, Ends, Earned
  <2>2. \A x \in Calls : stage'[x] # "none" => stage[x] # "none"
    BY Zenon, <1>8 DEF HttpResponse, TypeOK
  <2>3. Kept
    BY Zenon, <1>8 DEF HttpResponse
  <2> HIDE DEF Kept
  <2> QED BY Zenon, <1>4, <1>8, <2>1, <2>2, <2>3 DEF HttpResponse
<1>9. ASSUME NEW c \in Calls, FetchFailed(c) PROVE Earned'
  BY Zenon, <1>5, <1>9 DEF FetchFailed
<1>10. ASSUME NEW s \in Script, RunScript(s) PROVE Earned'
  <2>1. s \in scripts /\ s.call \in Calls
    BY Zenon, <1>10 DEF RunScript, Script
  <2>2. CASE s.does \in Ends /\ Settle(s.call, s.does) /\ UNCHANGED <<stage, net>>
    <3>1. Kept
      BY Zenon, <1>10, <2>2 DEF RunScript
    <3>2. s.does = "callback" => s.call \in succeeded
      BY Zenon, <2>1 DEF Earned
    <3> HIDE DEF Kept
    <3> QED BY Zenon, <1>4, <2>1, <2>2, <3>1, <3>2
  <2>3. CASE s.does = "fetch" /\ NewCall(Fetch(s.call.cmd))
    <3>1. Fetch(s.call.cmd) \in Calls /\ s.call.cmd \in Commands /\ s.call = Call(s.call.cmd)
      BY <2>1, <2>3, FetchScript, CallForms
    <3>2. Kept
      BY ZenonT(30), <1>10, <2>3, <3>1, Calling DEF RunScript, TypeOK, Transports
    <3>3. \A x \in Commands :
            Fetch(s.call.cmd) = Fetch(x) => Call(x) \in succeeded \/ x \in garbled
      BY <2>1, <2>3, <3>1, CallForms DEF Earned
    <3> HIDE DEF Kept
    <3> QED BY Zenon, <1>3, <2>3, <3>1, <3>2, <3>3
  <2> QED BY Zenon, <1>10, <2>2, <2>3 DEF RunScript
<1>11. CASE Reload \/ DestroyPage
  <2>1. \A x \in Calls : /\ promise'[x] = "resolved" => promise[x] = "resolved"
                         /\ stage'[x] # "none" => stage[x] # "none"
    BY Zenon, <1>11 DEF Reload, DestroyPage, Unload, TypeOK
  <2>2. Kept
    BY Zenon, <1>11 DEF Reload, DestroyPage
  <2> HIDE DEF Kept
  <2> QED BY Zenon, <1>2, <2>1, <2>2, CallForms
<1>12. CASE IsolationReady \/ AttachWebview \/ CloseWebview \/ UNCHANGED vars
  <2>1. \A x \in Calls : stage'[x] # "none" => stage[x] # "none"
    BY Zenon, <1>12 DEF IsolationReady, AttachWebview, CloseWebview, vars, js, TypeOK
  <2>2. Kept /\ UNCHANGED promise
    BY Zenon, <1>12 DEF IsolationReady, AttachWebview, CloseWebview, vars, js
  <2> HIDE DEF Kept
  <2> QED BY Zenon, <1>2, <2>1, <2>2, CallForms
<1>13. ASSUME NEW c \in Calls, ReceiveFetch(c) \/ RequestLost(c) \/ ReceivePost(c)
       PROVE  Earned'
  BY Zenon, <1>1, <1>13, RustSteps DEF Transports
<1>14. ASSUME NEW c \in Calls, NEW t \in Transports, Finish(c, t) PROVE Earned'
  BY Zenon, <1>1, <1>14, RustSteps
<1> QED BY Zenon, <1>6, <1>7, <1>8, <1>9, <1>10, <1>11, <1>12, <1>13, <1>14 DEF Next, Page

\* A body stays in the queue until the call that fetches it has it: the only way not
\* to find it is to ask a second time, or when the webview is closed, and the only
\* way not to understand it is that it is no JSON.
LEMMA NextStored ==
  TypeOK /\ CallbacksPaired /\ Placed /\ Stored /\ [Next]_vars => Stored'
<1> SUFFICES ASSUME TypeOK, CallbacksPaired, Placed, Stored, [Next]_vars PROVE Stored'
  BY Zenon
<1>1. ASSUME NEW c \in Calls, NEW t \in Transports, Answer(c, t) PROVE Stored'
  <2>1. UNCHANGED <<stage, promise, fellBack, kind, webview>>
    BY Zenon, <1>1 DEF Answer, js
  <2>0. garbled \subseteq garbled'
    BY Zenon, <1>1 DEF Answer, Respond
  <2>2. \A x \in Commands, u \in Transports : net[<<Fetch(x), u>>] # "held"
    BY Zenon DEF Stored
  <2>3. ASSUME NEW x \in Commands, c = Fetch(x)
        PROVE  /\ net[<<c, t>>] = "sent" /\ stage[c] # "none"
               /\ webview # "created"
    <3>1. net[<<c, t>>] = "sent"
      BY Zenon, <1>1, <2>2, <2>3 DEF Answer
    <3>2. stage[c] # "none"
      BY Zenon, <3>1 DEF Placed
    <3>3. net[<<Call(x), "post">>] = "evaluated"
      BY Zenon, <2>3, <3>2 DEF Placed
    <3>4. webview # "created"
      BY Zenon, <3>3, CallForms DEF Stored, Transports
    <3> QED BY Zenon, <3>1, <3>2, <3>4
  <2>4. ASSUME NEW x \in Commands, c = Fetch(x), x \notin data_queue
        PROVE  c \in fellBack
    <3>1. PICK u \in Transports : net[<<c, u>>] \notin Unanswering
      BY Zenon, <2>3, <2>4 DEF Stored
    <3>2. net[<<c, "fetch">>] # "none" /\ net[<<c, "post">>] # "none"
      BY Zenon, <2>3, <2>4, <3>1 DEF Transports, Unanswering
    <3> QED BY Zenon, <3>2 DEF Placed
  <2>5. ASSUME NEW x \in Calls, NEW u \in Transports,
               net'[<<x, u>>] \in {"held", "evaluated"}
        PROVE  webview' # "created"
    <3>1. CASE net[<<x, u>>] \in {"held", "evaluated"}
      BY Zenon, <2>1, <3>1 DEF Stored
    <3>2. CASE net[<<x, u>>] \notin {"held", "evaluated"}
      <4>1. x = c /\ u = t
        BY <1>1, <2>5, <3>2, AnsweredNet
      <4>2. webview = "attached"
        BY Zenon, <1>1, <2>5, <3>2, <4>1 DEF Answer, TypeOK
      <4> QED BY Zenon, <2>1, <4>2
    <3> QED BY Zenon, <3>1, <3>2
  <2>6. ASSUME NEW x \in Commands, NEW u \in Transports
        PROVE  net'[<<Fetch(x), u>>] # "held"
    <3>1. CASE c = Fetch(x) /\ u = t
      <4>1. c.data
        BY Zenon, <3>1, CallForms
      <4>2. ASSUME NEW res \in Results, NEW large \in BOOLEAN, Respond(c, t, res, large)
            PROVE  net'[<<c, t>>] # "held"
        BY Zenon, <4>2 DEF Respond, TypeOK, Results
      <4>3. ASSUME NEW r \in {"held", "failure", "dropped"}, r # "held",
                   net' = [net EXCEPT ![<<c, t>>] = r]
            PROVE  net'[<<c, t>>] # "held"
        BY Zenon, <4>3 DEF TypeOK
      <4> QED BY Zenon, <1>1, <3>1, <4>1, <4>2, <4>3 DEF Answer
    <3>2. CASE c # Fetch(x) \/ u # t
      BY <1>1, <2>2, <3>2, AnsweredNet, CallForms
    <3> QED BY Zenon, <3>1, <3>2
  <2>7. ASSUME NEW x \in Commands, x \in data_queue, x \notin data_queue'
        PROVE  c = Fetch(x) /\ net'[<<c, t>>] \in {"ok", "garbled", "evaluated"}
    <3>1. PICK res \in Results, large \in BOOLEAN : Respond(c, t, res, large)
      BY Zenon, <1>1, <2>7 DEF Answer
    <3>2. c.data /\ res \in {"ok", "garbled"} /\ c.cmd = x
      BY Zenon, <2>7, <3>1 DEF Respond, Bodies, Results
    <3> QED BY Zenon, <3>1, <3>2, CallForms DEF Respond, TypeOK
  <2>8. ASSUME NEW x \in Commands, [call |-> Call(x), does |-> "fetch"] \in scripts'
        PROVE  x \in data_queue'
    <3>1. CASE [call |-> Call(x), does |-> "fetch"] \in scripts
      <4>1. x \in data_queue /\ stage[Fetch(x)] = "none"
        BY Zenon, <3>1 DEF Stored, Placed
      <4> QED BY Zenon, <2>3, <2>7, <4>1
    <3>2. CASE [call |-> Call(x), does |-> "fetch"] \notin scripts
      <4>1. PICK res \in Results, large \in BOOLEAN : Respond(c, t, res, large)
        BY Zenon, <1>1, <2>8, <3>2 DEF Answer
      <4>2. t = "post" /\ res # "error" /\ large /\ ~c.data /\ c \notin blocked /\ c = Call(x)
        BY Zenon, <2>8, <3>2, <4>1 DEF Respond
      <4>3. c.cmd = x
        BY Zenon, <4>2, CallForms
      <4> QED BY Zenon, <4>1, <4>2, <4>3 DEF Respond, Bodies
    <3> QED BY Zenon, <3>1, <3>2
  <2>9. ASSUME NEW x \in Commands, stage[Fetch(x)] # "none",
               \A u \in Transports : net'[<<Fetch(x), u>>] \in Unanswering
        PROVE  x \in data_queue'
    <3>1. ASSUME NEW u \in Transports PROVE net[<<Fetch(x), u>>] \in Unanswering
      BY <1>1, <2>2, <2>9, AnsweredNet, CallForms DEF Unanswering
    <3>2. x \in data_queue
      BY Zenon, <2>9, <3>1 DEF Stored
    <3> QED BY Zenon, <2>7, <2>9, <3>2 DEF Unanswering
  <2>10. ASSUME NEW x \in Commands, net'[<<Fetch(x), "fetch">>] = "error"
         PROVE  Fetch(x) \in fellBack
    <3>1. CASE net[<<Fetch(x), "fetch">>] = "error"
      BY Zenon, <3>1 DEF Stored
    <3>2. CASE net[<<Fetch(x), "fetch">>] # "error"
      <4>1. c = Fetch(x) /\ t = "fetch"
        <5>1. Fetch(x) \in Calls /\ "fetch" \in Transports
          BY Zenon, CallForms DEF Transports
        <5>2. ASSUME Fetch(x) # c \/ "fetch" # t PROVE FALSE
          <6>1. net'[<<Fetch(x), "fetch">>] = net[<<Fetch(x), "fetch">>]
            BY <1>1, <5>1, <5>2, AnsweredNet
          <6> QED BY Zenon, <2>10, <3>2, <6>1
        <5> QED BY Zenon, <5>2
      <4>2. PICK res \in Results, large \in BOOLEAN :
              /\ Respond(c, t, res, large)
              /\ c.data /\ net[<<c, t>>] = "sent" => res = FetchResult(c.cmd)
        BY Zenon, <1>1, <2>10, <4>1 DEF Answer, TypeOK
      <4>3. res = "error"
        BY Zenon, <2>10, <4>1, <4>2 DEF Respond, TypeOK
      <4>4. x \notin data_queue
        BY Zenon, <2>3, <4>1, <4>2, <4>3, CallForms DEF FetchResult
      <4> QED BY Zenon, <2>4, <4>1, <4>4
    <3> QED BY Zenon, <3>1, <3>2
  <2>11. ASSUME NEW x \in Commands, net'[<<Fetch(x), "fetch">>] = "failure"
         PROVE  webview = "closed"
    <3>1. CASE net[<<Fetch(x), "fetch">>] = "failure"
      BY Zenon, <3>1 DEF Stored
    <3>2. CASE net[<<Fetch(x), "fetch">>] # "failure"
      <4>1. c = Fetch(x) /\ t = "fetch"
        <5>1. Fetch(x) \in Calls /\ "fetch" \in Transports
          BY Zenon, CallForms DEF Transports
        <5>2. ASSUME Fetch(x) # c \/ "fetch" # t PROVE FALSE
          <6>1. net'[<<Fetch(x), "fetch">>] = net[<<Fetch(x), "fetch">>]
            BY <1>1, <5>1, <5>2, AnsweredNet
          <6> QED BY Zenon, <2>11, <3>2, <6>1
        <5> QED BY Zenon, <5>2
      <4>2. webview # "attached" \/ kind[c] = "malformed"
        BY Zenon, <1>1, <2>11, <4>1 DEF Answer, Respond, Results, TypeOK
      <4> QED BY Zenon, <2>3, <4>1, <4>2 DEF Stored, TypeOK
    <3> QED BY Zenon, <3>1, <3>2
  <2>12. ASSUME NEW x \in Commands, [call |-> Fetch(x), does |-> "error"] \in scripts'
         PROVE  Fetch(x) \in fellBack \/ x \in garbled
    <3>1. CASE [call |-> Fetch(x), does |-> "error"] \in scripts
      BY Zenon, <3>1 DEF Stored
    <3>2. CASE [call |-> Fetch(x), does |-> "error"] \notin scripts
      <4>1. PICK res \in Results, large \in BOOLEAN :
              /\ Respond(c, t, res, large)
              /\ c.data /\ net[<<c, t>>] = "sent" => res = FetchResult(c.cmd)
        BY Zenon, <1>1, <2>12, <3>2 DEF Answer
      <4>2. c = Fetch(x) /\ res # "ok"
        BY Zenon, <2>12, <3>2, <4>1 DEF Respond
      <4>3. x \notin data_queue \/ x \in garbled
        BY Zenon, <2>3, <4>1, <4>2, CallForms DEF FetchResult
      <4> QED BY Zenon, <2>4, <4>2, <4>3
    <3> QED BY Zenon, <3>1, <3>2
  <2>13. BodyFetched' /\ \A x \in Commands : kind'[Fetch(x)] = "plain"
    BY Zenon, <2>0, <2>1 DEF Stored, BodyFetched
  <2> QED BY Zenon, <2>0, <2>1, <2>5, <2>6, <2>8, <2>9, <2>10, <2>11, <2>12, <2>13 DEF Stored
<1> DEFINE Kept ==
      /\ scripts' \subseteq scripts /\ UNCHANGED <<data_queue, garbled>>
      /\ fellBack \subseteq fellBack'
      /\ webview # "created" => webview' # "created"
      /\ webview = "closed" => webview' = "closed"
           Sent == \A x \in Calls, u \in Transports :
      net'[<<x, u>>] # net[<<x, u>>] => net[<<x, u>>] = "none" /\ net'[<<x, u>>] = "sent"
           Plain == \A x \in Commands : kind'[Fetch(x)] = "plain"
           Started == \A x \in Commands :
      stage'[Fetch(x)] # "none" => stage[Fetch(x)] # "none" \/ x \in data_queue
           Rejected == \A x \in Commands :
      promise'[Fetch(x)] = "rejected" =>
        \/ promise[Fetch(x)] = "rejected"
        \/ Fetch(x) \in fellBack \/ webview = "closed" \/ x \in garbled
<1>2. ASSUME Kept, Sent, Plain, Started, Rejected PROVE Stored'
  <2>1. \A x \in Calls, u \in Transports :
          net'[<<x, u>>] \in {"held", "evaluated", "error", "failure"} =>
            net'[<<x, u>>] = net[<<x, u>>]
    BY Zenon, <1>2
  <2>2. /\ \A x \in Calls, u \in Transports :
             net'[<<x, u>>] \in {"held", "evaluated"} => webview' # "created"
        /\ \A x \in Commands, u \in Transports : net'[<<Fetch(x), u>>] # "held"
    BY <1>2, <2>1, CallForms DEF Stored
  <2>3. /\ \A x \in Commands : net'[<<Fetch(x), "fetch">>] = "error" => Fetch(x) \in fellBack'
        /\ \A x \in Commands : net'[<<Fetch(x), "fetch">>] = "failure" => webview' = "closed"
    <3>1. ASSUME NEW x \in Commands, net'[<<Fetch(x), "fetch">>] \in {"error", "failure"}
          PROVE  net'[<<Fetch(x), "fetch">>] = net[<<Fetch(x), "fetch">>]
      BY Zenon, <2>1, <3>1, CallForms DEF Transports
    <3> QED BY Zenon, <1>2, <3>1 DEF Stored
  <2>4. ASSUME NEW x \in Commands, stage'[Fetch(x)] # "none",
               \A u \in Transports : net'[<<Fetch(x), u>>] \in Unanswering
        PROVE  x \in data_queue'
    <3>1. \A u \in Transports : net[<<Fetch(x), u>>] \in Unanswering
      BY Zenon, <1>2, <2>4, CallForms DEF Unanswering
    <3> QED BY Zenon, <1>2, <2>4, <3>1 DEF Stored
  <2>5. /\ \A x \in Commands : [call |-> Call(x), does |-> "fetch"] \in scripts' => x \in data_queue'
        /\ \A x \in Commands :
             [call |-> Fetch(x), does |-> "error"] \in scripts' =>
               Fetch(x) \in fellBack' \/ x \in garbled'
    BY Zenon, <1>2 DEF Stored
  <2>6. BodyFetched'
    BY Zenon, <1>2 DEF Stored, BodyFetched
  <2> QED BY Zenon, <1>2, <2>2, <2>3, <2>4, <2>5, <2>6 DEF Stored
<1>3. ASSUME NEW c \in Calls, NewCall(c), promise[c] = "none", Kept, Plain,
             \A x \in Commands : c = Fetch(x) => x \in data_queue
      PROVE  Stored'
  <2>1. \A u \in Transports : net[<<c, u>>] = "none"
    BY Zenon, <1>3 DEF Placed
  <2>2. Sent
    <3>1. CASE net' = net
      BY Zenon, <3>1
    <3>2. ASSUME NEW t \in Transports, net' = [net EXCEPT ![<<c, t>>] = "sent"] PROVE Sent
      BY Zenon, <2>1, <3>2 DEF TypeOK
    <3> HIDE DEF Sent
    <3> QED BY Zenon, <1>3, <3>1, <3>2, Calling
  <2>3. \A x \in Calls : x # c => stage'[x] = stage[x]
    BY Zenon, <1>3, CallingOthers
  <2>4. Started
    BY Zenon, <1>3, <2>3, CallForms
  <2>5. \A x \in Calls : promise'[x] = "rejected" => promise[x] = "rejected"
    BY Zenon, <1>3 DEF NewCall, TypeOK
  <2>6. Rejected
    BY Zenon, <2>5, CallForms
  <2> HIDE DEF Kept, Sent, Plain, Started, Rejected
  <2> QED BY Zenon, <1>2, <1>3, <2>2, <2>4, <2>6
<1>4. ASSUME NEW c \in Calls, NEW e \in Ends, Settle(c, e), Kept, Sent, Plain,
             \A x \in Calls : stage'[x] # "none" => stage[x] # "none",
             \A x \in Commands : c = Fetch(x) /\ e = "error" =>
               Fetch(x) \in fellBack \/ webview = "closed" \/ x \in garbled
      PROVE  Stored'
  <2>1. ASSUME NEW x \in Commands, promise'[Fetch(x)] = "rejected",
               promise[Fetch(x)] # "rejected"
        PROVE  Fetch(x) \in fellBack \/ webview = "closed" \/ x \in garbled
    <3>1. Fetch(x) \in Calls /\ e = "error"
      BY <1>4, <2>1, Settling, CallForms DEF Ends
    <3>2. Fetch(x) = c
      BY <1>4, <2>1, <3>1, Settling
    <3> QED BY Zenon, <1>4, <3>1, <3>2
  <2>2. Rejected
    BY Zenon, <2>1
  <2>3. Started
    BY Zenon, <1>4, CallForms
  <2> HIDE DEF Kept, Sent, Plain, Started, Rejected
  <2> QED BY Zenon, <1>2, <1>4, <2>2, <2>3
<1>5. ASSUME NEW c \in Calls, NEW t \in Transports,
             stage' = [stage EXCEPT ![c] = t], net' = [net EXCEPT ![<<c, t>>] = "sent"],
             stage[c] = "frame" \/ (stage[c] = "fetch" /\ t = "post"),
             Kept, UNCHANGED <<promise, kind>>
      PROVE  Stored'
  <2>1. net[<<c, t>>] = "none"
    BY Zenon, <1>5 DEF Placed
  <2>2. Sent
    BY Zenon, <1>5, <2>1 DEF TypeOK
  <2>3. \A x \in Calls : stage'[x] # "none" => stage[x] # "none"
    BY Zenon, <1>5 DEF TypeOK
  <2>4. Plain
    BY Zenon, <1>5 DEF Stored
  <2>5. Started
    BY Zenon, <2>3, CallForms
  <2>6. Rejected
    BY Zenon, <1>5
  <2> HIDE DEF Kept, Sent, Plain, Started, Rejected
  <2> QED BY Zenon, <1>2, <1>5, <2>2, <2>4, <2>5, <2>6
<1> USE DEF rust
<1>6. ASSUME NEW c \in Calls, NEW k \in Kinds, InvokeCommand(c, k) PROVE Stored'
  <2>1. Kept
    BY Zenon, <1>6 DEF InvokeCommand
  <2>2. \A x \in Commands : c # Fetch(x)
    BY Zenon, <1>6, CallForms DEF InvokeCommand
  <2>3. Plain
    BY Zenon, <1>6, <2>2, CallForms DEF InvokeCommand, Stored, TypeOK
  <2> HIDE DEF Kept, Plain
  <2> QED BY Zenon, <1>3, <1>6, <2>1, <2>2, <2>3 DEF InvokeCommand
<1>7. ASSUME NEW c \in Calls, IsolationMessage(c) PROVE Stored'
  <2>1. customProtocolIpcFailed \in BOOLEAN
    BY Zenon DEF TypeOK
  <2>2. PICK t \in Transports : /\ stage' = [stage EXCEPT ![c] = t]
                                /\ net' = [net EXCEPT ![<<c, t>>] = "sent"]
    BY Zenon, <1>7, <2>1, Sending DEF IsolationMessage
  <2>3. Kept
    BY Zenon, <1>7 DEF IsolationMessage
  <2> HIDE DEF Kept
  <2> QED BY Zenon, <1>5, <1>7, <2>2, <2>3 DEF IsolationMessage
<1>15. ASSUME NEW c \in Calls, IsolationIgnores(c) PROVE Stored'
  <2>1. \A x \in Calls : stage'[x] # "none" => stage[x] # "none"
    BY Zenon, <1>15 DEF IsolationIgnores, TypeOK
  <2>2. Kept /\ Sent /\ Rejected
    BY Zenon, <1>15 DEF IsolationIgnores
  <2>3. Plain
    BY Zenon, <1>15 DEF IsolationIgnores, Stored
  <2>4. Started
    BY Zenon, <2>1, CallForms
  <2> HIDE DEF Kept, Sent, Plain, Started, Rejected
  <2> QED BY Zenon, <1>2, <2>2, <2>3, <2>4
<1>8. ASSUME NEW c \in Calls, HttpResponse(c) PROVE Stored'
  <2>1. ResponseEnd(net[<<c, "fetch">>]) \in Ends
    BY Zenon DEF ResponseEnd, Ends
  <2>2. \A x \in Calls : stage'[x] # "none" => stage[x] # "none"
    BY Zenon, <1>8 DEF HttpResponse, TypeOK
  <2>3. Kept /\ Sent
    BY Zenon, <1>8 DEF HttpResponse
  <2>4. Plain
    BY Zenon, <1>8 DEF HttpResponse, Stored
  <2>5. ASSUME NEW x \in Commands, c = Fetch(x), ResponseEnd(net[<<c, "fetch">>]) = "error"
        PROVE  Fetch(x) \in fellBack \/ webview = "closed"
    BY Zenon, <1>8, <2>5 DEF HttpResponse, ResponseEnd, Stored
  <2> HIDE DEF Kept, Sent, Plain
  <2> QED BY Zenon, <1>4, <1>8, <2>1, <2>2, <2>3, <2>4, <2>5 DEF HttpResponse
<1>9. ASSUME NEW c \in Calls, FetchFailed(c) PROVE Stored'
  <2>1. PICK t \in Transports : /\ stage' = [stage EXCEPT ![c] = t]
                                /\ net' = [net EXCEPT ![<<c, t>>] = "sent"]
                                /\ t = "post"
    BY Zenon, <1>9, Sending DEF FetchFailed
  <2>2. Kept
    BY Zenon, <1>9 DEF FetchFailed
  <2> HIDE DEF Kept
  <2> QED BY Zenon, <1>5, <1>9, <2>1, <2>2 DEF FetchFailed
<1>10. ASSUME NEW s \in Script, RunScript(s) PROVE Stored'
  <2>1. s \in scripts /\ s.call \in Calls /\ s = [call |-> s.call, does |-> s.does]
    BY Zenon, <1>10 DEF RunScript, Script
  <2>2. Kept
    BY Zenon, <1>10 DEF RunScript
  <2>3. CASE s.does \in Ends /\ Settle(s.call, s.does) /\ UNCHANGED <<stage, net, kind>>
    <3>1. Sent /\ Plain
      BY Zenon, <2>3 DEF Stored
    <3>2. \A x \in Commands : s.call = Fetch(x) /\ s.does = "error" =>
            Fetch(x) \in fellBack \/ x \in garbled
      BY Zenon, <2>1 DEF Stored
    <3> HIDE DEF Kept, Sent, Plain
    <3> QED BY Zenon, <1>4, <2>1, <2>2, <2>3, <3>1, <3>2
  <2>4. CASE /\ s.does = "fetch" /\ NewCall(Fetch(s.call.cmd))
             /\ kind' = [kind EXCEPT ![Fetch(s.call.cmd)] = "plain"]
    <3>1. /\ s.call.cmd \in Commands /\ Fetch(s.call.cmd) \in Calls
          /\ promise[Fetch(s.call.cmd)] = "none"
          /\ s.call.cmd \in data_queue
      BY Zenon, <2>1, <2>4, FetchScript, CallForms DEF Stored
    <3>2. Plain
      BY Zenon, <2>4, <3>1, CallForms DEF Stored, TypeOK
    <3>3. \A x \in Commands : Fetch(s.call.cmd) = Fetch(x) => x \in data_queue
      BY <3>1, CallForms
    <3> HIDE DEF Kept, Plain
    <3> QED BY Zenon, <1>3, <2>2, <2>4, <3>1, <3>2, <3>3
  <2> QED BY Zenon, <1>10, <2>3, <2>4 DEF RunScript
<1>11. CASE Reload \/ DestroyPage
  <2>1. \A x \in Calls : /\ promise'[x] = "rejected" => promise[x] = "rejected"
                         /\ stage'[x] # "none" => stage[x] # "none"
    BY Zenon, <1>11 DEF Reload, DestroyPage, Unload, TypeOK
  <2>2. Kept /\ Sent
    BY Zenon, <1>11 DEF Reload, DestroyPage
  <2>3. Plain
    BY Zenon, <1>11 DEF Reload, DestroyPage, Stored
  <2>4. Started /\ Rejected
    BY Zenon, <2>1, CallForms
  <2> HIDE DEF Kept, Sent, Plain, Started, Rejected
  <2> QED BY Zenon, <1>2, <2>2, <2>3, <2>4
<1>12. CASE IsolationReady \/ AttachWebview \/ CloseWebview \/ UNCHANGED vars
  <2>1. \A x \in Calls : stage'[x] # "none" => stage[x] # "none"
    BY Zenon, <1>12 DEF IsolationReady, AttachWebview, CloseWebview, vars, js, TypeOK
  <2>2. Kept /\ Sent /\ Rejected
    BY Zenon, <1>12 DEF IsolationReady, AttachWebview, CloseWebview, vars, js
  <2>3. Plain
    BY Zenon, <1>12 DEF IsolationReady, AttachWebview, CloseWebview, vars, Stored
  <2>4. Started
    BY Zenon, <2>1, CallForms
  <2> HIDE DEF Kept, Sent, Plain, Started, Rejected
  <2> QED BY Zenon, <1>2, <2>2, <2>3, <2>4
<1>13. ASSUME NEW c \in Calls, ReceiveFetch(c) \/ RequestLost(c) \/ ReceivePost(c)
       PROVE  Stored'
  BY Zenon, <1>1, <1>13, RustSteps DEF Transports
<1>14. ASSUME NEW c \in Calls, NEW t \in Transports, Finish(c, t) PROVE Stored'
  BY Zenon, <1>1, <1>14, RustSteps
<1> QED BY Zenon, <1>6, <1>7, <1>8, <1>9, <1>10, <1>11, <1>12, <1>13, <1>14,
           <1>15 DEF Next, Page

\* A call that was sent once is answered once, and the page is told that answer.
LEMMA NextSingle ==
  TypeOK /\ CallbacksPaired /\ Placed /\ Counted /\ Single /\ [Next]_vars => Single'
<1> SUFFICES ASSUME TypeOK, CallbacksPaired, Placed, Counted, Single, [Next]_vars
             PROVE  Single'
  BY Zenon
<1>a. "fetch" \in Transports /\ "post" \in Transports
      /\ \A t \in Transports : t = "fetch" \/ t = "post"
  BY Zenon DEF Transports
<1>b. scripts \subseteq Script /\ \A s \in Script : s.call \in Calls
  BY Zenon DEF TypeOK, Script
<1>1. ASSUME NEW c \in Calls, NEW t \in Transports, Answer(c, t) PROVE Single'
  <2>1. UNCHANGED <<stage, promise, fellBack>>
    BY Zenon, <1>1 DEF Answer, js
  <2>2. /\ net[<<c, t>>] \in {"sent", "held"}
        /\ \A x \in Calls, u \in Transports :
             x # c \/ u # t => net'[<<x, u>>] = net[<<x, u>>]
    BY <1>1, AnsweredNet
  <2>3. \A x \in Calls, u \in Transports :
          net[<<x, u>>] \in {"ok", "evaluated"} => net'[<<x, u>>] = net[<<x, u>>]
    BY Zenon, <2>2
  <2>4. \A s \in scripts' : s.call \in Calls /\ net'[<<s.call, "post">>] = "evaluated"
    <3>1. ASSUME NEW s \in scripts'
          PROVE  s.call \in Calls /\ net'[<<s.call, "post">>] = "evaluated"
      <4>1. s \in scripts \/ (s.call = c /\ t = "post" /\ net'[<<c, t>>] = "evaluated")
        BY Zenon, <1>1, <3>1, AnsweredScripts
      <4> QED BY Zenon, <1>1, <1>a, <1>b, <2>3, <4>1 DEF Single
    <3> QED BY Zenon, <3>1
  <2>5. \/ succeeded' = succeeded
        \/ succeeded' = succeeded \cup {c}
           /\ (net'[<<c, "fetch">>] = "ok" \/ net'[<<c, "post">>] = "evaluated")
           /\ scripts' \subseteq scripts \cup {s \in scripts' : s.does # "error"}
    <3>1. ASSUME NEW res \in Results, NEW large \in BOOLEAN, Respond(c, t, res, large), res = "ok"
          PROVE  /\ succeeded' = succeeded \cup {c}
                 /\ net'[<<c, "fetch">>] = "ok" \/ net'[<<c, "post">>] = "evaluated"
      BY Zenon, <1>a, <3>1 DEF Respond, TypeOK
    <3>2. ASSUME NEW res \in Results, NEW large \in BOOLEAN, Respond(c, t, res, large), res = "ok"
          PROVE  scripts' \subseteq scripts \cup {s \in scripts' : s.does # "error"}
      BY <3>2 DEF Respond
    <3>3. ASSUME NEW res \in Results, NEW large \in BOOLEAN, Respond(c, t, res, large), res # "ok"
          PROVE  succeeded' = succeeded
      BY Zenon, <3>3 DEF Respond
    <3> QED BY Zenon, <1>1, <3>1, <3>2, <3>3 DEF Answer
  <2>6. ASSUME NEW x \in Calls, NEW u \in Transports, net'[<<x, u>>] = "held"
        PROVE  runs'[<<x, u>>] = 1
    <3>1. CASE <<x, u>> = <<c, t>>
      <4>1. \/ net[<<c, t>>] = "sent" /\ runs' = OneMore(runs, c, t)
            \/ net'[<<c, t>>] # "held"
        BY ZenonT(30), <1>1 DEF Answer, Respond, Results, TypeOK
      <4>2. net[<<c, t>>] = "sent" => runs[<<c, t>>] = 0
        BY Zenon DEF Counted
      <4> QED BY <2>6, <3>1, <4>1, <4>2 DEF OneMore, TypeOK
    <3>2. CASE <<x, u>> # <<c, t>>
      <4>1. runs'[<<x, u>>] = runs[<<x, u>>]
        BY Zenon, <1>1, <3>2 DEF Answer, OneMore, TypeOK
      <4> QED BY Zenon, <2>2, <2>6, <3>2, <4>1 DEF Single
    <3> QED BY Zenon, <3>1, <3>2
  <2>7. \A x \in succeeded' :
          net'[<<x, "fetch">>] = "ok" \/ net'[<<x, "post">>] = "evaluated"
    BY ZenonT(40), <1>a, <2>3, <2>5 DEF Single, TypeOK
  <2>8. ASSUME NEW x \in succeeded', [call |-> x, does |-> "error"] \in scripts'
        PROVE  x \in fellBack
    <3> DEFINE s == [call |-> x, does |-> "error"]
    <3>0. s.call = x /\ s.does = "error"
      BY Zenon
    <3>1. x \in Calls /\ net'[<<x, "post">>] = "evaluated"
      BY Zenon, <2>4, <2>8, <3>0
    <3> HIDE DEF s
    <3>2. CASE x # c
      <4>1. x \in succeeded /\ s \in scripts
        <5>1. s \in scripts'
          BY Zenon, <2>8 DEF s
        <5>2. s \in scripts \/ s.call = c
          BY Zenon, <1>1, <5>1, AnsweredScripts
        <5> QED BY Zenon, <2>5, <2>8, <3>0, <3>2, <5>2
      <4> QED BY Zenon, <4>1 DEF Single, s
    <3>3. CASE x = c /\ t = "fetch"
      <4>1. net[<<c, "post">>] # "none" /\ net[<<c, "fetch">>] # "none"
        BY Zenon, <1>a, <2>2, <3>1, <3>3
      <4> QED BY Zenon, <3>3, <4>1 DEF Placed
    <3>4. CASE x = c /\ t = "post" /\ x \in succeeded
      <4>1. net[<<c, "fetch">>] = "ok" /\ net[<<c, "post">>] # "none"
        BY Zenon, <2>2, <3>4 DEF Single
      <4> QED BY Zenon, <3>4, <4>1 DEF Placed
    <3>5. CASE x = c /\ t = "post" /\ x \notin succeeded
      <4>1. s \in scripts
        BY Zenon, <2>5, <2>8, <3>0, <3>5 DEF s
      <4>2. net[<<c, "post">>] = "evaluated"
        BY Zenon, <3>0, <3>5, <4>1 DEF Single
      <4> QED BY Zenon, <2>2, <3>5, <4>2
    <3> QED BY Zenon, <1>a, <3>2, <3>3, <3>4, <3>5
  <2>9. ASSUME NEW x \in Calls, promise[x] = "rejected", x \notin fellBack
        PROVE  /\ x \notin succeeded'
               /\ \A u \in Transports : net'[<<x, u>>] \notin {"sent", "held"}
    <3>1. x # c
      BY Zenon, <2>2, <2>9 DEF Single
    <3> QED BY Zenon, <2>2, <2>5, <2>9, <3>1 DEF Single
  <2>10. \A x \in Calls : /\ stage'[x] \in {"queued", "frame", "fetch"} => promise'[x] = "pending"
                         /\ stage'[x] \in {"none", "queued", "frame", "fetch"} => x \notin fellBack'
    BY Zenon, <2>1 DEF Single
  <2> QED BY Zenon, <2>1, <2>4, <2>6, <2>7, <2>8, <2>9, <2>10 DEF Single
<1>2. ASSUME NEW c \in Calls, NEW t \in Transports, net[<<c, t>>] = "none",
             promise' = [promise EXCEPT ![c] = "pending"],
             stage' = [stage EXCEPT ![c] = t],
             net' = [net EXCEPT ![<<c, t>>] = "sent"],
             fellBack \subseteq fellBack', fellBack' \subseteq fellBack \cup {c},
             t = "fetch" => c \notin fellBack',
             scripts' \subseteq scripts, UNCHANGED <<runs, succeeded>>
      PROVE  Single'
  <2>1. /\ \A x \in Calls : x # c => stage'[x] = stage[x] /\ promise'[x] = promise[x]
        /\ stage'[c] = t /\ promise'[c] = "pending"
        /\ \A x \in Calls, u \in Transports :
             x # c \/ u # t => net'[<<x, u>>] = net[<<x, u>>]
        /\ net'[<<c, t>>] = "sent"
    BY Zenon, <1>2 DEF TypeOK
  <2>2. \A s \in scripts' : net'[<<s.call, "post">>] = "evaluated"
    <3>1. ASSUME NEW s \in scripts' PROVE net'[<<s.call, "post">>] = "evaluated"
      <4>1. s.call \in Calls /\ net[<<s.call, "post">>] = "evaluated"
        BY Zenon, <1>2, <1>b, <3>1 DEF Single
      <4>2. s.call # c \/ "post" # t
        BY Zenon, <1>2, <4>1
      <4> QED BY Zenon, <1>a, <2>1, <4>1, <4>2
    <3> QED BY Zenon, <3>1
  <2>3. \A x \in Calls : /\ stage'[x] \in {"queued", "frame", "fetch"} => promise'[x] = "pending"
                         /\ stage'[x] \in {"none", "queued", "frame", "fetch"} => x \notin fellBack'
    BY ZenonT(40), <1>2, <1>a, <2>1 DEF Single
  <2>4. \A x \in Calls, u \in Transports : net'[<<x, u>>] = "held" => runs'[<<x, u>>] = 1
    BY <1>2, <2>1 DEF Single
  <2>5. \A x \in succeeded' :
          net'[<<x, "fetch">>] = "ok" \/ net'[<<x, "post">>] = "evaluated"
    <3>1. ASSUME NEW x \in succeeded, NEW u \in Transports, net[<<x, u>>] \in {"ok", "evaluated"}
          PROVE  net'[<<x, u>>] = net[<<x, u>>]
      <4>1. x \in Calls /\ (x # c \/ u # t)
        BY Zenon, <1>2, <3>1 DEF TypeOK
      <4> QED BY Zenon, <2>1, <4>1
    <3> QED BY Zenon, <1>2, <1>a, <3>1 DEF Single
  <2>6. \A x \in succeeded' : [call |-> x, does |-> "error"] \in scripts' => x \in fellBack'
    BY Zenon, <1>2 DEF Single
  <2>7. \A x \in Calls : promise'[x] = "rejected" /\ x \notin fellBack' =>
          /\ x \notin succeeded'
          /\ \A u \in Transports : net'[<<x, u>>] \notin {"sent", "held"}
    BY ZenonT(40), <1>2, <2>1 DEF Single
  <2> QED BY Zenon, <2>2, <2>3, <2>4, <2>5, <2>6, <2>7 DEF Single
<1>3. ASSUME UNCHANGED <<net, runs, succeeded, fellBack>>, scripts' \subseteq scripts,
             \A x \in Calls :
               stage'[x] \in {"queued", "frame", "fetch"} => promise'[x] = "pending",
             \A x \in Calls :
               stage'[x] \in {"none", "queued", "frame", "fetch"} => x \notin fellBack,
             \A x \in Calls : promise'[x] = "rejected" /\ x \notin fellBack =>
               \/ promise[x] = "rejected"
               \/ /\ x \notin succeeded
                  /\ \A u \in Transports : net[<<x, u>>] \notin {"sent", "held"}
      PROVE  Single'
  BY Zenon, <1>3 DEF Single
<1>4. ASSUME NEW c \in Calls, NewCall(c), stage[c] = "none",
             scripts' \subseteq scripts, UNCHANGED <<runs, succeeded, fellBack>>
      PROVE  Single'
  <2>1. /\ promise' = [promise EXCEPT ![c] = "pending"]
        /\ c \notin fellBack
        /\ \A u \in Transports : net[<<c, u>>] = "none"
    BY Zenon, <1>4 DEF NewCall, Single, Placed
  <2>2. CASE \E t \in Transports : /\ stage' = [stage EXCEPT ![c] = t]
                                   /\ net' = [net EXCEPT ![<<c, t>>] = "sent"]
    BY Zenon, <1>2, <1>4, <2>1, <2>2
  <2>3. CASE \E g \in {"frame", "queued"} : stage' = [stage EXCEPT ![c] = g] /\ net' = net
    <3>1. \A x \in Calls :
            stage'[x] \in {"queued", "frame", "fetch"} => promise'[x] = "pending"
      BY Zenon, <2>1, <2>3 DEF Single, TypeOK
    <3>2. \A x \in Calls :
            stage'[x] \in {"none", "queued", "frame", "fetch"} => x \notin fellBack
      BY Zenon, <2>1, <2>3 DEF Single, TypeOK
    <3>3. \A x \in Calls : promise'[x] = "rejected" => promise[x] = "rejected"
      BY Zenon, <2>1 DEF TypeOK
    <3> QED BY Zenon, <1>3, <1>4, <2>3, <3>1, <3>2, <3>3
  <2> QED BY Zenon, <1>4, <2>2, <2>3, Calling
<1>5. ASSUME NEW c \in Calls, NEW e \in Ends, Settle(c, e),
             \A x \in Calls : stage'[x] = stage[x] \/ stage'[x] = "answered",
             stage'[c] = "answered" \/ net[<<c, "post">>] = "evaluated",
             scripts' \subseteq scripts, UNCHANGED <<net, runs, succeeded, fellBack>>,
             e = "error" /\ c \notin fellBack =>
               /\ c \notin succeeded
               /\ \A u \in Transports : net[<<c, u>>] \notin {"sent", "held"}
      PROVE  Single'
  <2>1. \A x \in Calls :
          \/ promise'[x] = promise[x]
          \/ /\ promise[x] = "pending" /\ promise[c] = "pending"
             /\ promise'[x] = IF e = "callback" THEN "resolved" ELSE "rejected"
             /\ x = c \/ (c.data /\ e = "callback" /\ x = Call(c.cmd))
    BY <1>5, Settling
  <2>2. ASSUME NEW x \in Calls, stage'[x] \in {"queued", "frame", "fetch"}
        PROVE  promise'[x] = "pending"
    <3>1. stage[x] = stage'[x] /\ promise[x] = "pending"
      BY Zenon, <1>5, <2>2 DEF Single
    <3>2. net[<<x, "post">>] = "none"
      BY <1>a, <2>2, <3>1 DEF Placed
    <3>3. x # c
      BY Zenon, <1>5, <2>2, <3>2
    <3>4. ASSUME c.data, x = Call(c.cmd), promise[c] = "pending" PROVE FALSE
      <4>1. c.cmd \in Commands /\ c = Fetch(c.cmd)
        BY Zenon, <3>4, CallForms
      <4>2. stage[c] # "none"
        BY Zenon, <3>4 DEF Placed
      <4>3. net[<<Call(c.cmd), "post">>] = "evaluated"
        BY Zenon, <4>1, <4>2 DEF Placed
      <4> QED BY Zenon, <3>2, <3>4, <4>3
    <3> QED BY Zenon, <2>1, <3>1, <3>3, <3>4
  <2>3. \A x \in Calls :
          stage'[x] \in {"none", "queued", "frame", "fetch"} => x \notin fellBack
    BY Zenon, <1>5 DEF Single
  <2>4. \A x \in Calls : promise'[x] = "rejected" =>
          promise[x] = "rejected" \/ (x = c /\ e = "error")
    BY Zenon, <2>1 DEF Ends
  <2> QED BY Zenon, <1>3, <1>5, <2>2, <2>3, <2>4
<1>6. ASSUME NEW c \in Calls, NEW f \in BOOLEAN, SendIpcMessage(c, f),
             \/ stage[c] = "frame" /\ fellBack' = fellBack
             \/ stage[c] = "fetch" /\ f /\ fellBack' = fellBack \cup {c},
             UNCHANGED <<promise, scripts, runs, succeeded>>
      PROVE  Single'
  <2>1. PICK t \in Transports : /\ stage' = [stage EXCEPT ![c] = t]
                                /\ net' = [net EXCEPT ![<<c, t>>] = "sent"]
                                /\ f => t = "post"
    BY Zenon, <1>6, Sending
  <2>2. promise[c] = "pending" /\ c \notin fellBack
    BY Zenon, <1>6 DEF Single
  <2>3. promise' = [promise EXCEPT ![c] = "pending"]
    BY Zenon, <1>6, <2>2 DEF TypeOK
  <2>4. net[<<c, t>>] = "none" /\ (t = "fetch" => c \notin fellBack')
    BY Zenon, <1>6, <2>1, <2>2 DEF Placed
  <2>5. fellBack \subseteq fellBack' /\ fellBack' \subseteq fellBack \cup {c}
    BY Zenon, <1>6
  <2> QED BY Zenon, <1>2, <1>6, <2>1, <2>3, <2>4, <2>5
<1> USE DEF rust
<1>7. ASSUME NEW c \in Calls, NEW k \in Kinds, InvokeCommand(c, k) PROVE Single'
  <2>1. stage[c] = "none"
    BY Zenon, <1>7 DEF InvokeCommand, Placed
  <2> QED BY Zenon, <1>4, <1>7, <2>1 DEF InvokeCommand
<1>8. ASSUME NEW c \in Calls, IsolationMessage(c) \/ IsolationIgnores(c) PROVE Single'
  <2>1. CASE IsolationMessage(c)
    BY Zenon, <1>6, <2>1 DEF IsolationMessage, TypeOK
  <2>2. CASE IsolationIgnores(c)
    <3>1. UNCHANGED <<net, runs, succeeded, fellBack, scripts, promise>>
      BY Zenon, <2>2 DEF IsolationIgnores
    <3>2. \A x \in Calls : stage'[x] = stage[x] \/ stage'[x] = "ignored"
      BY Zenon, <2>2 DEF IsolationIgnores, TypeOK
    <3>3. \A x \in Calls :
            /\ stage'[x] \in {"queued", "frame", "fetch"} => promise'[x] = "pending"
            /\ stage'[x] \in {"none", "queued", "frame", "fetch"} => x \notin fellBack
      BY Zenon, <3>1, <3>2 DEF Single
    <3> QED BY Zenon, <1>3, <3>1, <3>3
  <2> QED BY Zenon, <1>8, <2>1, <2>2
<1>9. ASSUME NEW c \in Calls, HttpResponse(c) PROVE Single'
  <2>1. ResponseEnd(net[<<c, "fetch">>]) \in Ends
    BY Zenon DEF ResponseEnd, Ends
  <2>2. /\ stage'[c] = "answered"
        /\ \A x \in Calls : stage'[x] = stage[x] \/ stage'[x] = "answered"
    BY Zenon, <1>9 DEF HttpResponse, TypeOK
  <2>3. /\ net[<<c, "post">>] = "none"
        /\ net[<<c, "fetch">>] \in {"ok", "error", "failure"}
    BY Zenon, <1>9 DEF HttpResponse, Placed
  <2>4. ResponseEnd(net[<<c, "fetch">>]) = "error" => c \notin succeeded
    BY Zenon, <2>3 DEF ResponseEnd, Single
  <2>5. \A u \in Transports : net[<<c, u>>] \notin {"sent", "held"}
    BY Zenon, <1>a, <2>3
  <2> QED BY Zenon, <1>5, <1>9, <2>1, <2>2, <2>4, <2>5 DEF HttpResponse
<1>10. ASSUME NEW c \in Calls, FetchFailed(c) PROVE Single'
  BY Zenon, <1>6, <1>10 DEF FetchFailed
<1>11. ASSUME NEW s \in Script, RunScript(s) PROVE Single'
  <2>1. s \in scripts /\ s.call \in Calls /\ net[<<s.call, "post">>] = "evaluated"
    BY Zenon, <1>11, <1>b DEF RunScript, Single
  <2>2. CASE s.does \in Ends /\ Settle(s.call, s.does) /\ UNCHANGED <<stage, net>>
    <3>1. ASSUME s.does = "error", s.call \notin fellBack
          PROVE  /\ s.call \notin succeeded
                 /\ \A u \in Transports : net[<<s.call, u>>] \notin {"sent", "held"}
      <4>1. s = [call |-> s.call, does |-> "error"]
        BY <3>1 DEF Script
      <4>2. net[<<s.call, "fetch">>] = "none"
        BY Zenon, <2>1, <3>1 DEF Placed
      <4> QED BY Zenon, <1>a, <2>1, <3>1, <4>1, <4>2 DEF Single
    <3> QED BY Zenon, <1>5, <1>11, <2>1, <2>2, <3>1 DEF RunScript
  <2>3. CASE s.does = "fetch" /\ NewCall(Fetch(s.call.cmd))
    <3>1. Fetch(s.call.cmd) \in Calls /\ s.call.cmd \in Commands /\ s.call = Call(s.call.cmd)
      BY <2>1, <2>3, FetchScript, CallForms
    <3>2. s = [call |-> Call(s.call.cmd), does |-> "fetch"]
      BY <2>3, <3>1 DEF Script
    <3>3. stage[Fetch(s.call.cmd)] = "none"
      BY Zenon, <2>1, <3>1, <3>2 DEF Placed
    <3> QED BY Zenon, <1>4, <1>11, <2>3, <3>1, <3>3 DEF RunScript
  <2> QED BY Zenon, <1>11, <2>2, <2>3 DEF RunScript
<1>12. CASE Reload \/ DestroyPage
  <2>1. \A x \in Calls : /\ promise'[x] = "rejected" => promise[x] = "rejected"
                         /\ stage'[x] = "gone" \/ (stage'[x] = "none" /\ stage[x] = "none")
    BY Zenon, <1>12 DEF Reload, DestroyPage, Unload, TypeOK
  <2>2. UNCHANGED <<net, runs, succeeded, fellBack, scripts>>
    BY Zenon, <1>12 DEF Reload, DestroyPage
  <2>3. \A x \in Calls :
          /\ stage'[x] \notin {"queued", "frame", "fetch"}
          /\ stage'[x] \in {"none", "queued", "frame", "fetch"} => x \notin fellBack
    BY Zenon, <2>1 DEF Single
  <2> QED BY Zenon, <1>3, <2>1, <2>2, <2>3
<1>13. CASE IsolationReady \/ AttachWebview \/ CloseWebview \/ UNCHANGED vars
  <2>1. UNCHANGED <<net, runs, succeeded, fellBack, scripts, promise>>
    BY Zenon, <1>13 DEF IsolationReady, AttachWebview, CloseWebview, vars, js
  <2>2. \A x \in Calls : stage'[x] = stage[x] \/ (stage[x] = "queued" /\ stage'[x] = "frame")
    BY Zenon, <1>13 DEF IsolationReady, AttachWebview, CloseWebview, vars, js, TypeOK
  <2>3. \A x \in Calls : /\ stage'[x] \in {"queued", "frame", "fetch"} => promise'[x] = "pending"
                         /\ stage'[x] \in {"none", "queued", "frame", "fetch"} => x \notin fellBack
    BY Zenon, <2>1, <2>2 DEF Single
  <2> QED BY Zenon, <1>3, <2>1, <2>3
<1>14. ASSUME NEW c \in Calls, ReceiveFetch(c) \/ RequestLost(c) \/ ReceivePost(c)
       PROVE  Single'
  BY Zenon, <1>1, <1>14, RustSteps DEF Transports
<1>15. ASSUME NEW c \in Calls, NEW t \in Transports, Finish(c, t) PROVE Single'
  BY Zenon, <1>1, <1>15, RustSteps
<1> QED BY Zenon, <1>7, <1>8, <1>9, <1>10, <1>11, <1>12, <1>13, <1>14, <1>15 DEF Next, Page

-----------------------------------------------------------------------------
(* Theorems *)

\* Init makes no call, so nothing has been sent, run or answered.
LEMMA InitInv == Init => CallbacksPaired /\ Inv
<1> SUFFICES ASSUME Init PROVE CallbacksPaired /\ Inv
  BY Zenon
<1>1. CallbacksPaired
  BY Zenon DEF Init, CallbacksPaired
<1>2. Placed
  BY Zenon, CallForms DEF Init, Placed, Transports
<1>3. Counted
  BY DEF Init, Counted
<1>4. Earned
  BY Zenon, CallForms DEF Init, Earned, ResolvedBySuccess, Transports
<1>5. Stored
  BY Zenon, CallForms DEF Init, Stored, BodyFetched, Transports
<1>6. Single
  BY Zenon DEF Init, Single
<1> QED BY Zenon, <1>1, <1>2, <1>3, <1>4, <1>5, <1>6 DEF Inv

\* The variables of the page, the webview and the Rust side keep their types.
THEOREM TypeCorrect == Spec => []TypeOK
  BY InitType, NextType, PTL DEF Spec

\* The two callbacks of invoke() are properties of window exactly while its promise
\* is pending.
THEOREM Paired == Spec => []CallbacksPaired
  BY TypeCorrect, InitInv, NextPaired, PTL DEF Spec

\* The layers hold together in every reachable state.
LEMMA Invariance == Spec => []Inv
<1>1. TypeOK /\ CallbacksPaired /\ Inv /\ [Next]_vars => Inv'
  BY Zenon, NextPlaced, NextCounted, NextEarned, NextStored, NextSingle DEF Inv
<1> QED BY <1>1, TypeCorrect, Paired, InitInv, PTL DEF Spec

\* A command runs at most once for each transport its message was received by, and
\* for both only after the catch() of sendIpcMessage in ipc-protocol.js.
THEOREM RunsOnce == Spec => []RunsOncePerTransport
<1>1. ASSUME TypeOK, Inv, NEW c \in Calls
      PROVE  /\ \A t \in Transports : runs[<<c, t>>] <= 1
             /\ runs[<<c, "fetch">>] + runs[<<c, "post">>] = 2 => c \in fellBack
  <2>1. \A t \in Transports : /\ runs[<<c, t>>] \in Nat /\ runs[<<c, t>>] <= 1
                              /\ net[<<c, t>>] = "none" => runs[<<c, t>>] = 0
    BY Zenon, <1>1 DEF Inv, Counted, TypeOK
  <2>2. "fetch" \in Transports /\ "post" \in Transports
    BY Zenon DEF Transports
  <2>3. ASSUME runs[<<c, "fetch">>] + runs[<<c, "post">>] = 2
        PROVE  net[<<c, "fetch">>] # "none" /\ net[<<c, "post">>] # "none"
    BY <2>1, <2>2, <2>3
  <2> QED BY Zenon, <1>1, <2>1, <2>3 DEF Inv, Placed
<1>2. TypeOK /\ Inv => RunsOncePerTransport
  BY Zenon, <1>1 DEF RunsOncePerTransport
<1> QED BY <1>2, TypeCorrect, Invariance, PTL

\* return_result never finds its responder taken: "resolver consumed" is never
\* reached.
THEOREM TakenOnce == Spec => []ResponderTakenOnce
<1>1. Inv => ResponderTakenOnce
  BY Zenon DEF Inv, Counted, ResponderTakenOnce
<1> QED BY <1>1, Invariance, PTL

\* A promise of invoke() is resolved only if its command returned Ok with a body that
\* can be read, on whichever transport and however large the body.
THEOREM Resolved == Spec => []ResolvedBySuccess
<1>1. Inv => ResolvedBySuccess
  BY Zenon DEF Inv, Earned
<1> QED BY <1>1, Invariance, PTL

\* The fetch command of ipc/channel.rs finds the body in ChannelDataIpcQueue unless
\* it was asked for twice or the webview is closed, and the page can read it unless
\* it is no JSON.
THEOREM Fetched == Spec => []BodyFetched
<1>1. Inv => BodyFetched
  BY Zenon DEF Inv, Stored
<1> QED BY <1>1, Invariance, PTL

-----------------------------------------------------------------------------
(* invoke() is a remote call *)

\* What RemoteCall sees of the calls: no nested call, and no transport.
Told == [c \in Commands |-> promise[Call(c)]]
Ran == [c \in Commands |-> runs[<<Call(c), "fetch">>] + runs[<<Call(c), "post">>]]
Done == {c \in Commands : Call(c) \in succeeded}
Repeated == {c \in Commands : Call(c) \in fellBack}

\* An answer of the Rust side to the message of a call: the command runs, or its run
\* succeeds.  The answer to a nested call is none of the page's business.
LEMMA AnswerIsRemote ==
  ASSUME TypeOK, Inv, NEW c \in Calls, NEW t \in Transports, Answer(c, t)
  PROVE  [Remote!Next]_Remote!vars
<1>a. "fetch" \in Transports /\ "post" \in Transports /\ (t = "fetch" \/ t = "post")
  BY Zenon DEF Transports
<1>b. \A d \in Commands : Call(d) \in Calls /\ (Call(d) = c <=> ~c.data /\ d = c.cmd)
  BY Zenon, CallForms
<1>c. /\ runs \in [Calls \X Transports -> Nat] /\ net \in [Calls \X Transports -> Nets]
      /\ succeeded \subseteq Calls
  BY Zenon DEF TypeOK
<1>1. UNCHANGED <<promise, fellBack, Told, Repeated>>
  BY Zenon DEF Answer, js, Told, Repeated
<1>2. \/ succeeded' = succeeded
      \/ /\ succeeded' = succeeded \cup {c}
         /\ ~c.data => net[<<c, t>>] = "held" /\ runs' = runs
  BY Zenon DEF Answer, Respond
<1>3. \/ runs' = runs
      \/ net[<<c, t>>] = "sent" /\ runs' = OneMore(runs, c, t)
  BY Zenon DEF Answer
<1>4. \A x \in Calls : x # c => /\ runs'[<<x, "fetch">>] = runs[<<x, "fetch">>]
                                /\ runs'[<<x, "post">>] = runs[<<x, "post">>]
  BY Zenon, <1>3, <1>a, <1>c DEF OneMore
<1>5. CASE c.data
  <2>1. Ran' = Ran
    BY Zenon, <1>4, <1>5, <1>b DEF Ran
  <2>2. Done' = Done
    BY Zenon, <1>2, <1>5, <1>b DEF Done
  <2> QED BY Zenon, <1>1, <2>1, <2>2 DEF Remote!vars, Told, Ran, Done, Repeated
<1>6. CASE ~c.data
  <2> DEFINE d == c.cmd
  <2>1. d \in Commands /\ c = Call(d)
    BY Zenon, <1>6, CallForms
  <2> HIDE DEF d
  <2>2. CASE succeeded' = succeeded /\ runs' = runs
    <3>1. Ran' = Ran /\ Done' = Done
      BY Zenon, <2>2 DEF Ran, Done
    <3> QED BY Zenon, <1>1, <3>1 DEF Remote!vars, Told, Ran, Done, Repeated
  <2>3. CASE succeeded' = succeeded \cup {c} /\ net[<<c, t>>] = "held" /\ runs' = runs
    <3>1. Ran' = Ran
      BY Zenon, <2>3 DEF Ran
    <3>2. Done' = Done \cup {d}
      BY Zenon, <1>6, <1>b, <2>1, <2>3 DEF Done, d
    <3>3. runs[<<c, t>>] = 1
      BY Zenon, <2>3 DEF Inv, Single
    <3>4. Ran[d] > 0
      BY <1>a, <1>c, <2>1, <3>3 DEF Ran
    <3>5. Remote!Succeed(d)
      BY Zenon, <1>1, <3>1, <3>2, <3>4 DEF Remote!Succeed, Told, Ran, Done, Repeated
    <3> QED BY Zenon, <2>1, <3>5 DEF Remote!Next
  <2>4. CASE succeeded' = succeeded /\ net[<<c, t>>] = "sent" /\ runs' = OneMore(runs, c, t)
    <3>1. Done' = Done
      BY Zenon, <2>4 DEF Done
    <3>2. Told[d] # "none"
      <4>1. stage[c] # "none"
        BY Zenon, <2>4 DEF Inv, Placed
      <4>2. promise[c] # "none"
        BY Zenon, <4>1 DEF Inv, Placed
      <4> QED BY Zenon, <2>1, <4>2 DEF Told
    <3>3. /\ runs[<<c, t>>] = 0
          /\ \A u \in Transports : /\ runs[<<c, u>>] \in Nat /\ runs[<<c, u>>] <= 1
                                   /\ net[<<c, u>>] = "none" => runs[<<c, u>>] = 0
      BY Zenon, <1>c, <2>4 DEF Inv, Counted
    <3>4. ASSUME NEW u \in Transports, u # t, net[<<c, u>>] # "none" PROVE c \in fellBack
      BY Zenon, <1>a, <2>4, <3>4 DEF Inv, Placed, Transports
    <3>5. Ran[d] = 0 \/ (Ran[d] = 1 /\ d \in Repeated)
      <4>1. Ran[d] = runs[<<c, "fetch">>] + runs[<<c, "post">>]
        BY Zenon, <2>1 DEF Ran
      <4>2. c \in fellBack => d \in Repeated
        BY Zenon, <2>1 DEF Repeated
      <4> QED BY <1>a, <3>3, <3>4, <4>1, <4>2
    <3>6. runs'[<<c, "fetch">>] + runs'[<<c, "post">>]
            = runs[<<c, "fetch">>] + runs[<<c, "post">>] + 1
      BY <1>a, <1>c, <2>4 DEF OneMore
    <3>7. Ran' = [Ran EXCEPT ![d] = @ + 1]
      BY Zenon, <1>4, <1>6, <1>b, <2>1, <3>6 DEF Ran, d
    <3>8. Remote!Run(d)
      BY Zenon, <1>1, <3>1, <3>2, <3>5, <3>7 DEF Remote!Run, Told, Ran, Done, Repeated
    <3> QED BY Zenon, <2>1, <3>8 DEF Remote!Next
  <2>5. ~ (runs' = runs /\ runs' = OneMore(runs, c, t))
    BY <1>c DEF OneMore
  <2> QED BY Zenon, <1>2, <1>3, <1>6, <2>2, <2>3, <2>4
<1> QED BY Zenon, <1>5, <1>6

\* A settled promise is a resolved or a rejected one, of the call or of the one
\* whose body it fetched.
LEMMA SettleIsRemote ==
  ASSUME TypeOK, CallbacksPaired, Inv, NEW c \in Calls, NEW e \in Ends, Settle(c, e),
         e = "callback" => c \in succeeded,
         e = "error" /\ c \in succeeded => c \in fellBack,
         UNCHANGED <<runs, succeeded, fellBack>>
  PROVE  [Remote!Next]_Remote!vars
<1>1. UNCHANGED <<Ran, Done, Repeated>>
  BY Zenon DEF Ran, Done, Repeated
<1>2. \A x \in Calls :
        \/ promise'[x] = promise[x]
        \/ /\ promise[x] = "pending" /\ promise[c] = "pending"
           /\ promise'[x] = IF e = "callback" THEN "resolved" ELSE "rejected"
           /\ x = c \/ (c.data /\ e = "callback" /\ x = Call(c.cmd))
  BY Settling
<1>3. CASE \A d \in Commands : promise'[Call(d)] = promise[Call(d)]
  <2>1. Told' = Told
    BY Zenon, <1>3 DEF Told
  <2> QED BY Zenon, <1>1, <2>1 DEF Remote!vars, Told, Ran, Done, Repeated
<1>4. ASSUME NEW d \in Commands, promise'[Call(d)] # promise[Call(d)]
      PROVE  Remote!Next
  <2>1. /\ promise[Call(d)] = "pending" /\ promise[c] = "pending"
        /\ promise'[Call(d)] = IF e = "callback" THEN "resolved" ELSE "rejected"
        /\ Call(d) = c \/ (c.data /\ e = "callback" /\ Call(d) = Call(c.cmd))
    BY Zenon, <1>2, <1>4, CallForms
  <2>2. d = c.cmd
    <3>1. c.cmd \in Commands /\ Call(d).cmd = d
      BY Zenon, CallForms
    <3>2. Call(c.cmd).cmd = c.cmd
      BY Zenon, <3>1, CallForms
    <3> QED BY Zenon, <2>1, <3>1, <3>2
  <2>3. \A x \in Commands : x # d => promise'[Call(x)] = promise[Call(x)]
    <3>1. ASSUME NEW x \in Commands, Call(x) = c \/ Call(x) = Call(c.cmd) PROVE x = d
      BY Zenon, <2>2, <3>1, CallForms
    <3> QED BY Zenon, <1>2, <3>1, CallForms
  <2>4. Told' = [Told EXCEPT ![d] = IF e = "callback" THEN "resolved" ELSE "rejected"]
    BY Zenon, <2>1, <2>3 DEF Told
  <2>5. Told[d] = "pending"
    BY Zenon, <2>1 DEF Told
  <2>6. CASE e = "callback"
    <3>1. Call(d) \in succeeded
      <4>1. CASE Call(d) = c
        BY Zenon, <2>6, <4>1
      <4>2. CASE c.data /\ Call(d) = Call(c.cmd)
        <5>1. c = Fetch(d)
          BY Zenon, <2>2, <4>2, CallForms
        <5> QED BY Zenon, <2>6, <5>1 DEF Inv, Earned
      <4> QED BY Zenon, <2>1, <4>1, <4>2
    <3>2. d \in Done
      BY Zenon, <3>1 DEF Done
    <3>3. Remote!Resolve(d)
      BY Zenon, <1>1, <2>4, <2>5, <2>6, <3>2 DEF Remote!Resolve, Told, Ran, Done, Repeated
    <3> QED BY Zenon, <3>3 DEF Remote!Next
  <2>7. CASE e = "error"
    <3>1. d \in Done => d \in Repeated
      BY Zenon, <2>1, <2>7 DEF Done, Repeated
    <3>2. Told' = [Told EXCEPT ![d] = "rejected"]
      BY Zenon, <2>4, <2>7
    <3>3. Remote!Reject(d)
      BY Zenon, <1>1, <2>5, <3>1, <3>2 DEF Remote!Reject, Told, Ran, Done, Repeated
    <3> QED BY Zenon, <3>3 DEF Remote!Next
  <2> QED BY Zenon, <2>6, <2>7 DEF Ends
<1> QED BY Zenon, <1>3, <1>4

\* invoke() implements RemoteCall, for any number of commands, transports that fail
\* and pages that go: it is sent a second time at most once, runs as often as it was
\* sent, and what the page is told is what happened unless it was sent twice, an Ok
\* whose body the page cannot read being told as an error.
THEOREM Refinement == Spec => ImplementsRemoteCall
<1>1. Init => Remote!Init
  <2> SUFFICES ASSUME Init PROVE Remote!Init
    BY Zenon
  <2>1. \A c \in Commands : /\ promise[Call(c)] = "none"
                            /\ Call(c) \notin succeeded /\ Call(c) \notin fellBack
                            /\ runs[<<Call(c), "fetch">>] = 0 /\ runs[<<Call(c), "post">>] = 0
    BY Zenon, CallForms DEF Init, Transports
  <2>2. \A c \in Commands : runs[<<Call(c), "fetch">>] + runs[<<Call(c), "post">>] = 0
    BY <2>1
  <2> QED BY Zenon, <2>1, <2>2 DEF Remote!Init
<1>2. TypeOK /\ CallbacksPaired /\ Inv /\ [Next]_vars => [Remote!Next]_Remote!vars
  <2> SUFFICES ASSUME TypeOK, CallbacksPaired, Inv, [Next]_vars
               PROVE  [Remote!Next]_Remote!vars
    BY Zenon
  <2> USE DEF rust
  <2>1. ASSUME UNCHANGED <<runs, succeeded>>, Repeated' = Repeated,
               \A d \in Commands : promise'[Call(d)] = promise[Call(d)]
        PROVE  [Remote!Next]_Remote!vars
    <3>1. UNCHANGED <<Told, Ran, Done>>
      BY Zenon, <2>1 DEF Told, Ran, Done
    <3> QED BY Zenon, <2>1, <3>1 DEF Remote!vars, Told, Ran, Done, Repeated
  <2>2. ASSUME NEW c \in Calls, NEW k \in Kinds, InvokeCommand(c, k)
        PROVE  [Remote!Next]_Remote!vars
    <3>1. /\ ~c.data /\ promise[c] = "none" /\ promise' = [promise EXCEPT ![c] = "pending"]
          /\ UNCHANGED <<runs, succeeded, fellBack>>
      BY Zenon, <2>2 DEF InvokeCommand, NewCall
    <3>2. c.cmd \in Commands /\ \A d \in Commands : Call(d) \in Calls /\ (Call(d) = c <=> d = c.cmd)
      BY Zenon, <3>1, CallForms
    <3>3. Told[c.cmd] = "none" /\ Told' = [Told EXCEPT ![c.cmd] = "pending"]
      BY Zenon, <3>1, <3>2 DEF Told, TypeOK
    <3>4. UNCHANGED <<Ran, Done, Repeated>>
      BY Zenon, <3>1 DEF Ran, Done, Repeated
    <3>5. Remote!Request(c.cmd)
      BY Zenon, <3>3, <3>4 DEF Remote!Request, Told, Ran, Done, Repeated
    <3> QED BY Zenon, <3>2, <3>5 DEF Remote!Next
  <2>3. ASSUME NEW c \in Calls, FetchFailed(c) PROVE [Remote!Next]_Remote!vars
    <3>1. /\ promise[c] = "pending" /\ c \notin fellBack /\ fellBack' = fellBack \cup {c}
          /\ UNCHANGED <<promise, runs, succeeded>>
      BY Zenon, <2>3 DEF FetchFailed, Inv, Single
    <3>2. c.cmd \in Commands /\ \A d \in Commands : Call(d) = c <=> ~c.data /\ d = c.cmd
      BY Zenon, CallForms
    <3>3. CASE c.data
      <4>1. Repeated' = Repeated
        BY Zenon, <3>1, <3>2, <3>3 DEF Repeated
      <4> QED BY Zenon, <2>1, <3>1, <4>1
    <3>4. CASE ~c.data
      <4>1. /\ c.cmd \notin Repeated /\ Repeated' = Repeated \cup {c.cmd}
        BY Zenon, <3>1, <3>2, <3>4 DEF Repeated
      <4>2. Told[c.cmd] = "pending" /\ UNCHANGED <<Told, Ran, Done>>
        BY Zenon, <3>1, <3>2, <3>4 DEF Told, Ran, Done
      <4>3. Remote!Repeat(c.cmd)
        BY Zenon, <4>1, <4>2 DEF Remote!Repeat, Told, Ran, Done, Repeated
      <4> QED BY Zenon, <3>2, <4>3 DEF Remote!Next
    <3> QED BY Zenon, <3>3, <3>4
  <2>4. ASSUME NEW c \in Calls, HttpResponse(c) PROVE [Remote!Next]_Remote!vars
    <3>1. ResponseEnd(net[<<c, "fetch">>]) \in Ends
      BY Zenon DEF ResponseEnd, Ends
    <3>2. /\ ResponseEnd(net[<<c, "fetch">>]) = "callback" => c \in succeeded
          /\ ResponseEnd(net[<<c, "fetch">>]) = "error" => c \notin succeeded
      BY Zenon, <2>4 DEF HttpResponse, ResponseEnd, Inv, Earned, Single, Placed
    <3> QED BY Zenon, <2>4, <3>1, <3>2, SettleIsRemote DEF HttpResponse
  <2>5. ASSUME NEW s \in Script, RunScript(s) PROVE [Remote!Next]_Remote!vars
    <3>1. s \in scripts /\ s.call \in Calls /\ UNCHANGED <<runs, succeeded, fellBack>>
      BY Zenon, <2>5 DEF RunScript, Script
    <3>2. CASE s.does \in Ends /\ Settle(s.call, s.does)
      <4>1. s.does = "callback" => s.call \in succeeded
        BY Zenon, <3>1 DEF Inv, Earned
      <4>2. s.does = "error" => s = [call |-> s.call, does |-> "error"]
        BY DEF Script
      <4>3. s.does = "error" /\ s.call \in succeeded => s.call \in fellBack
        BY Zenon, <3>1, <4>2 DEF Inv, Single
      <4> QED BY Zenon, <3>1, <3>2, <4>1, <4>3, SettleIsRemote
    <3>3. CASE s.does = "fetch" /\ NewCall(Fetch(s.call.cmd))
      <4>1. Fetch(s.call.cmd) \in Calls
            /\ \A d \in Commands : Call(d) \in Calls /\ Call(d) # Fetch(s.call.cmd)
        BY Zenon, <3>1, CallForms
      <4>2. \A d \in Commands : promise'[Call(d)] = promise[Call(d)]
        BY Zenon, <3>3, <4>1 DEF NewCall, TypeOK
      <4>3. Repeated' = Repeated
        BY Zenon, <3>1 DEF Repeated
      <4> QED BY Zenon, <2>1, <3>1, <4>2, <4>3
    <3> QED BY Zenon, <2>5, <3>2, <3>3 DEF RunScript
  <2>6. CASE Reload \/ DestroyPage
    <3>1. /\ promise' = [c \in Calls |-> IF promise[c] = "pending" THEN "lost" ELSE promise[c]]
          /\ UNCHANGED <<runs, succeeded, fellBack>>
      BY Zenon, <2>6 DEF Reload, DestroyPage, Unload
    <3>2. Told' = [c \in Commands |-> IF Told[c] = "pending" THEN "lost" ELSE Told[c]]
      BY Zenon, <3>1, CallForms DEF Told
    <3>3. UNCHANGED <<Ran, Done, Repeated>>
      BY Zenon, <3>1 DEF Ran, Done, Repeated
    <3>4. Remote!Lose
      BY Zenon, <3>2, <3>3 DEF Remote!Lose, Told, Ran, Done, Repeated
    <3> QED BY Zenon, <3>4 DEF Remote!Next
  <2>7. CASE \/ \E c \in Calls : IsolationMessage(c) \/ IsolationIgnores(c)
             \/ IsolationReady \/ AttachWebview \/ CloseWebview \/ UNCHANGED vars
    <3>1. UNCHANGED <<promise, runs, succeeded, fellBack>>
      BY Zenon, <2>7
        DEF IsolationMessage, IsolationIgnores, IsolationReady, AttachWebview, CloseWebview,
            vars, js
    <3>2. Repeated' = Repeated
      BY Zenon, <3>1 DEF Repeated
    <3> QED BY Zenon, <2>1, <3>1, <3>2
  <2>8. ASSUME NEW c \in Calls, ReceiveFetch(c) \/ RequestLost(c) \/ ReceivePost(c)
        PROVE  [Remote!Next]_Remote!vars
    BY Zenon, <2>8, RustSteps, AnswerIsRemote DEF Transports
  <2>9. ASSUME NEW c \in Calls, NEW t \in Transports, Finish(c, t)
        PROVE  [Remote!Next]_Remote!vars
    BY Zenon, <2>9, RustSteps, AnswerIsRemote
  <2> QED BY Zenon, <2>2, <2>3, <2>4, <2>5, <2>6, <2>7, <2>8, <2>9 DEF Next, Page
<1> QED BY <1>1, <1>2, TypeCorrect, Paired, Invariance, PTL
      DEF Spec, ImplementsRemoteCall, Remote!Spec
=============================================================================
