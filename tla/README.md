# TLA+ models of Tauri

Specifications of the concurrent core of this repository, checked with TLC on small
instances and, where marked, proved with TLAPS for every value of the constants. The
code modelled is the current one under `crates/` and `packages/`; `core/` and
`tooling/` hold older copies of it.

## The system

| part | state | operations | what makes it hard |
|---|---|---|---|
| Rust event listeners (`event/listener.rs`) | table of handlers behind a mutex, queue of pending actions, id counter | listen, once, unlisten, emit, emit_filter, emit_to | called from any thread and from inside the handlers it is calling; never waits for its mutex |
| JavaScript event listeners (`event/`, `manager/`) | listeners per webview, objects in the page | listen_js, unlisten_js, emit_js | two tables, in Rust and in the page, kept in step by evaluated scripts |
| IPC channels (`ipc/channel.rs`, `core.ts`) | index per handle, data queue, messages waiting in the page | send, fetch, the callback of the page | scripts and responses are reordered, the transport fails and retries, pages go away |
| IPC invoke protocol (`ipc/`, `scripts/`) | callbacks and promises of the page, isolation queue, transport flag, resolvers | invoke, on_message, respond, the fallback, the fetch of a body | one promise, up to two transports, up to two runs of the command, and a page that may be gone |
| Command authority (`ipc/authority.rs`, `tauri-utils/Source/acl`) | tables of allowed and denied commands, scopes by id and by plugin, caches by type | resolve_access, add_capability, reading a scope | access and scopes are read under separate locks, with capabilities added in between |
| Windows, webviews, application (`app.rs`, `manager/`, `window/`, `webview/`) | tables by label, plugin store, menus | prepare, attach, close, destroy, reparent, exit, restart | the tables are filled by any thread and emptied by the event loop |
| wry runtime (`tauri-runtime-wry`) | windows by id, proxy queue, control flow | handle_user_message, handle_event_loop | a call is direct on the main thread and a message from any other |
| Resource tables, state, plugin store, scopes | maps behind mutexes | add, get, close, manage, initialize | handlers called under locks |
| Code generation, macros, bundler, CLI, driver, configuration | files | | sequential tools; not modelled |

The parts meet in few places. A command reaches Rust through the invoke protocol, may
carry a channel whose messages travel back as scripts that invoke a command
themselves, and every window and webview event is turned into an event of the event
system by the managers. The application leaves its loop when the last window is gone.

## Modules

| module | models | actions and the code they stand for |
|---|---|---|
| `Listeners` | `event/listener.rs` | a thread's program counter walks through one call: `Invoke`, `TryLockOk`/`TryLockErr`, `InsertPending`, `Apply` (bodies of listen_with_id and unlisten), `CallHandler`, `CallFromHandler`, `HandlerReturns`, `Panic`, `EndDispatch` (loop of emit_filter), `TakePending`, `Replay`, `EndFlush` (flush_pending), `Return` |
| `OrderedChannel` | what a channel promises | `Send`, `Deliver` |
| `Channel` | `ipc/channel.rs`, `core.ts` class Channel, `ipc-protocol.js` | `TakeIndex`, `Intercept`, `Enqueue`, `Eval` (closure of channel_on), `RunScript` (invoke), `Fetch` (the fetch command), `FetchRejected` (fallback to postMessage), `Receive`, `OnMessage`, `OnMessageThrows` (callback of the page), `Load`, `Close` |
| `Lifecycle` | `app.rs`, `manager/`, `window/mod.rs`, `webview/mod.rs`, the store and event loop of `tauri-runtime-wry` | a builder's thread: `PrepareWebview`, `PrepareWindow`, `CreateWindow`, `AddListener`, `InsertWindow`, `InsertWebview`, `FirstWebview`; any thread: `AskWindow` (close, destroy), `Exit`; the main thread: `BuildOnMain`, one `Handle...` per message, `UserCloses`, `Destroyed` and `RemoveWindow` (two halves of one event, with the callback in between), `ExitRequested`, `LoopDestroyed` |
| `RemoteCall` | what `invoke()` promises | `Request`, `Repeat`, `Run`, `Succeed`, `Resolve`, `Reject`, `Lose` |
| `Invoke` | `scripts/core.js`, `ipc.js`, `ipc-protocol.js`, `pattern/isolation.js`; `ipc/protocol.rs`, `ipc/mod.rs`, `Webview::on_message` | the page: `InvokeCommand`, `IsolationReady`, `IsolationMessage`, `IsolationIgnores`, `HttpResponse`, `FetchFailed` (fallback), `RunScript`; Rust: `ReceiveFetch` (protocol::get), `ReceivePost` (handle_ipc_message), both through `OnMessage`, `ReturnResult`, `ForgetResolver`; the webview: `AttachWebview`, `Reload`, `DestroyPage`, `CloseWebview`, `RequestLost` |
| `JsListeners` | `event/`, `Webview::listen_js` and its siblings, `manager/` (emit, close requests), `event.ts` | workers: `Listen`, `ListenEval`, `ListenJs`, `Unlisten`, `UnlistenEval`, `UnlistenJs`, `EmitJs`; the main thread: `HandleEvaluateScript`, `EmitJsMain`, `CloseRequested`, `CloseEmit`; windows: `Create`, `Reload`, `Destroy` |
| `Acl` | `tauri-utils/Source/acl/resolved.rs` | operators: `GetPermissions`, `SetPermissions`, `EntryPermissions`, `Numbered`, `Tables`, `Resolve` |
| `Authority` | `ipc/authority.rs`, the access check of `on_message` | `AddCapability`, `AddCapabilityPanics`, `OnMessage`, `ReadCommandScope`, `CommandScopeRead`, `ReadGlobalScope`, `LockPoisoned`, `Return` |
| `ListenersProofs` | | theorems about `Listeners` |
| `ChannelProofs` | | theorems about `Channel` |
| `LifecycleProofs`, `LifecycleTableProofs` | | theorems about `Lifecycle`: types, the runtime and events; tables and labels |
| `InvokeProofs` | | theorems about `Invoke` |
| `JsListenersProofs` | | theorems about `JsListeners` |
| `AclProofs`, `AuthorityProofs` | | theorems about `Acl`; about `Authority` |
| `MCListeners`, `MCChannel`, `MCLifecycle`, `MCInvoke`, `MCJsListeners`, `MCAuthority` | | constants for TLC |

### Listeners

Each step that another thread can observe is an action: the attempt to take the
mutex, the push on the queue, the update of the table, each handler called, the
release, the taking of the queue, each replay. A call that a handler makes is one
action, because its own thread holds the mutex, `try_lock` fails, and only the push is
observable. What handlers do is unknown: between its call and its return a handler
makes any calls. A replayed emit may call handlers and flush again, so a thread has a
stack of batches. `Queued` keeps what `Pending::Emit` keeps: the arguments without the
filter. A replay that finds the table locked by another thread pushes its action back on
the queue, where it stays until some later emit flushes; `contended` remembers those
calls.

A panic of the closure made by `once` poisons the mutex and drops the batches its
thread was replaying; a panic in a user's own handler would do the same and is left
out. Ids wrap at `IdModulus`; the assumption `MaxCalls <= IdModulus` keeps behaviours
below a second use of the same id.

### Channel

`sending` holds the sends that have taken their index, `flight` the messages from the
data queue to the page, one stage after another. `Enqueue` is atomic: the data id is
private to the send until the script mentions it. `Eval` and `RunScript` take
messages in any order: scripts of the main thread overtake those that other threads
put in the proxy queue. A page that is closing or being replaced loses what is in
flight, and leaves what is in the data queue. `packages/api/Source/core.ts` contains the
remains of a merge after line 113; the class modelled is lines 77 to 112, the one in
the bundled `scripts/bundle.global.js`.

### Lifecycle

There are two records of the windows: the managers' tables by label (`windows`,
`webviews`), which any thread reads and fills, and the runtime's store by id (`store`),
which only the main thread touches. `queue` is the event loop proxy, first in first out.
A thread that builds a window sends `CreateWindow` and two `AddEventListener` messages
and fills the tables without waiting for an answer; every lock it takes and every
message it sends is an action. On the main thread a message is handled at once, except
that `on_window_event` and `on_webview_event` use the proxy; `BuildOnMain` is one action,
so a race between it and a thread that uses the same label is not explored (the run
`lifecycle_labels` shows that race between two threads).

A creation may fail, which the code only logs. `on_close_requested` may be prevented by
a listener or by the callback of `run`; both are a choice. Every window is a webview
window. `BuildOnMain` may happen at any point, as callbacks run at any point of the
event loop, the one for `Destroyed` and `ExitRequested` included.

External, taken from how the runtime uses tao: a window is reported `Destroyed` after
its native part is dropped (`native` holds those still to be reported); messages and
events may still be handled after `ControlFlow::Exit` and before `LoopDestroyed`; the
process ends after that.

`on_window_close` locks the two tables one after the other; `ForgetWindow` is one step.

The variables `attached`, `closed`, `late`, `failed` and `prevented` are history: no
guard reads them. `requests` only counts calls against its bound.

### Invoke

A call is `[cmd, data]`: with `data` it is the nested call by which a page fetches the body
of an answer that came as a script. `stage` is where the page's side of a call stands,
`net` where its message stands on each of the two transports, `window` the callbacks that
are properties of the page's `window`. `SendIpcMessage` is the function of that name: it
is called first by `Ipc` or by the isolation frame, and a second time by `FetchFailed`,
which may happen whether or not the Rust side received, ran or answered the request. So
one call may be received twice, and its two answers race.

The choices: `kind`, whether the message can be parsed and has the invoke key; whether
`on_message` rejects (no permission, or no such command: `Authority` says when the first
happens); what the command returns (`Answers`: an error, a body, or a `Json` body that is no
JSON, which the page cannot read, or which `format_callback` turns into an error), whether it
ever does, and whether its body is one that
is sent over a channel (`large`: JSON objects, arrays and raw bytes, except on macOS and
iOS); whether the isolation frame sends a message on or ignores it, as it does with a payload
that looks encrypted and when its hook throws or never settles; and, in `Init`, whether the system is Android and whether the isolation pattern is
used. The page can call `invoke` before `attach_webview` has put its webview in the table,
and after `on_webview_close` has taken it out. Callback ids are random 32-bit numbers and
are taken to be distinct. The queue in `core.js` for calls made before `ipc` is defined is
left out, because the script that defines it runs first; so are the removal of the isolation
frame by the page, and a payload that cannot be serialised, where `invoke` throws before
anything is sent. `runs`, `taken`, `succeeded` and `fellBack` are history.

`RemoteCall` is the same seen from the page: a promise, how often its command ran, whether a
run succeeded, whether the request was repeated. A command runs at most once, or twice if the
request was repeated; a promise is resolved only if a run succeeded, and rejected although
one did only if the request was repeated. A run whose body the page cannot read counts as one
that failed. `ImplementsRemoteCall` maps the promise of a
command's own call, the runs on both transports together, and `fellBack`; transports,
callbacks, the isolation frame, bodies and the nested calls that fetch them are hidden.

### JsListeners

The table `js_event_listeners` is one set of listeners, each with its id, the webview and
page it was made in, its event and target. `objects` is the listeners object of each
page. `listen_js` is three steps of a worker: `Listen` takes the id, `ListenEval` sends
the script, `ListenJs` makes the entry; `unlisten_js` likewise. `loop` is the event loop
proxy, one queue per webview, since scripts of different webviews commute. The main thread
evaluates at once, so `EmitJsMain` and `CloseEmit` overtake `loop`. `CloseRequested` and
`CloseEmit` are the two looks at the table that `on_window_event` takes. A script that
reaches a page other than the one that made the listener installs an object without a
handler (`window['_n']` is undefined there); `AtHome` tells the two apart. Nothing removes
the entries of a page that is gone, neither in the model nor in the code. The page calls
the handlers of an emission in a loop without a catch, so a handler that throws ends it:
`Reached` is the choice of those that are called, and what is behind a throw in a webview is
missed (`cut`). `emit` lists the webviews just before it reads the table; `EmitJs` is one step.

`heard`, `missed`, `swallowed` and `leaving` are history; `leaving` is also read by the
guard of `Unlisten`, so that a page unlistens once. Payloads are left out. Rust listeners,
which `emit` calls after the pages, are those of `Listeners`.

### Acl and Authority

`Acl` translates `Resolved::resolve`. An error is the member `Unknown` of the permissions
found; a glob or URL that does not parse is an error or a panic too, which is reached only
where the capability gives a permission with commands (`PatternsParse`, `Resolves`). Patterns
that parse are the sets of labels and URLs they match. A command is the pair of its plugin's
and its own name: `Plugin` takes the prefix `core:` off the key of a manifest, as
`Resolved::resolve` does for commands but not for global scopes, so a core plugin never reads
the global scope its manifest is given. A scope is a set of values, so a value extended twice is
the same as once. That a set may contain itself is left out: the code would not return.

`Authority` has the tables and the caches. `OnMessage` resolves the access under the lock;
each later `ReadCommandScope` locks again, for one scope id, and finds whatever the
capabilities added meanwhile have made of it. `AddCapability` is one action, as it runs
under the lock; a file that does not resolve panics there and poisons it. A caller of
add_capability that finds the lock poisoned panics without any other effect and is left
out. As in the code, an entry in `denied_commands` denies the command for every origin and
window, the command that fetches the body of a channel's message is not checked, ids of each resolution start at 1, and the global cache has one value per type. `PluginApi::scope`, by which a plugin reads its global scope outside a command, is
not modelled.

What the capabilities mean is said a second time, without traversal: `Reached` is
membership in every set of permissions that is closed under the members of its sets. The
properties compare the tables, and what threads read, with that.

## Runs

| run | configuration | result |
|---|---|---|
| `listeners_threads` | two threads, one event, one target, four calls | `TypeOK`, `IterationIsStable`, `ReentrantCallsGetFlushed`, `NothingLostOrDoubled`, `CallsReturn` hold; about 187 000 states |
| `listeners_once` | one thread, three calls | violated: a once-handler that emits its own event is called again and panics |
| `listeners_filter` | one thread, two labels, four calls | violated: a queued emit_to reaches every target |
| `listeners_unlisten` | two threads, four calls | violated: unlisten before the flush of its listen has no effect |
| `channel` | two channels, three messages, one page load | `TypeOK`, `InOrder`, `Accounted`, `QueueIsFetched`, `Delivered`, `ImplementsOrderedChannel` hold; about 200 000 states |
| `channel_shared` | one channel passed to two commands | violated: two sequences of indices reach one channel |
| `lifecycle` | one thread and the main thread, a label each, two windows, one request | `TypeOK`, `LabelsAreUnique`, `OpenWindowsAreManaged`, `EntriesHaveWindows`, `EventsAreHeard`, `EntriesAreNotTaken`, `PanicsOnlyIfDestroyed`, `DestroyTakesEffect`, `EndsWithLastWindow` hold; about 110 000 states |
| `lifecycle_labels` | two threads, the same label | violated: both find the label free, and two windows of that label exist |
| `invoke` | two calls and one page, or one call and two pages; one call of any kind | `TypeOK`, `CallbacksPaired`, `RunsOncePerTransport`, `ResponderTakenOnce`, `ResolvedBySuccess`, `BodyFetched`, `Settles`, `ImplementsRemoteCall` hold; about 137 000 states |
| `js_listeners` | two labels; two listeners and one emission or close request, or one and two | `TypeOK`, `NothingMissed`, `CloseHeard`, `RightListener`, `NoDeafListener`, `UnlistenTakesEffect` hold; about 446 000 states |
| `authority` | two plugins, five files of capabilities, two of them added, nine requests, two types, two threads | `TypeOK`, `AccessAsDeclared`, `ScopeComplete`, `ScopeExact`, `GlobalScopeOwn`, `NoPanic` hold; about 324 000 states up to the symmetry of threads |
| `authority_denied` | the same | violated: a denial for a remote page denies the command to the local one |

Bounds. Four calls are enough for a listener, an emit that dispatches it, an action
queued by its handler and one of the other thread in between, and for a nested replay.
Three messages on one handle let the last overtake both others and the first come
last; two and one let two channels share the data queue. An instance with four messages
(three and one, six million states) was checked once and passes as well. Two windows
let a label be built, destroyed and built again, and let the last window be destroyed
while the creation of another is queued; an instance with three windows (940 000 states)
was checked once and passes as well. Two calls in a page share the flag
`customProtocolIpcFailed` and the isolation queue; one call and two pages let every answer
come to the wrong page; nested calls are not counted, and one of the two commands answers with
a body that is no JSON. Two listeners can be one of a page
and one of its successor, or of the other window; two emissions let one call a
once-listener that the first has already begun to remove. `Authority`'s files are one with
scopes that meet the ids already used and a global scope that one type cannot parse, one
with a global scope and a bad glob that goes unnoticed, one with a denial for a remote page,
and two that do not resolve, for an unknown name and for a bad glob; one plugin is a core
plugin, and one of its sets names a set of the other.

Deadlock is not checked: once the bound on calls, messages or windows is used up, and
every call has returned, the system may stop; an application that has ended stops too.

Fairness. `Listeners`: every thread that is inside a call goes on (the operating
system schedules it), and a handler returns. The bound makes the number of calls that
handlers make finite, so `CallsReturn` shows that nobody waits for ever, not that handlers
which queue without end let a flush return. `Channel`: a send under way and the page's
event loop go on. `Delivered` excludes the cases in which the code gives a message up
(interceptor, closed webview, another page, throwing handler, error response).
`Lifecycle`: the event loop turns, so a queued message is handled, the window system
reports what it destroyed, and callbacks return. Nothing is assumed of the builders or of
the user. `EndsWithLastWindow` excludes an application that prevented an exit.
`Invoke`: the isolation frame becomes ready, requests, responses, messages and scripts are
delivered, and a command answers or gives its resolver up; nothing is assumed of new calls
or of the custom protocol failing. `Settles` names the ways a call is abandoned.
`JsListeners`: the event loop handles its messages, and the worker of a command that was
begun goes on; nothing is assumed of pages, emissions and windows.

## Proofs

`ListenersProofs`, for any threads, events, targets, filters and bounds. `TypeCorrect`,
`DispatchOwnsTable` (`IterationIsStable`) and `NoReentrantCallStranded`
(`ReentrantCallsGetFlushed`) follow from one inductive invariant: a thread that is
trying, pushing, applying or dispatching has a call in hand of the kind its place
requires (`CallInHand`); a thread that is applying or dispatching holds the mutex, and
inside a handler it has set `maybe_pending` (`HoldsLock`). The last is what makes
`ReentrantCallsGetFlushed` inductive: a push by a handler happens where a flush is
already certain. A call that was pushed back by a replay has met another thread at the
table (`MetAnother`), the exception the property names. `ExactlyOnce` (`NothingLostOrDoubled`) follows one call (`OnePlace`): it is
in the hand of one thread, at one position of the queue, or at one position of one batch of
`flush_pending`, never in two of these, in none before it is made and after it was carried
out, and in one in between unless a handler panicked. The property counts; the invariant
needs no cardinalities, which is why it is stated for each call on its own.

`ChannelProofs`, for any handles, channels and bounds. `TypeCorrect` needs no more than the
types, and `QueueEmptied` (`QueueIsFetched`) is inductive with them. `OrderPreserved`,
`Refinement` and `AllAccounted` (`Accounted`) assume `OneHandlePerChannel`; without it the run
`channel_shared` shows the first fails. The invariant says: data ids are below the counter,
and an entry of the data queue belongs to the message that carries its id (`DataInv`), so a
response can only be the message's own body; a message on its way is one and not yet
delivered (`TransitInv`); pending messages are under their own index, which is not yet passed
(`PendingInv`); the running call is the one whose turn it is (`RunningInv`); `nextMessageId`
equals what was delivered, or one less after a throw (`CountInv`). `AllAccounted` adds that a
message given up is nowhere else (`LostInv`) and that every index taken is somewhere
(`CoverInv`).

`LifecycleProofs` and `LifecycleTableProofs`, for any threads, labels and bounds. `TypeCorrect` and `EventsHeard` hold whatever labels the builders use;
`UniqueLabels`, `OpenWindows`, `Entries`, `NotTaken` and `OnlyDestroyedPanic` assume
`OwnLabels`, that no two builders, the main thread among them, share a label. Without it the run `lifecycle_labels` shows the
first fails. The argument:

- ids are fresh: what the store, the queue and the tables name was taken from the counter,
  and a window is created once (`FreshInv`); a window still to be reported destroyed is in
  the store without its native part (`NativeInv`);
- the place of a builder tells which tables its window is in (`PlaceInv`);
- a listener is behind its window in the queue, because the builder sends both, in that
  order, and the proxy keeps order (`OrderInv`, `HeardInv`); this gives `EventsHeard`;
- a living window (in the store and not reported destroyed, or its creation still queued)
  is in the hands of its builder or attached to both tables (`OwnedInv`), where it is
  attached it is found under its label, and it is the only one of that label
  (`ManagedInv`); while a builder holds a label, no living window but its own has it
  (`HeldInv`, from `OwnLabels`);
- an entry of a table was attached by its builder (`AttachedInv`);
- the label that `prepare_webview` and `prepare_window` found vacant is still vacant when
  `attach_window` and `attach_webview` fill it (`VacantInv`). So an entry is not overwritten,
  and the `Destroyed` event, which removes by label, finds the entry of its own window or
  none: `NotTaken` (`EntriesAreNotTaken`);
- between `attach_webview` and `with_webview` the builder's webview is in the table or its
  window was destroyed (`FirstInv`, by `NotTaken`), so `unwrap` panics in no other case:
  `OnlyDestroyedPanic` (`PanicsOnlyIfDestroyed`).

`UniqueLabels` needs all of what is said of living windows: a builder finds a label free
only if no living window has it. The invariants were also checked by TLC on the
instance of `lifecycle`.

`InvokeProofs`, for any commands, kinds and bounds, and any setting of `canUseCustomProtocol`
and `isolation`. `Paired` needs only that a call is new once. For the others the invariant
says: a message is on a transport only after the page sent it there, on both only after the
fallback, and the nested call exists only after the script that makes it (`Placed`); nothing
runs before it is received and no responder is taken before that (`Counted`, which gives
`RunsOnce` and `TakenOnce`); an ok response, a script that calls the success callback, and
the nested call itself, are left behind only by a success (`Earned`, which gives `Resolved`);
a body stays in the queue until the nested call is answered, so an error answer to it means
it was repeated, and a failure that the webview was closed, as it was attached before
(`Stored`, which gives `Fetched`).

`Refinement` shows that `Invoke` implements `RemoteCall` (`ImplementsRemoteCall`). It needs one
more invariant (`Single`): what is on its way to the isolation frame or over the custom
protocol is still pending and was not repeated; a success is what its transport was answered
with; and a call that was sent once and is rejected did not succeed and never will, as neither
transport still carries it. Each action of `Invoke` is then one action of `RemoteCall`
or a stutter: `AnswerIsRemote` for the Rust side, `SettleIsRemote` for the page, where the
nested call settles the promise of the call it was made for.

`JsListenersProofs`, for any labels, listeners, targets and bounds. The argument:

- an id names one listener, in the table, in every page and in every message (`Ids`), and
  a script is in the queue of the webview of the listeners it names, which match its event
  and target (`Sites`); together they give `OnlyRight`, as the page looks up by id alone;
- a handler, or the listen script that brings it, was entered, will be, or was let go of
  (`Backed`); this is `NoneDeaf`;
- a listener of the page on show that can be named is installed, or its listen script is
  in the loop ahead of every script that names it (`Ready`): `ListenEval` comes before
  `ListenJs`, and the loop keeps order; this gives `NoneMissed`, where a handler that throws
  is the one other way to miss an emission (`Reaching`);
- an entry that prevented a close request stays until the page lets go of it (`Seen`), so
  the second look at the table finds it and, by `Ready`, so does the page: `CloseTold`.

`AclProofs`, for any manifests and capabilities. It assumes (`AclAssumption`) that no name is
both a permission and a set of one manifest, that only the manifest of the application itself
has its name, and that no set contains itself through the sets
it names (the code would not return); the sets are then ranked by depth, and the recursion of
`get_permission_set_permissions` goes down the ranks (`Ranked`). The recursive functions are
shown to be what their definitions say by induction in set form: the numbers of which a
statement holds contain 0 and every successor (`NatInd`, from the well-foundedness of `<`).
From there:

- the traversal of a set collects the permissions that are reached from it, by the definition
  of `Reached` without traversal (`TraversalIsReachability`);
- `ResolvedAsDeclared`: what `Resolved::resolve` collects are the permissions that a direct
  reading of the capabilities gives;
- `ResolutionTables`: its tables say the same, and every scope id leads to the scope of the one
  permission it was counted for (`NumbersDiffer`);
- `ErrorsAreReached`: it ends in an error exactly when an entry of an active capability
  names nothing, or reaches a set that lists an unknown name, or the capability has a
  pattern that does not parse and gives some permission with commands. This is the guard of
  `AddCapability` and `AddCapabilityPanics`, read without the traversal.

`AuthorityProofs`, for any files, requests, types, threads and number of added capabilities,
from the assumptions of `Acl` and `AuthorityAssumption` (the application's own capabilities
resolve, and the plugin of the channels has no manifest). The invariant `IInv`: every scope id in the tables has its scope (`TablesInv`); for
each request the tables grant what the added capabilities grant, every granted scope is
within that of a matching entry, and is exactly it while nothing was added (`GrantsInv`); the
global scope of a plugin is the union of what the capabilities give it (`GlobalInv`); a cached
scope is the one it was read from (`CachesInv`, which needs `add_capability` to renew the
caches); a call under way has read, or can still read through the ids it has left, all that was
granted when its access was resolved, whatever was added since (`ThreadInv`). It gives
`TypeCorrect`, `AccessIsDeclared`, `ScopesAreComplete`, `ScopesAreExact`, `GlobalScopeIsOwn` and
`NeverPanics`, the six properties of the run `authority`.

Only model-checked: the liveness properties `CallsReturn`, `Delivered`, `DestroyTakesEffect`,
`EndsWithLastWindow`, `Settles` and `UnlistenTakesEffect`, as fairness is out of the prover's
reach. Every other property of a passing run has its theorem.

## Findings

1. A once-handler that emits its own event panics (`listener.rs:158`).
2. A filtered emit made while the table is locked loses its filter (`listener.rs:183`).
3. An unlisten that comes before the flush of its listen is forgotten
   (`listener.rs:166`).
4. A page channel passed to two commands gets two interleaved numberings
   (`channel.rs:105`).
5. Two threads can build two windows of one label: it is checked in `prepare_window`
   (`manager/window.rs:71`) and taken in `attach_window` (`manager/window.rs:111`).
6. A denial applies everywhere: `resolve_access` computes whether the origin matches a denied
   entry and then asks whether it computed anything (`authority.rs:550`). Beyond that, access
   is as the capabilities say (`AccessAsDeclared`).

Met while modelling, and named as exceptions in properties or
as hazards in `PROJECT.json` instead of by runs of their own: an action that a handler queued is left behind when its
replay meets another thread's lock (`ReentrantCallsGetFlushed`); `with_webview` panics when the
window is destroyed before it fetches the webview (`window/mod.rs:328`,
`PanicsOnlyIfDestroyed`); a handler in the page that throws keeps an emission from those behind
it (`NothingMissed`); entries of pages that are gone stay in
`js_event_listeners` and can prevent a window from closing (`CloseHeard`); the JavaScript
`once` may call its handler twice (`event.ts:157`); scope ids of added capabilities join
those already in use (`ScopeExact`); the cache of global scopes is shared by plugins that
use the same type (`GlobalScopeOwn`); `add_capability` panics on a file that does not
resolve (`NoPanic`).

## Not modelled

- Of the life cycle and the wry runtime: child webviews and reparenting, window menus,
  plugin hooks, `restart`, and the getters and setters of windows. The tables, the store and
  the queue of `Lifecycle` are the ones they share; each would be a further family of
  messages and proofs over them.
- File system scopes, path resolution, the asset and `tauri` protocols: pattern and string
  handling, and I/O, without a protocol between several steps.
- Resource tables, and the state manager beyond its use as a cache: one map behind one
  mutex, every operation one step; properties of them would restate the map.
- Plugin store, menus and tray icons: user code and native widgets called under a lock.
- The width of counters (`next_event_id`, `CHANNEL_DATA_COUNTER`): what happens after 2^32
  registrations or messages is out of reach of the instances.
- Mobile bridges: native code.
- Configuration, code generation, macros, bundler, command line and driver: sequential
  tools that read and write files.
