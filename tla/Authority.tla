----------------------------- MODULE Authority -----------------------------
(***************************************************************************)
(* RuntimeAuthority: which commands a webview may call, and with which     *)
(* scopes.  The authority is built from the capabilities known when the    *)
(* app was compiled; add_capability adds to it while it runs.  A command   *)
(* resolves its access in on_message under the authority's lock, and reads *)
(* its scopes later, locking again for each scope id: capabilities may be  *)
(* added in between.  Scopes are read through caches, one value per type   *)
(* the scope is deserialized to.                                           *)
(*                                                                         *)
(* add_capability unwraps a failed resolution while it holds the lock.     *)
(***************************************************************************)
EXTENDS Acl

CONSTANTS
  Base,      \* the capabilities the app is compiled with, in order
  Files,     \* the sequences of capabilities that may be added
  Requests,  \* [cmd, window, webview, origin, wants, type]: calls and what they read
  Types,     \* types that scopes are deserialized to
  Parses,    \* Parses[T]: the values T::deserialize accepts
  Threads,   \* threads commands run on
  MaxAdds    \* bound: calls of add_capability

VARIABLES
  allowed_commands, denied_commands,   \* command -> sequence of resolved commands
  command_scope, global_scope,         \* scope id, key -> scope, for those present
  command_cache,                       \* scope id -> cached values, by type
  global_scope_cache,                  \* cached values, by type
  poisoned,                            \* a thread panicked while it held the lock
  thread,                              \* what each thread does for its call
  added,                               \* history: the capabilities resolved so far
  adds,                                \* number of add_capability calls
  failed                               \* history: a file did not resolve

vars == <<allowed_commands, denied_commands, command_scope, global_scope, command_cache,
          global_scope_cache, poisoned, thread, added, adds, failed>>

tables == <<allowed_commands, denied_commands, command_scope, global_scope, command_cache,
            added, adds, failed>>

\* The command that fetches the body of a channel's message.
ChannelPluginName == "__TAURI_CHANNEL__"
FetchChannelDataCommand == [key |-> ChannelPluginName, name |-> "fetch"]

\* All capabilities there are.
Capabilities == Range(Base) \cup UNION {Range(f) : f \in Files}

ASSUME AuthorityAssumption ==
  /\ MaxAdds \in Nat
  /\ Parses \in [Types -> SUBSET Values]
  /\ \A f \in Files \cup {Base} : IsSequence(f)
  /\ \A c \in Capabilities : /\ IsSequence(c.permissions) /\ IsSequence(c.remote)
                            /\ \A e \in Range(c.permissions) : e.scope \in Scope
  /\ Resolves(Base)
  /\ \A r \in Requests : r.type \in Types /\ r.cmd = [key |-> r.cmd.key, name |-> r.cmd.name]
  \* the plugin of the channels has no manifest
  /\ \A k \in Keys : Plugin[k] # ChannelPluginName

Empty == [x \in {} |-> x]
EmptyScope == [allow |-> {}, deny |-> {}]

\* f with the entry for x replaced or added.
Put(f, x, v) == [y \in DOMAIN f \cup {x} |-> IF y = x THEN v ELSE f[y]]

\* f joined with g, by Merging the entries of both.
JoinScopes(f, g) ==
  [x \in DOMAIN f \cup DOMAIN g |->
    MergeAll((IF x \in DOMAIN f THEN {f[x]} ELSE {}) \cup (IF x \in DOMAIN g THEN {g[x]} ELSE {}))]

----------------------------------------------------------------------------
\* Adding capabilities.

\* What the capabilities of the app, and of each file, resolve to.
Resolvable == {f \in Files \cup {Base} : Resolves(f)}
Resolution == [f \in Resolvable |-> Resolve(f)]

\* The scope ids the allowed commands of a resolution refer to.
ScopesAllowed(resolved) ==
  (UNION {{r.scope_id : r \in Range(resolved.allowed[c])} : c \in Commands}) \ {NoScopeId}

\* The tables and scopes grow by what was resolved.
Extend(resolved) ==
  /\ global_scope' = JoinScopes(global_scope, resolved.global_scope)
  /\ denied_commands' = [c \in Commands |-> denied_commands[c] \o resolved.denied[c]]
  /\ command_scope' = JoinScopes(command_scope,
                        [n \in ScopesAllowed(resolved) |-> resolved.command_scope[n]])
  /\ allowed_commands' = [c \in Commands |-> allowed_commands[c] \o resolved.allowed[c]]

\* Mutant: the caches keep what was cached before.
KeepCaches(resolved) ==
  /\ global_scope_cache' = global_scope_cache
  /\ command_cache' = [n \in DOMAIN command_cache \cup ScopesAllowed(resolved) |->
                         IF n \in DOMAIN command_cache THEN command_cache[n] ELSE Empty]

\* Mutant: a scope id that is new gets no cache.
ResetKnownCaches(resolved) ==
  /\ global_scope_cache' = IF resolved.global_scope = Empty THEN global_scope_cache ELSE Empty
  /\ command_cache' = [n \in DOMAIN command_cache |->
                         IF n \in ScopesAllowed(resolved) THEN Empty ELSE command_cache[n]]

\* The caches of what grew are new.
ResetCaches(resolved) ==
  /\ global_scope_cache' = IF resolved.global_scope = Empty THEN global_scope_cache ELSE Empty
  /\ command_cache' = [n \in DOMAIN command_cache \cup ScopesAllowed(resolved) |->
                         IF n \in ScopesAllowed(resolved) THEN Empty ELSE command_cache[n]]

\* add_capability of capabilities that resolve.
AddCapability(file) ==
  /\ ~poisoned
  /\ adds < MaxAdds
  /\ adds' = adds + 1
  /\ file \in Resolvable
  /\ \E resolved \in {Resolution[file]} : Extend(resolved) /\ ResetCaches(resolved)
  /\ added' = added \cup Range(file)
  /\ UNCHANGED <<poisoned, thread, failed>>

\* One that does not resolve, or cannot even be built from its text: the unwrap, or
\* the expect in build, panics with the lock held.
AddCapabilityPanics(file) ==
  /\ ~poisoned
  /\ adds < MaxAdds
  /\ adds' = adds + 1
  /\ file \notin Resolvable
  /\ poisoned' = TRUE
  /\ failed' = TRUE
  /\ UNCHANGED <<allowed_commands, denied_commands, command_scope, global_scope,
                 command_cache, global_scope_cache, thread, added>>

----------------------------------------------------------------------------
\* Commands.

\* The entry is for the place r is called from.
Matches(a, r) == r.origin = a.context /\ (r.webview \in a.webviews \/ r.window \in a.windows)

\* resolve_access: a command that no permission names has no entry; an entry of
\* denied_commands denies the command everywhere (the origin is looked at, the
\* outcome is not); else the matching allowed entries.
ResolveAccess(r) ==
  IF r.cmd \notin Commands \/ denied_commands[r.cmd] # <<>> THEN <<>>
  ELSE Only(allowed_commands[r.cmd], {a \in Range(allowed_commands[r.cmd]) : Matches(a, r)})

Idle == [at |-> "idle"]

\* The scope ids of the entries, in order.
ScopeIds(entries) ==
  LET scoped == Only(entries, {e \in Range(entries) : e.scope_id # NoScopeId})
  IN  [i \in DOMAIN scoped |-> scoped[i].scope_id]

\* Commands of the app are checked only if the app has a manifest, the fetching of a
\* channel's message never.
Checked(r) ==
  /\ r.cmd.key # AppAclKey \/ AppAclKey \in Keys
  /\ r.cmd # FetchChannelDataCommand

\* on_message: the access of the command is resolved; it is called or rejected.
OnMessage(t, r) ==
  /\ thread[t] = Idle
  /\ ~poisoned
  /\ thread' = [thread EXCEPT ![t] =
       IF Checked(r) /\ ResolveAccess(r) = <<>> THEN [at |-> "rejected", request |-> r]
       ELSE [at |-> "reading", request |-> r, ids |-> ScopeIds(ResolveAccess(r)),
             read |-> EmptyScope, since |-> added]]
  /\ UNCHANGED <<global_scope_cache, poisoned, tables>>

\* A thread takes the lock another thread poisoned.
LockPoisoned(t) ==
  /\ poisoned
  /\ \/ thread[t] = Idle
     \/ thread[t].at = "reading" /\ thread[t].request.wants = "global"
     \/ thread[t].at = "reading" /\ thread[t].request.wants = "command" /\ thread[t].ids # <<>>
  /\ thread' = [thread EXCEPT ![t] = [at |-> "panicked"]]
  /\ UNCHANGED <<global_scope_cache, poisoned, tables>>

Reading(t, wants) == thread[t].at = "reading" /\ thread[t].request.wants = wants

\* Every value of the scope deserializes to T.
AllParse(T, scope) == scope.allow \cup scope.deny \subseteq Parses[T]

Fail(t) == [thread EXCEPT ![t] = [at |-> "failed", request |-> thread[t].request]]

\* CommandScope::resolve, for the next scope id: get_command_scope_typed.  A
\* missing id panics with the lock held; a value that does not parse fails the
\* call and is not cached.
ReadCommandScope(t) ==
  LET id == Head(thread[t].ids)
      T  == thread[t].request.type
      present == id \in DOMAIN command_cache /\ (T \in DOMAIN command_cache[id] \/ id \in DOMAIN command_scope)
      cached  == T \in DOMAIN command_cache[id]
      scope   == IF cached THEN command_cache[id][T] ELSE command_scope[id]
  IN  /\ Reading(t, "command")
      /\ ~poisoned
      /\ thread[t].ids # <<>>
      /\ IF ~present
         THEN /\ poisoned' = TRUE
              /\ thread' = [thread EXCEPT ![t] = [at |-> "panicked"]]
              /\ UNCHANGED command_cache
         ELSE /\ UNCHANGED poisoned
              /\ IF cached \/ AllParse(T, scope)
                 THEN /\ thread' = [thread EXCEPT ![t].ids = Tail(@),
                                                  ![t].read = MergeAll({@, scope})]
                      /\ command_cache' = Put(command_cache, id, Put(command_cache[id], T, scope))
                 ELSE /\ thread' = Fail(t)
                      /\ UNCHANGED command_cache
      /\ UNCHANGED <<allowed_commands, denied_commands, command_scope, global_scope,
                     global_scope_cache, added, adds, failed>>

\* The command has all of its scopes.
CommandScopeRead(t) ==
  /\ Reading(t, "command")
  /\ thread[t].ids = <<>>
  /\ thread' = [thread EXCEPT ![t].at = "done"]
  /\ UNCHANGED <<global_scope_cache, poisoned, tables>>

\* GlobalScope::resolve: get_global_scope_typed.  The scope is looked for under the
\* plugin's name, which is the key of its manifest unless the key has the prefix
\* `core:'.  The cache holds one value for a type, whatever the plugin.
ReadGlobalScope(t) ==
  LET key == thread[t].request.cmd.key
      T   == thread[t].request.type
      scope == IF T \in DOMAIN global_scope_cache THEN global_scope_cache[T]
               ELSE IF key \in DOMAIN global_scope THEN global_scope[key] ELSE EmptyScope
  IN  /\ Reading(t, "global")
      /\ ~poisoned
      /\ IF T \in DOMAIN global_scope_cache \/ AllParse(T, scope)
         THEN /\ thread' = [thread EXCEPT ![t].at = "done", ![t].read = scope, ![t].since = added]
              /\ global_scope_cache' = Put(global_scope_cache, T, scope)
         ELSE /\ thread' = Fail(t)
              /\ UNCHANGED global_scope_cache
      /\ UNCHANGED <<poisoned, tables>>

\* The call is over and the thread is free.
Return(t) ==
  /\ thread[t].at \in {"done", "rejected", "failed"}
  /\ thread' = [thread EXCEPT ![t] = Idle]
  /\ UNCHANGED <<global_scope_cache, poisoned, tables>>

\* RuntimeAuthority::new.
Init ==
  /\ \E resolved \in {Resolution[Base]} :
       /\ allowed_commands = resolved.allowed
       /\ denied_commands = resolved.denied
       /\ command_scope = resolved.command_scope
       /\ global_scope = resolved.global_scope
       /\ command_cache = [n \in DOMAIN resolved.command_scope |-> Empty]
  /\ global_scope_cache = Empty
  /\ poisoned = FALSE
  /\ thread = [t \in Threads |-> Idle]
  /\ added = Range(Base)
  /\ adds = 0
  /\ failed = FALSE

Next ==
  \/ \E f \in Files : AddCapability(f) \/ AddCapabilityPanics(f)
  \/ \E t \in Threads, r \in Requests : OnMessage(t, r)
  \/ \E t \in Threads : \/ LockPoisoned(t) \/ ReadCommandScope(t) \/ CommandScopeRead(t)
                        \/ ReadGlobalScope(t) \/ Return(t)

Spec == Init /\ [][Next]_vars

----------------------------------------------------------------------------
\* What the capabilities grant.

\* The capability is for the place r is called from.
IsFor(c, r) ==
  /\ c.active
  /\ r.origin \in Range(Contexts(c))
  /\ r.webview \in c.webviews \/ r.window \in c.windows

Given == [c \in Capabilities |-> GivenBy(c)]

ScopeOf(g) == Merge(g.scope, Permission(g.permission).scope)

\* The scopes of the permissions that allow r.
GrantedBy == [c \in Capabilities |-> [r \in Requests |->
  {ScopeOf(g) : g \in {g \in Given[c] : /\ IsFor(c, r)
                                        /\ Plugin[g.permission.key] = r.cmd.key
                                        /\ r.cmd.name \in Permission(g.permission).allow}}]]

GrantedScopes(caps, r) == UNION {GrantedBy[c][r] : c \in caps}

\* c denies the command of r, in some context.
DeniesCommand == [c \in Capabilities |-> [r \in Requests |->
  /\ Contexts(c) # <<>>
  /\ \E g \in Given[c] : /\ Plugin[g.permission.key] = r.cmd.key
                         /\ r.cmd.name \in Permission(g.permission).deny]]

\* c denies r, where it is called from.
Denies(c, r) == DeniesCommand[c][r] /\ IsFor(c, r)

\* The scopes of the permissions without commands that c gives for a key.
GlobalGiven == [c \in Capabilities |-> [k \in {r.cmd.key : r \in Requests} |->
  {ScopeOf(g) : g \in {g \in Given[c] : g.permission.key = k /\ IsGlobal(Permission(g.permission))}}]]

----------------------------------------------------------------------------
\* Properties.

ResolvedCommand == [context : {"local"} \cup UNION {Range(c.remote) : c \in added},
                    windows : {c.windows : c \in added}, webviews : {c.webviews : c \in added},
                    scope_id : DOMAIN command_scope \cup {NoScopeId}]

\* Every table holds what its code stores; every scope id an allowed entry names
\* has a scope and a cache.
TypeOK ==
  /\ \A c \in Commands : Range(allowed_commands[c]) \subseteq ResolvedCommand
  /\ DOMAIN denied_commands = Commands
  /\ \A n \in DOMAIN command_scope : command_scope[n] \in PlainScope
  /\ \A k \in DOMAIN global_scope : k \in Keys /\ global_scope[k] \in PlainScope
  /\ DOMAIN command_cache = DOMAIN command_scope
  /\ \A n \in DOMAIN command_cache : DOMAIN command_cache[n] \subseteq Types
  /\ DOMAIN global_scope_cache \subseteq Types
  /\ poisoned \in BOOLEAN /\ failed \in BOOLEAN
  /\ \A t \in Threads :
       thread[t].at \in {"idle", "reading", "done", "rejected", "failed", "panicked"}

\* The tables that resolve and add_capability build up step by step grant what a
\* direct reading of the capabilities added so far grants.  Access needs a permission
\* that can be reached from an entry, in a capability for that origin and window, and
\* no capability for them that denies the command.  With both, resolve_access still
\* refuses only a command that some capability denies in another place.
AccessAsDeclared ==
  \A r \in Requests :
    LET declared == GrantedScopes(added, r) # {} /\ ~\E c \in added : Denies(c, r)
    IN  /\ ResolveAccess(r) # <<>> => declared
        /\ declared /\ ResolveAccess(r) = <<>> => \E c \in added : DeniesCommand[c][r]

\* Resolved keeps each denied command with its context ("Map each command with its
\* context"): a call from an origin that no denial of its command is for gets what it
\* is granted.  resolve_access tests the origin and takes the test being made for its
\* outcome, so it does not hold.
DenialsHaveContext ==
  \A r \in Requests :
    /\ GrantedScopes(added, r) # {}
    /\ ~\E c \in added : DeniesCommand[c][r] /\ r.origin \in Range(Contexts(c))
    => ResolveAccess(r) # <<>>

\* A command that resolved its access reads, through the caches and with
\* capabilities added meanwhile, at least the allowed and denied values of the
\* permissions that granted the access.
ScopeComplete ==
  \A t \in Threads :
    thread[t].at = "done" /\ thread[t].request.wants = "command" =>
      LET declared == MergeAll(GrantedScopes(thread[t].since, thread[t].request))
      IN  /\ declared.allow \subseteq thread[t].read.allow
          /\ declared.deny \subseteq thread[t].read.deny

\* While no capability was added at run time, it reads exactly those values: each
\* permission has a scope id of its own.  (Ids of a later resolution start at 1
\* again, so values of added capabilities join scopes that have the same id.)
ScopeExact ==
  \A t \in Threads :
    thread[t].at = "done" /\ thread[t].request.wants = "command" /\ adds = 0 =>
      thread[t].read = MergeAll(GrantedScopes(thread[t].since, thread[t].request))

\* Two plugins read their global scope as the same type.
SharedType(T) ==
  \E r, s \in Requests : /\ r.wants = "global" /\ s.wants = "global"
                         /\ r.type = T /\ s.type = T /\ r.cmd.key # s.cmd.key

\* The global scope a command reads is the one the capabilities added so far give
\* the manifest that has its plugin's name, cached or not, provided no other plugin
\* reads its own as the same type: the cache has one value for each type.  (What a
\* manifest with the prefix `core:' gives is stored with the prefix and never read.)
GlobalScopeOwn ==
  \A t \in Threads :
    thread[t].at = "done" /\ thread[t].request.wants = "global" /\ ~SharedType(thread[t].request.type) =>
      thread[t].read = MergeAll(UNION {GlobalGiven[c][thread[t].request.cmd.key] : c \in thread[t].since})

\* No interleaving of calls and added capabilities reaches an unwrap of a scope or
\* cache that is missing: only a capability that does not resolve poisons the lock.
NoPanic == poisoned \/ (\E t \in Threads : thread[t].at = "panicked") => failed
=============================================================================
