-------------------------- MODULE AuthorityProofs --------------------------
(***************************************************************************)
(* Authority keeps what the capabilities declare, however calls and added  *)
(* capabilities interleave.  AclProofs says what one resolution yields;    *)
(* here one resolution after the other is joined into the tables, and the  *)
(* threads read their scopes from them, through the caches.                *)
(***************************************************************************)
EXTENDS Authority, AclProofs

\* Both halves of a are within those of b.
Below(a, b) == a.allow \subseteq b.allow /\ a.deny \subseteq b.deny

\* The entry leads to the scope s, just as it is, or at least to s.
Carries(scopes, a, s) ==
  IF s.given
  THEN a.scope_id \in DOMAIN scopes /\ scopes[a.scope_id] = [allow |-> s.allow, deny |-> s.deny]
  ELSE a.scope_id = NoScopeId
Covers(scopes, a, s) == s.given => a.scope_id \in DOMAIN scopes /\ Below(s, scopes[a.scope_id])

\* Entries of capabilities in caps, with scope ids in ids.
EntryOf(caps, ids) ==
  [context : {"local"} \cup UNION {Range(c.remote) : c \in caps},
   windows : {c.windows : c \in caps}, webviews : {c.webviews : c \in caps},
   scope_id : ids \cup {NoScopeId}]

RequestKeys == {r.cmd.key : r \in Requests}
OwnGlobal(scopes, k) == IF k \in DOMAIN scopes THEN scopes[k] ELSE EmptyScope
GlobalScopes(caps, k) == UNION {GlobalGiven[c][k] : c \in caps}

\* The tables have their shape, and every scope id has its scope.
TablesInv ==
  /\ added \subseteq Capabilities /\ adds \in Nat
  /\ DOMAIN allowed_commands = Commands /\ DOMAIN denied_commands = Commands
  /\ \A c \in Commands : /\ IsSequence(allowed_commands[c]) /\ IsSequence(denied_commands[c])
                         /\ Range(allowed_commands[c]) \subseteq EntryOf(added, DOMAIN command_scope)
  /\ NoScopeId \notin DOMAIN command_scope
  /\ \A n \in DOMAIN command_scope : command_scope[n] \in PlainScope
  /\ \A k \in DOMAIN global_scope : k \in Keys /\ global_scope[k] \in PlainScope

\* The tables say of r what the capabilities say: every scope they grant is within
\* the one of a matching entry, every matching entry is due to a scope they grant
\* (and leads to just that one while nothing was added), and r is denied where they
\* deny it.
GrantsInv(r) ==
  /\ \A s \in GrantedScopes(added, r) :
       \E a \in Range(allowed_commands[r.cmd]) : Matches(a, r) /\ Covers(command_scope, a, s)
  /\ \A a \in Range(allowed_commands[r.cmd]) : Matches(a, r) =>
       \E s \in GrantedScopes(added, r) : adds = 0 => Carries(command_scope, a, s)
  /\ denied_commands[r.cmd] # <<>> <=> \E c \in added : DeniesCommand[c][r]

GlobalInv ==
  \A k \in RequestKeys : OwnGlobal(global_scope, k) = MergeAll(GlobalScopes(added, k))

\* A cached scope is the one it was read from, of some plugin for a global scope.
CachesInv ==
  /\ DOMAIN command_cache = DOMAIN command_scope
  /\ \A n \in DOMAIN command_scope : \A T \in DOMAIN command_cache[n] :
       T \in Types /\ command_cache[n][T] = command_scope[n]
  /\ \A T \in DOMAIN global_scope_cache :
       \E r \in Requests : /\ r.wants = "global" /\ r.type = T
                           /\ global_scope_cache[T] = OwnGlobal(global_scope, r.cmd.key)

\* A call whose access was granted.
Call(scopes) == [at : {"reading", "done"}, request : Requests, ids : Seq(DOMAIN scopes),
                 read : PlainScope, since : SUBSET Capabilities]

Ended == {Idle} \cup {[at |-> x, request |-> r] : x \in {"rejected", "failed"}, r \in Requests}

\* Every scope granted when the access was resolved is read or can still be read
\* through one of the ids left; while nothing was added (n = 0), nothing else is.
CommandCallInv(call, scopes, n) ==
  LET granted == GrantedScopes(call.since, call.request)
  IN  /\ call.at = "done" => call.ids = <<>>
      /\ \A s \in granted : \/ Below(s, call.read)
                            \/ \E id \in Range(call.ids) : Below(s, scopes[id])
      /\ n = 0 => /\ Below(call.read, MergeAll(granted))
                  /\ \A id \in Range(call.ids) : Below(scopes[id], MergeAll(granted))

\* A global scope is the one the capabilities give the plugin, unless another one
\* has its own cached under the same type.
GlobalCallInv(call) ==
  call.at = "done" /\ ~SharedType(call.request.type) =>
    call.read = MergeAll(GlobalScopes(call.since, call.request.cmd.key))

ThreadInv(x, scopes, n, hasFailed) ==
  \/ x \in Ended
  \/ x = [at |-> "panicked"] /\ hasFailed
  \/ /\ x \in Call(scopes)
     /\ x.request.wants = "command" => CommandCallInv(x, scopes, n)
     /\ x.request.wants = "global" => GlobalCallInv(x)

IInv ==
  /\ TablesInv
  /\ \A r \in Requests : r.cmd \in Commands => GrantsInv(r)
  /\ GlobalInv
  /\ CachesInv
  /\ poisoned \in BOOLEAN /\ failed \in BOOLEAN /\ (poisoned => failed)
  /\ DOMAIN thread = Threads
  /\ \A t \in Threads : ThreadInv(thread[t], command_scope, adds, failed)

-----------------------------------------------------------------------------
\* What the capabilities declare, by the permissions they resolve to.

\* The files are as Resolved::resolve takes them.
LEMMA FilesWellFormed ==
  ASSUME NEW f \in Files \cup {Base}
  PROVE  WellFormed(f) /\ Range(f) \subseteq Capabilities
<1>1. Range(f) \subseteq Capabilities
  BY Zenon DEF Capabilities
<1>2. QED BY Zenon, <1>1, AuthorityAssumption DEF WellFormed

\* A permission that a capability gives, and what it resolves to.
LEMMA ResolvedFields ==
  ASSUME NEW c, NEW g, NEW p, p = ResolvedPermission(c, g.scope, g.permission)
  PROVE  /\ p.capability = c /\ p.key = g.permission.key /\ p.scope = ScopeOf(g)
         /\ p.allow = Permission(g.permission).allow /\ p.deny = Permission(g.permission).deny
BY Zenon DEF ResolvedPermission, ScopeOf

\* The scopes that c grants r are those of the permissions it resolves to.
LEMMA GrantedFacts ==
  ASSUME NEW c \in Capabilities, NEW r \in Requests
  PROVE  GrantedBy[c][r] = {p.scope : p \in {p \in ResolvedOf(c) : IsFor(c, r) /\ Allows(p, r.cmd)}}
<1>1. GrantedBy[c][r] = {ScopeOf(g) : g \in {g \in GivenBy(c) : /\ IsFor(c, r)
                                        /\ Plugin[g.permission.key] = r.cmd.key
                                        /\ r.cmd.name \in Permission(g.permission).allow}}
  BY Zenon DEF GrantedBy, Given
<1>2. ASSUME NEW s
      PROVE  s \in GrantedBy[c][r] <=>
               \E g \in GivenBy(c) : /\ IsFor(c, r) /\ Plugin[g.permission.key] = r.cmd.key
                                     /\ r.cmd.name \in Permission(g.permission).allow
                                     /\ s = ScopeOf(g)
  BY Zenon, <1>1
<1>3. ASSUME NEW s
      PROVE  s \in {p.scope : p \in {p \in ResolvedOf(c) : IsFor(c, r) /\ Allows(p, r.cmd)}} <=>
               \E p \in ResolvedOf(c) : IsFor(c, r) /\ Allows(p, r.cmd) /\ s = p.scope
  BY Zenon
<1>4. \A p : p \in ResolvedOf(c) <=> \E g \in GivenBy(c) : p = ResolvedPermission(c, g.scope, g.permission)
  BY Zenon DEF ResolvedOf
<1>5. ASSUME NEW s
      PROVE  s \in GrantedBy[c][r] <=>
               \E p \in ResolvedOf(c) : IsFor(c, r) /\ Allows(p, r.cmd) /\ s = p.scope
  <2>1. ASSUME NEW g \in GivenBy(c), NEW p, p = ResolvedPermission(c, g.scope, g.permission)
        PROVE  /\ Allows(p, r.cmd) <=> /\ Plugin[g.permission.key] = r.cmd.key
                                       /\ r.cmd.name \in Permission(g.permission).allow
               /\ p.scope = ScopeOf(g)
    BY <2>1, ResolvedFields DEF Allows
  <2>2. ASSUME NEW g \in GivenBy(c), IsFor(c, r), Plugin[g.permission.key] = r.cmd.key,
               r.cmd.name \in Permission(g.permission).allow, s = ScopeOf(g)
        PROVE  \E p \in ResolvedOf(c) : IsFor(c, r) /\ Allows(p, r.cmd) /\ s = p.scope
    <3> DEFINE p == ResolvedPermission(c, g.scope, g.permission)
    <3>1. p \in ResolvedOf(c)
      BY Zenon, <1>4
    <3>2. Allows(p, r.cmd) /\ s = p.scope
      BY Zenon, <2>1, <2>2
    <3> HIDE DEF p
    <3>3. QED BY Zenon, <2>2, <3>1, <3>2
  <2>3. ASSUME NEW p \in ResolvedOf(c), IsFor(c, r), Allows(p, r.cmd), s = p.scope
        PROVE  s \in GrantedBy[c][r]
    <3>1. PICK g \in GivenBy(c) : p = ResolvedPermission(c, g.scope, g.permission)
      BY Zenon, <1>4
    <3>2. QED BY ZenonT(60), <1>2, <2>1, <2>3, <3>1
  <2>4. QED BY ZenonT(60), <1>2, <2>2, <2>3
<1> HIDE DEF GrantedBy
<1>6. QED BY Zenon, <1>3, <1>5

\* c denies r if one of the permissions it resolves to does.
LEMMA DeniesFacts ==
  ASSUME NEW c \in Capabilities, NEW r \in Requests
  PROVE  DeniesCommand[c][r] <=> Contexts(c) # <<>> /\ \E p \in ResolvedOf(c) : Refuses(p, r.cmd)
<1>1. DeniesCommand[c][r] <=> /\ Contexts(c) # <<>>
                       /\ \E g \in GivenBy(c) : /\ Plugin[g.permission.key] = r.cmd.key
                                                /\ r.cmd.name \in Permission(g.permission).deny
  BY Zenon DEF DeniesCommand, Given
<1>2. \A p : p \in ResolvedOf(c) <=> \E g \in GivenBy(c) : p = ResolvedPermission(c, g.scope, g.permission)
  BY Zenon DEF ResolvedOf
<1>3. ASSUME NEW g \in GivenBy(c), NEW p, p = ResolvedPermission(c, g.scope, g.permission)
      PROVE  Refuses(p, r.cmd) <=> /\ Plugin[g.permission.key] = r.cmd.key
                                   /\ r.cmd.name \in Permission(g.permission).deny
  BY <1>3, ResolvedFields DEF Refuses
<1>4. QED BY Zenon, <1>1, <1>2, <1>3

\* The global scopes that c gives for the key k.
LEMMA GlobalFacts ==
  ASSUME NEW c \in Capabilities, NEW k \in RequestKeys
  PROVE  GlobalGiven[c][k] = {p.scope : p \in {p \in ResolvedOf(c) : p.key = k /\ IsGlobal(p)}}
<1>1. GlobalGiven[c][k] = {ScopeOf(g) : g \in {g \in GivenBy(c) :
                             g.permission.key = k /\ IsGlobal(Permission(g.permission))}}
  BY Zenon DEF GlobalGiven, Given, RequestKeys
<1>2. \A p : p \in ResolvedOf(c) <=> \E g \in GivenBy(c) : p = ResolvedPermission(c, g.scope, g.permission)
  BY Zenon DEF ResolvedOf
<1>3. ASSUME NEW s
      PROVE  s \in GlobalGiven[c][k] <=>
               \E g \in GivenBy(c) : /\ g.permission.key = k /\ IsGlobal(Permission(g.permission))
                                     /\ s = ScopeOf(g)
  BY Zenon, <1>1
<1>4. ASSUME NEW g \in GivenBy(c), NEW p, p = ResolvedPermission(c, g.scope, g.permission)
      PROVE  /\ p.key = g.permission.key /\ p.scope = ScopeOf(g)
             /\ IsGlobal(p) <=> IsGlobal(Permission(g.permission))
  BY <1>4, ResolvedFields DEF IsGlobal
<1>5. ASSUME NEW s
      PROVE  s \in GlobalGiven[c][k] <=> \E p \in ResolvedOf(c) : p.key = k /\ IsGlobal(p) /\ s = p.scope
  <2>1. ASSUME NEW g \in GivenBy(c), g.permission.key = k, IsGlobal(Permission(g.permission)),
               s = ScopeOf(g)
        PROVE  \E p \in ResolvedOf(c) : p.key = k /\ IsGlobal(p) /\ s = p.scope
    <3> DEFINE p == ResolvedPermission(c, g.scope, g.permission)
    <3>1. p \in ResolvedOf(c)
      BY Zenon, <1>2
    <3>2. p.key = k /\ IsGlobal(p) /\ s = p.scope
      BY Zenon, <1>4, <2>1
    <3> HIDE DEF p
    <3>3. QED BY Zenon, <3>1, <3>2
  <2>2. ASSUME NEW p \in ResolvedOf(c), p.key = k, IsGlobal(p), s = p.scope
        PROVE  s \in GlobalGiven[c][k]
    <3>1. PICK g \in GivenBy(c) : p = ResolvedPermission(c, g.scope, g.permission)
      BY Zenon, <1>2
    <3>2. QED BY ZenonT(60), <1>3, <1>4, <2>2, <3>1
  <2>3. QED BY ZenonT(60), <1>3, <2>1, <2>2
<1> HIDE DEF GlobalGiven
<1>6. QED BY <1>5

\* A command that a capability grants or denies is one of the manifests'.
LEMMA CommandNamed ==
  ASSUME NEW c \in Capabilities, NEW r \in Requests, NEW p \in ResolvedOf(c),
         Allows(p, r.cmd) \/ Refuses(p, r.cmd)
  PROVE  r.cmd \in Commands
<1>1. PICK g \in GivenBy(c) : p = ResolvedPermission(c, g.scope, g.permission)
  BY Zenon DEF ResolvedOf
<1> DEFINE q == g.permission
<1>2. q \in Nodes /\ q.name \in DOMAIN Acl[q.key].permissions
  BY Zenon DEF GivenBy, Gives
<1>3. q.key \in Keys
  BY Zenon, <1>2, NodeFacts
<1>4. /\ Plugin[q.key] = r.cmd.key
      /\ r.cmd.name \in Acl[q.key].permissions[q.name].allow \cup Acl[q.key].permissions[q.name].deny
  <2>1. /\ p.key = g.permission.key
        /\ p.allow = Permission(g.permission).allow /\ p.deny = Permission(g.permission).deny
    BY <1>1, ResolvedFields
  <2>2. QED BY Zenon, <2>1 DEF Allows, Refuses, Permission
<1>5. r.cmd = [key |-> r.cmd.key, name |-> r.cmd.name]
  BY ZenonT(60), AuthorityAssumption
<1> HIDE DEF q
<1>6. [key |-> Plugin[q.key], name |-> r.cmd.name] \in Commands
  BY <1>2, <1>3, <1>4 DEF Commands
<1>7. QED BY Zenon, <1>4, <1>5, <1>6

\* So nothing is granted or denied of any other.
LEMMA NotNamed ==
  ASSUME NEW r \in Requests, r.cmd \notin Commands, NEW caps, caps \subseteq Capabilities
  PROVE  GrantedScopes(caps, r) = {} /\ ~\E c \in caps : DeniesCommand[c][r]
<1>1. ASSUME NEW c \in caps PROVE GrantedBy[c][r] = {} /\ ~DeniesCommand[c][r]
  <2>1. \A p \in ResolvedOf(c) : ~Allows(p, r.cmd) /\ ~Refuses(p, r.cmd)
    BY Zenon, CommandNamed
  <2>2. ~DeniesCommand[c][r]
    BY Zenon, <2>1, DeniesFacts
  <2>3. \A s : s \notin GrantedBy[c][r]
    <3>1. GrantedBy[c][r] = {p.scope : p \in {p \in ResolvedOf(c) : IsFor(c, r) /\ Allows(p, r.cmd)}}
      BY Zenon, GrantedFacts
    <3> HIDE DEF GrantedBy
    <3>2. QED BY Zenon, <2>1, <3>1
  <2>4. QED BY Zenon, <2>2, <2>3
<1>2. QED BY Zenon, <1>1 DEF GrantedScopes

-----------------------------------------------------------------------------
\* What the resolution of one file says.

\* The place of a call, and the entry of a permission.
LEMMA EntryMatches ==
  ASSUME NEW c, NEW x, NEW id, NEW r, NEW a, a = EntryFor(c, x, id)
  PROVE  /\ a.context = x /\ a.windows = c.windows /\ a.webviews = c.webviews /\ a.scope_id = id
         /\ Matches(a, r) <=> r.origin = x /\ (r.webview \in c.webviews \/ r.window \in c.windows)
BY Zenon DEF EntryFor, Matches

\* Only an active capability gives anything.
LEMMA GivesActive ==
  ASSUME NEW c, NEW p \in ResolvedOf(c)
  PROVE  c.active /\ p.capability = c
<1>1. PICK g \in GivenBy(c) : p = ResolvedPermission(c, g.scope, g.permission)
  BY Zenon DEF ResolvedOf
<1>2. QED BY <1>1, ResolvedFields DEF GivenBy

\* The entries of a file, for the place of a call, are due to the scopes its
\* capabilities grant.
LEMMA FileGrants ==
  ASSUME NEW f \in Files \cup {Base}, Resolves(f), NEW R, R = Resolution[f],
         NEW r \in Requests, r.cmd \in Commands
  PROVE  /\ \A s \in GrantedScopes(Range(f), r) :
              \E a \in Range(R.allowed[r.cmd]) : Matches(a, r) /\ Carries(R.command_scope, a, s)
         /\ \A a \in Range(R.allowed[r.cmd]) : Matches(a, r) =>
              \E s \in GrantedScopes(Range(f), r) : Carries(R.command_scope, a, s)
         /\ R.denied[r.cmd] # <<>> <=> \E c \in Range(f) : DeniesCommand[c][r]
<1>1. R = Resolve(f) /\ WellFormed(f) /\ Range(f) \subseteq Capabilities
  BY Zenon, FilesWellFormed DEF Resolution, Resolvable
<1>2. /\ \A a \in Range(R.allowed[r.cmd]) :
           \E p \in Resolved(f) : Allows(p, r.cmd) /\ IsEntry(R, a, p)
      /\ \A p \in Resolved(f) : Allows(p, r.cmd) =>
           \A x \in Range(Contexts(p.capability)) :
             \E a \in Range(R.allowed[r.cmd]) : a.context = x /\ IsEntry(R, a, p)
      /\ R.denied[r.cmd] # <<>> <=>
           \E p \in Resolved(f) : Refuses(p, r.cmd) /\ Contexts(p.capability) # <<>>
  <2>1. TablesDeclare(f, R)
    BY Zenon, <1>1, ResolutionTables
  <2>2. QED BY Zenon, <2>1 DEF TablesDeclare
<1>3. \A a, p : IsEntry(R, a, p) => Carries(R.command_scope, a, p.scope)
  BY Zenon DEF IsEntry, HasScope, Carries
<1>4. \A p : p \in Resolved(f) <=> \E c \in Range(f) : p \in ResolvedOf(c)
  BY Zenon DEF Resolved
<1>5. ASSUME NEW c \in Range(f), NEW p \in ResolvedOf(c), NEW a, IsEntry(R, a, p)
      PROVE  /\ Matches(a, r) => IsFor(c, r)
             /\ IsFor(c, r) /\ a.context = r.origin => Matches(a, r)
  <2>1. c.active /\ p.capability = c
    BY Zenon, GivesActive
  <2>2. PICK x \in Range(Contexts(c)) : a = EntryFor(c, x, a.scope_id)
    BY Zenon, <1>5, <2>1 DEF IsEntry
  <2>3. a.context = x /\ a.windows = c.windows /\ a.webviews = c.webviews
    BY <2>2, EntryMatches
  <2>4. QED BY Zenon, <2>1, <2>3 DEF Matches, IsFor
<1>6. ASSUME NEW s \in GrantedScopes(Range(f), r)
      PROVE  \E a \in Range(R.allowed[r.cmd]) : Matches(a, r) /\ Carries(R.command_scope, a, s)
  <2>1. PICK c \in Range(f) : s \in GrantedBy[c][r]
    BY Zenon DEF GrantedScopes
  <2>2. PICK p \in ResolvedOf(c) : IsFor(c, r) /\ Allows(p, r.cmd) /\ s = p.scope
    <3>1. GrantedBy[c][r] = {p.scope : p \in {p \in ResolvedOf(c) : IsFor(c, r) /\ Allows(p, r.cmd)}}
      BY Zenon, <1>1, GrantedFacts
    <3>2. QED BY Zenon, <2>1, <3>1
  <2>3. r.origin \in Range(Contexts(p.capability))
    BY Zenon, <2>2, GivesActive DEF IsFor
  <2>4. PICK a \in Range(R.allowed[r.cmd]) : a.context = r.origin /\ IsEntry(R, a, p)
    BY Zenon, <1>2, <1>4, <2>2, <2>3
  <2>5. QED BY Zenon, <1>3, <1>5, <2>2, <2>4
<1>7. ASSUME NEW a \in Range(R.allowed[r.cmd]), Matches(a, r)
      PROVE  \E s \in GrantedScopes(Range(f), r) : Carries(R.command_scope, a, s)
  <2>1. PICK p \in Resolved(f) : Allows(p, r.cmd) /\ IsEntry(R, a, p)
    BY Zenon, <1>2
  <2>2. PICK c \in Range(f) : p \in ResolvedOf(c)
    BY Zenon, <1>4
  <2>3. p.scope \in GrantedBy[c][r]
    <3>1. IsFor(c, r)
      BY ZenonT(60), <1>5, <1>7, <2>1, <2>2
    <3>2. GrantedBy[c][r] = {q.scope : q \in {q \in ResolvedOf(c) : IsFor(c, r) /\ Allows(q, r.cmd)}}
      BY Zenon, <1>1, GrantedFacts
    <3>3. QED BY ZenonT(60), <2>1, <2>2, <3>1, <3>2
  <2>4. QED BY Zenon, <1>3, <2>1, <2>3 DEF GrantedScopes
<1>8. R.denied[r.cmd] # <<>> <=> \E c \in Range(f) : DeniesCommand[c][r]
  <2>1. \A c \in Range(f) : DeniesCommand[c][r] <=>
          Contexts(c) # <<>> /\ \E p \in ResolvedOf(c) : Refuses(p, r.cmd)
    BY Zenon, <1>1, DeniesFacts
  <2>2. \A c : \A p \in ResolvedOf(c) : p.capability = c
    BY Zenon, GivesActive
  <2>3. ASSUME NEW c \in Range(f), DeniesCommand[c][r]
        PROVE  \E p \in Resolved(f) : Refuses(p, r.cmd) /\ Contexts(p.capability) # <<>>
    <3>1. PICK p \in ResolvedOf(c) : Refuses(p, r.cmd)
      BY Zenon, <2>1, <2>3
    <3>2. QED BY ZenonT(60), <1>4, <2>1, <2>2, <2>3, <3>1
  <2>4. ASSUME NEW p \in Resolved(f), Refuses(p, r.cmd), Contexts(p.capability) # <<>>
        PROVE  \E c \in Range(f) : DeniesCommand[c][r]
    <3>1. PICK c \in Range(f) : p \in ResolvedOf(c)
      BY Zenon, <1>4
    <3>2. QED BY ZenonT(60), <2>1, <2>2, <2>4, <3>1
  <2>5. QED BY ZenonT(60), <1>2, <2>3, <2>4
<1>9. QED BY Zenon, <1>6, <1>7, <1>8

\* The shape of what a file resolves to.
LEMMA FileTables ==
  ASSUME NEW f \in Files \cup {Base}, Resolves(f), NEW R, R = Resolution[f]
  PROVE  /\ DOMAIN R.allowed = Commands /\ DOMAIN R.denied = Commands
         /\ \A c \in Commands :
              /\ IsSequence(R.allowed[c]) /\ IsSequence(R.denied[c])
              /\ Range(R.allowed[c]) \subseteq EntryOf(Range(f), DOMAIN R.command_scope)
         /\ NoScopeId \notin DOMAIN R.command_scope
         /\ \A n \in DOMAIN R.command_scope : R.command_scope[n] \in PlainScope
<1>1. R = Resolve(f) /\ WellFormed(f)
  BY Zenon, FilesWellFormed DEF Resolution, Resolvable
<1>2. /\ DOMAIN R.allowed = Commands /\ DOMAIN R.denied = Commands
      /\ \A cmd \in Commands :
           /\ IsSequence(R.allowed[cmd]) /\ IsSequence(R.denied[cmd])
           /\ \A a \in Range(R.allowed[cmd]) :
                \E p \in Resolved(f) : Allows(p, cmd) /\ IsEntry(R, a, p)
      /\ \A n \in DOMAIN R.command_scope : R.command_scope[n] \in PlainScope
      /\ NoScopeId \notin DOMAIN R.command_scope
  <2>1. TablesDeclare(f, R)
    BY ZenonT(60), <1>1, ResolutionTables
  <2>2. QED BY Zenon, <2>1 DEF TablesDeclare
<1>3. ASSUME NEW p \in Resolved(f), NEW a, IsEntry(R, a, p)
      PROVE  a \in EntryOf(Range(f), DOMAIN R.command_scope)
  <2> DEFINE c == p.capability
  <2>1. c \in Range(f)
    BY Zenon, <1>1, ResolvedShape
  <2>2. PICK x \in Range(Contexts(c)) : a = EntryFor(c, x, a.scope_id)
    BY Zenon, <1>3 DEF IsEntry
  <2>3. x \in {"local"} \cup Range(c.remote)
    BY Zenon, <1>1, <2>1, ContextsAre DEF WellFormed
  <2>4. a.scope_id \in DOMAIN R.command_scope \cup {NoScopeId}
    BY Zenon, <1>3 DEF IsEntry, HasScope
  <2> HIDE DEF c
  <2>5. x \in {"local"} \cup UNION {Range(d.remote) : d \in Range(f)}
    BY Zenon, <2>1, <2>3
  <2> DEFINE id == a.scope_id
  <2>6. a = [context |-> x, windows |-> c.windows, webviews |-> c.webviews, scope_id |-> id]
    BY Zenon, <2>2 DEF EntryFor
  <2>7. /\ c.windows \in {d.windows : d \in Range(f)} /\ c.webviews \in {d.webviews : d \in Range(f)}
        /\ id \in DOMAIN R.command_scope \cup {NoScopeId}
    BY Zenon, <2>1, <2>4
  <2> HIDE DEF id
  <2>8. QED BY ZenonT(30), <2>5, <2>6, <2>7 DEF EntryOf
<1>4. QED BY Zenon, <1>2, <1>3

\* The global scopes a file resolves to.
LEMMA FileGlobal ==
  ASSUME NEW f \in Files \cup {Base}, Resolves(f), NEW R, R = Resolution[f]
  PROVE  /\ \A k \in DOMAIN R.global_scope : k \in Keys /\ R.global_scope[k] \in PlainScope
         /\ \A k \in RequestKeys :
              OwnGlobal(R.global_scope, k) = MergeAll(GlobalScopes(Range(f), k))
<1>1. R = Resolve(f) /\ WellFormed(f) /\ Range(f) \subseteq Capabilities
  BY Zenon, FilesWellFormed DEF Resolution, Resolvable
<1> DEFINE Of(k) == {p.scope : p \in {p \in Resolved(f) : p.key = k /\ IsGlobal(p)}}
<1>2. /\ DOMAIN R.global_scope = {k \in Keys : \E p \in Resolved(f) : p.key = k /\ IsGlobal(p)}
      /\ \A k \in DOMAIN R.global_scope : R.global_scope[k] = MergeAll(Of(k))
  <2>1. TablesDeclare(f, R)
    BY Zenon, <1>1, ResolutionTables
  <2>2. QED BY Zenon, <2>1 DEF TablesDeclare
<1>3. \A p : p \in Resolved(f) <=> \E c \in Range(f) : p \in ResolvedOf(c)
  BY Zenon DEF Resolved
<1>4. ASSUME NEW k \in RequestKeys PROVE GlobalScopes(Range(f), k) = Of(k)
  <2>1. ASSUME NEW c \in Range(f), NEW s
        PROVE  s \in GlobalGiven[c][k] <=> \E p \in ResolvedOf(c) : p.key = k /\ IsGlobal(p) /\ s = p.scope
    <3>1. GlobalGiven[c][k] = {p.scope : p \in {p \in ResolvedOf(c) : p.key = k /\ IsGlobal(p)}}
      BY Zenon, <1>1, GlobalFacts
    <3>2. QED BY Zenon, <3>1
  <2>2. ASSUME NEW s PROVE s \in GlobalScopes(Range(f), k) <=> \E c \in Range(f) : s \in GlobalGiven[c][k]
    BY Zenon DEF GlobalScopes
  <2>3. ASSUME NEW s PROVE s \in Of(k) <=> \E p \in Resolved(f) : p.key = k /\ IsGlobal(p) /\ s = p.scope
    BY Zenon
  <2> HIDE DEF Of
  <2>4. ASSUME NEW s PROVE s \in GlobalScopes(Range(f), k) <=> s \in Of(k)
    <3>1. ASSUME NEW c \in Range(f), s \in GlobalGiven[c][k] PROVE s \in Of(k)
      <4>1. PICK p \in ResolvedOf(c) : p.key = k /\ IsGlobal(p) /\ s = p.scope
        BY Zenon, <2>1, <3>1
      <4>2. QED BY Zenon, <1>3, <2>3, <4>1
    <3>2. ASSUME NEW p \in Resolved(f), p.key = k, IsGlobal(p), s = p.scope
          PROVE  \E c \in Range(f) : s \in GlobalGiven[c][k]
      <4>1. PICK c \in Range(f) : p \in ResolvedOf(c)
        BY Zenon, <1>3
      <4>2. QED BY Zenon, <2>1, <3>2, <4>1
    <3>3. QED BY Zenon, <2>2, <2>3, <3>1, <3>2
  <2>5. QED BY ZenonT(60), <2>4
<1>5. ASSUME NEW k, NEW s \in Of(k) PROVE s.allow \subseteq Values /\ s.deny \subseteq Values
  <2>1. s \in Scope
    BY Zenon, <1>1, ResolvedShape
  <2>2. QED BY Zenon, <2>1 DEF Scope
<1>6. ASSUME NEW k, k \notin DOMAIN R.global_scope PROVE Of(k) = {}
  <2>1. \A p \in Resolved(f) : p.key \in Keys
    BY Zenon, <1>1, ResolvedShape
  <2>2. \A p \in Resolved(f) : ~(p.key = k /\ IsGlobal(p))
    BY Zenon, <1>2, <1>6, <2>1
  <2>3. QED BY Zenon, <2>2
<1> HIDE DEF Of
<1>7. ASSUME NEW k PROVE MergeAll(Of(k)) \in PlainScope
  BY Zenon, <1>5 DEF MergeAll, PlainScope
<1>8. MergeAll({}) = EmptyScope
  BY Zenon DEF MergeAll, EmptyScope
<1>9. ASSUME NEW k \in RequestKeys
      PROVE  OwnGlobal(R.global_scope, k) = MergeAll(GlobalScopes(Range(f), k))
  <2>1. CASE k \in DOMAIN R.global_scope
    BY Zenon, <1>2, <1>4, <2>1 DEF OwnGlobal
  <2>2. CASE k \notin DOMAIN R.global_scope
    BY Zenon, <1>4, <1>6, <1>8, <2>2 DEF OwnGlobal
  <2>3. QED BY Zenon, <2>1, <2>2
<1>10. ASSUME NEW k \in DOMAIN R.global_scope PROVE k \in Keys /\ R.global_scope[k] \in PlainScope
  BY Zenon, <1>2, <1>7
<1>11. QED BY Zenon, <1>9, <1>10

-----------------------------------------------------------------------------
\* Joining tables.

\* Vec::extend on the entries of a command.
LEMMA Appended ==
  ASSUME NEW a, NEW b, IsSequence(a), IsSequence(b)
  PROVE  IsSequence(a \o b) /\ Range(a \o b) = Range(a) \cup Range(b)
<1> DEFINE S == Range(a) \cup Range(b)
<1>1. a \in Seq(Range(a)) /\ b \in Seq(Range(b)) /\ Range(a) \subseteq S /\ Range(b) \subseteq S
  BY Zenon DEF IsSequence
<1>2. a \in Seq(S) /\ b \in Seq(S)
  <2> DEFINE A == Range(a)
             B == Range(b)
  <2>1. a \in Seq(A) /\ A \subseteq S /\ b \in Seq(B) /\ B \subseteq S
    BY Zenon, <1>1
  <2> HIDE DEF A, B, S
  <2>2. QED BY <2>1
<1> HIDE DEF S
<1>3. a \o b \in Seq(S) /\ Range(a \o b) = Range(a) \cup Range(b)
  BY ZenonT(60), <1>2, Joined
<1>4. QED BY Zenon, <1>3, IsSeq

\* A scope is the pair of its halves.
LEMMA PlainIs ==
  ASSUME NEW s \in PlainScope
  PROVE  /\ s.allow \subseteq Values /\ s.deny \subseteq Values
         /\ s = [allow |-> s.allow, deny |-> s.deny]
BY Zenon DEF PlainScope

Plain(g) == \A x \in DOMAIN g : g[x] \in PlainScope

\* Scopes that are joined stay within the join; those alone are as they were.
IsJoin(j, g, h) ==
  /\ DOMAIN j = DOMAIN g \cup DOMAIN h
  /\ Plain(j)
  /\ \A x \in DOMAIN g : Below(g[x], j[x]) /\ (x \notin DOMAIN h => j[x] = g[x])
  /\ \A x \in DOMAIN h : Below(h[x], j[x])
  /\ \A k : OwnGlobal(j, k) =
       [allow |-> OwnGlobal(g, k).allow \cup OwnGlobal(h, k).allow,
        deny |-> OwnGlobal(g, k).deny \cup OwnGlobal(h, k).deny]

\* A scope that both maps have is merged; the others are kept.
LEMMA JoinFacts ==
  ASSUME NEW g, NEW h, Plain(g), Plain(h)
  PROVE  IsJoin(JoinScopes(g, h), g, h)
<1> DEFINE j == JoinScopes(g, h)
<1>1. /\ DOMAIN j = DOMAIN g \cup DOMAIN h
      /\ \A x \in DOMAIN j : j[x] = MergeAll((IF x \in DOMAIN g THEN {g[x]} ELSE {}) \cup
                                             (IF x \in DOMAIN h THEN {h[x]} ELSE {}))
  BY Zenon DEF JoinScopes
<1> HIDE DEF j
<1>2. ASSUME NEW x \in DOMAIN j
      PROVE  j[x] = [allow |-> OwnGlobal(g, x).allow \cup OwnGlobal(h, x).allow,
                     deny |-> OwnGlobal(g, x).deny \cup OwnGlobal(h, x).deny]
  <2>1. CASE x \in DOMAIN g /\ x \in DOMAIN h
    <3>1. j[x] = MergeAll({g[x], h[x]})
      <4>1. (IF x \in DOMAIN g THEN {g[x]} ELSE {}) \cup (IF x \in DOMAIN h THEN {h[x]} ELSE {})
              = {g[x], h[x]}
        BY Zenon, <2>1
      <4>2. QED BY Zenon, <1>1, <4>1
    <3>2. OwnGlobal(g, x) = g[x] /\ OwnGlobal(h, x) = h[x]
      BY Zenon, <2>1 DEF OwnGlobal
    <3>3. MergeAll({g[x], h[x]}) = [allow |-> g[x].allow \cup h[x].allow, deny |-> g[x].deny \cup h[x].deny]
      BY ZenonT(60) DEF MergeAll
    <3>4. QED BY Zenon, <3>1, <3>2, <3>3
  <2>2. CASE x \in DOMAIN g /\ x \notin DOMAIN h
    <3>1. j[x] = MergeAll({g[x]})
      <4>1. (IF x \in DOMAIN g THEN {g[x]} ELSE {}) \cup (IF x \in DOMAIN h THEN {h[x]} ELSE {})
              = {g[x]}
        BY Zenon, <2>2
      <4>2. QED BY Zenon, <1>1, <4>1
    <3>2. OwnGlobal(g, x) = g[x] /\ OwnGlobal(h, x) = EmptyScope
      BY Zenon, <2>2 DEF OwnGlobal
    <3>3. MergeAll({g[x]}) = [allow |-> g[x].allow \cup EmptyScope.allow, deny |-> g[x].deny \cup EmptyScope.deny]
      BY ZenonT(60) DEF MergeAll, EmptyScope
    <3>4. QED BY Zenon, <3>1, <3>2, <3>3
  <2>3. CASE x \notin DOMAIN g /\ x \in DOMAIN h
    <3>1. j[x] = MergeAll({h[x]})
      <4>1. (IF x \in DOMAIN g THEN {g[x]} ELSE {}) \cup (IF x \in DOMAIN h THEN {h[x]} ELSE {})
              = {h[x]}
        BY Zenon, <2>3
      <4>2. QED BY Zenon, <1>1, <4>1
    <3>2. OwnGlobal(h, x) = h[x] /\ OwnGlobal(g, x) = EmptyScope
      BY Zenon, <2>3 DEF OwnGlobal
    <3>3. MergeAll({h[x]}) = [allow |-> EmptyScope.allow \cup h[x].allow, deny |-> EmptyScope.deny \cup h[x].deny]
      BY ZenonT(60) DEF MergeAll, EmptyScope
    <3>4. QED BY Zenon, <3>1, <3>2, <3>3
  <2>4. QED BY Zenon, <1>1, <2>1, <2>2, <2>3
<1>3. ASSUME NEW k, k \notin DOMAIN j
      PROVE  OwnGlobal(j, k) = [allow |-> OwnGlobal(g, k).allow \cup OwnGlobal(h, k).allow,
                                deny |-> OwnGlobal(g, k).deny \cup OwnGlobal(h, k).deny]
  <2>1. OwnGlobal(j, k) = EmptyScope /\ OwnGlobal(g, k) = EmptyScope /\ OwnGlobal(h, k) = EmptyScope
    BY Zenon, <1>1, <1>3 DEF OwnGlobal
  <2>2. QED BY Zenon, <2>1 DEF EmptyScope
<1>4. \A x \in DOMAIN j : OwnGlobal(j, x) = j[x]
  BY Zenon DEF OwnGlobal
<1>5. ASSUME NEW x
      PROVE  /\ OwnGlobal(g, x).allow \subseteq Values /\ OwnGlobal(g, x).deny \subseteq Values
             /\ OwnGlobal(h, x).allow \subseteq Values /\ OwnGlobal(h, x).deny \subseteq Values
  <2>1. EmptyScope \in PlainScope
    BY Zenon DEF EmptyScope, PlainScope
  <2>2. OwnGlobal(g, x) \in PlainScope /\ OwnGlobal(h, x) \in PlainScope
    BY Zenon, <2>1 DEF OwnGlobal, Plain
  <2>3. QED BY Zenon, <2>2, PlainIs
<1>6. ASSUME NEW x \in DOMAIN j PROVE j[x] \in PlainScope
  BY <1>2, <1>5 DEF PlainScope
<1>7. ASSUME NEW x \in DOMAIN g PROVE Below(g[x], j[x]) /\ (x \notin DOMAIN h => j[x] = g[x])
  <2>1. OwnGlobal(g, x) = g[x] /\ g[x] = [allow |-> g[x].allow, deny |-> g[x].deny]
    BY Zenon, PlainIs DEF OwnGlobal, Plain
  <2>2. j[x] = [allow |-> g[x].allow \cup OwnGlobal(h, x).allow, deny |-> g[x].deny \cup OwnGlobal(h, x).deny]
    BY ZenonT(60), <1>1, <1>2, <2>1
  <2>3. x \notin DOMAIN h => OwnGlobal(h, x).allow = {} /\ OwnGlobal(h, x).deny = {}
    BY Zenon DEF OwnGlobal, EmptyScope
  <2>4. Below(g[x], j[x])
    BY <2>2 DEF Below
  <2>5. ASSUME x \notin DOMAIN h PROVE j[x] = g[x]
    <3>1. j[x] = [allow |-> g[x].allow, deny |-> g[x].deny]
      BY Zenon, <2>2, <2>3, <2>5
    <3>2. QED BY ZenonT(60), <2>1, <3>1
  <2>6. QED BY ZenonT(60), <2>4, <2>5
<1>8. ASSUME NEW x \in DOMAIN h PROVE Below(h[x], j[x])
  <2>1. j[x] = [allow |-> OwnGlobal(g, x).allow \cup h[x].allow, deny |-> OwnGlobal(g, x).deny \cup h[x].deny]
    BY ZenonT(60), <1>1, <1>2 DEF OwnGlobal
  <2>2. QED BY <2>1 DEF Below
<1>9. IsJoin(j, g, h)
  BY ZenonT(60), <1>1, <1>2, <1>3, <1>4, <1>6, <1>7, <1>8 DEF IsJoin, Plain
<1>10. QED BY Zenon, <1>9 DEF j

\* Scopes can be merged one group after the other.
LEMMA MergeUnion ==
  ASSUME NEW A, NEW B
  PROVE  MergeAll(A \cup B) = [allow |-> MergeAll(A).allow \cup MergeAll(B).allow,
                               deny |-> MergeAll(A).deny \cup MergeAll(B).deny]
<1> DEFINE Allow(S) == UNION {s.allow : s \in S}
           Deny(S) == UNION {s.deny : s \in S}
<1>1. Allow(A \cup B) = Allow(A) \cup Allow(B) /\ Deny(A \cup B) = Deny(A) \cup Deny(B)
  <2>1. \A v : v \in Allow(A \cup B) <=> v \in Allow(A) \cup Allow(B)
    BY Zenon
  <2>2. \A v : v \in Deny(A \cup B) <=> v \in Deny(A) \cup Deny(B)
    BY Zenon
  <2> HIDE DEF Allow, Deny
  <2>3. QED BY Zenon, <2>1, <2>2
<1>2. \A S : MergeAll(S) = [allow |-> Allow(S), deny |-> Deny(S)]
  BY Zenon DEF MergeAll
<1> HIDE DEF Allow, Deny
<1>3. \A S : MergeAll(S).allow = Allow(S) /\ MergeAll(S).deny = Deny(S)
  BY Zenon, <1>2
<1>4. QED BY ZenonT(60), <1>1, <1>2, <1>3

\* What add_capability makes of the tables, R being the resolution of its file.
TablesExtended(f, R) ==
  /\ added' = added \cup Range(f) /\ adds' = adds + 1
  /\ DOMAIN command_scope' = DOMAIN command_scope \cup ScopesAllowed(R)
  /\ \A n \in DOMAIN command_scope' : command_scope'[n] \in PlainScope
  /\ \A n \in DOMAIN command_scope : /\ Below(command_scope[n], command_scope'[n])
                                     /\ n \notin ScopesAllowed(R) => command_scope'[n] = command_scope[n]
  /\ \A n \in ScopesAllowed(R) : /\ n \in DOMAIN R.command_scope
                                 /\ Below(R.command_scope[n], command_scope'[n])
  /\ DOMAIN allowed_commands' = Commands /\ DOMAIN denied_commands' = Commands
  /\ \A c \in Commands :
       /\ IsSequence(allowed_commands'[c]) /\ IsSequence(denied_commands'[c])
       /\ Range(allowed_commands'[c]) = Range(allowed_commands[c]) \cup Range(R.allowed[c])
       /\ Range(denied_commands'[c]) = Range(denied_commands[c]) \cup Range(R.denied[c])
       /\ \A a \in Range(R.allowed[c]) : a.scope_id \in ScopesAllowed(R) \cup {NoScopeId}

\* add_capability extends the tables (the two maps of commands, the command scopes)
\* and drops nothing.
LEMMA Extended ==
  ASSUME TablesInv, NEW f \in Files, AddCapability(f), NEW R, R = Resolution[f]
  PROVE  TablesExtended(f, R)
<1>1. /\ Resolves(f) /\ added' = added \cup Range(f) /\ adds' = adds + 1 
      /\ Extend(R)
  BY Zenon DEF AddCapability, Resolvable
<1>2. /\ DOMAIN R.allowed = Commands /\ DOMAIN R.denied = Commands
      /\ \A c \in Commands :
           /\ IsSequence(R.allowed[c]) /\ IsSequence(R.denied[c])
           /\ Range(R.allowed[c]) \subseteq EntryOf(Range(f), DOMAIN R.command_scope)
      /\ \A n \in DOMAIN R.command_scope : R.command_scope[n] \in PlainScope
  BY ZenonT(60), <1>1, FileTables
<1>3. ASSUME NEW n \in ScopesAllowed(R) PROVE n \in DOMAIN R.command_scope
  <2>1. PICK c \in Commands : n \in {r.scope_id : r \in Range(R.allowed[c])} /\ n # NoScopeId
    BY Zenon DEF ScopesAllowed
  <2>2. PICK a \in Range(R.allowed[c]) : n = a.scope_id
    BY Zenon, <2>1
  <2>3. a \in EntryOf(Range(f), DOMAIN R.command_scope)
    BY Zenon, <1>2
  <2>4. a.scope_id \in DOMAIN R.command_scope \cup {NoScopeId}
    BY Zenon, <2>3 DEF EntryOf
  <2>5. QED BY ZenonT(60), <2>1, <2>2, <2>4
<1> DEFINE new == [n \in ScopesAllowed(R) |-> R.command_scope[n]]
<1>4. /\ DOMAIN new = ScopesAllowed(R)
      /\ \A n \in DOMAIN new : new[n] = R.command_scope[n] /\ new[n] \in PlainScope
  BY ZenonT(60), <1>2, <1>3
<1>5. command_scope' = JoinScopes(command_scope, new)
  BY Zenon, <1>1 DEF Extend
<1> HIDE DEF new
<1>6. \A n \in DOMAIN command_scope : command_scope[n] \in PlainScope
  BY Zenon DEF TablesInv
<1>7. /\ DOMAIN command_scope' = DOMAIN command_scope \cup DOMAIN new
      /\ \A n \in DOMAIN command_scope' : command_scope'[n] \in PlainScope
      /\ \A n \in DOMAIN command_scope : /\ Below(command_scope[n], command_scope'[n])
                                         /\ n \notin DOMAIN new => command_scope'[n] = command_scope[n]
      /\ \A n \in DOMAIN new : Below(new[n], command_scope'[n])
  <2>1. Plain(command_scope) /\ Plain(new)
    BY ZenonT(60), <1>4, <1>6 DEF Plain
  <2>2. IsJoin(command_scope', command_scope, new)
    BY ZenonT(60), <1>5, <2>1, JoinFacts
  <2>3. QED BY Zenon, <2>2 DEF IsJoin, Plain
<1>8. /\ allowed_commands' = [c \in Commands |-> allowed_commands[c] \o R.allowed[c]]
      /\ denied_commands' = [c \in Commands |-> denied_commands[c] \o R.denied[c]]
  BY Zenon, <1>1 DEF Extend
<1>9. ASSUME NEW c \in Commands
      PROVE  /\ IsSequence(allowed_commands'[c]) /\ IsSequence(denied_commands'[c])
             /\ Range(allowed_commands'[c]) = Range(allowed_commands[c]) \cup Range(R.allowed[c])
             /\ Range(denied_commands'[c]) = Range(denied_commands[c]) \cup Range(R.denied[c])
  <2>1. /\ allowed_commands'[c] = allowed_commands[c] \o R.allowed[c]
        /\ denied_commands'[c] = denied_commands[c] \o R.denied[c]
    BY Zenon, <1>8
  <2>2. /\ IsSequence(allowed_commands[c]) /\ IsSequence(denied_commands[c])
        /\ IsSequence(R.allowed[c]) /\ IsSequence(R.denied[c])
    BY Zenon, <1>2 DEF TablesInv
  <2>3. QED BY ZenonT(60), <2>1, <2>2, Appended
<1>10. ASSUME NEW c \in Commands, NEW a \in Range(R.allowed[c])
       PROVE  a.scope_id \in ScopesAllowed(R) \cup {NoScopeId}
  <2>1. a.scope_id \in {r.scope_id : r \in Range(R.allowed[c])}
    BY Zenon
  <2>2. a.scope_id \in UNION {{r.scope_id : r \in Range(R.allowed[d])} : d \in Commands}
    BY Zenon, <2>1
  <2>3. QED BY Zenon, <2>2 DEF ScopesAllowed
<1>11. DOMAIN allowed_commands' = Commands /\ DOMAIN denied_commands' = Commands
  BY Zenon, <1>8
<1>12. /\ DOMAIN command_scope' = DOMAIN command_scope \cup ScopesAllowed(R)
       /\ \A n \in DOMAIN command_scope : n \notin ScopesAllowed(R) => command_scope'[n] = command_scope[n]
       /\ \A n \in ScopesAllowed(R) : /\ n \in DOMAIN R.command_scope
                                      /\ Below(R.command_scope[n], command_scope'[n])
  BY ZenonT(60), <1>3, <1>4, <1>7
<1>13. QED BY ZenonT(60), <1>1, <1>7, <1>9, <1>10, <1>11, <1>12 DEF TablesExtended

-----------------------------------------------------------------------------
\* add_capability.

\* More capabilities and more ids make more entries.
LEMMA EntriesGrow ==
  ASSUME NEW C, NEW D, C \subseteq D, NEW I, NEW J, I \subseteq J
  PROVE  EntryOf(C, I) \subseteq EntryOf(D, J)
<1>1. /\ UNION {Range(c.remote) : c \in C} \subseteq UNION {Range(c.remote) : c \in D}
      /\ {c.windows : c \in C} \subseteq {c.windows : c \in D}
      /\ {c.webviews : c \in C} \subseteq {c.webviews : c \in D}
  BY Zenon
<1>2. QED BY Zenon, <1>1 DEF EntryOf

\* An entry needs only the scope ids it names.
LEMMA EntryNarrowed ==
  ASSUME NEW C, NEW I, NEW J, NEW a \in EntryOf(C, I), a.scope_id \in J \cup {NoScopeId}
  PROVE  a \in EntryOf(C, J)
BY Zenon DEF EntryOf

\* The tables keep their shape.
LEMMA TablesAdded ==
  ASSUME TablesInv, NEW f \in Files, AddCapability(f)
  PROVE  TablesInv'
<1> DEFINE R == Resolution[f]
<1>0. Resolves(f) /\ f \in Files \cup {Base} /\ Range(f) \subseteq Capabilities
      /\ global_scope' = JoinScopes(global_scope, R.global_scope)
  BY Zenon, FilesWellFormed DEF AddCapability, Resolvable, Extend
<1>1. /\ added' = added \cup Range(f) /\ adds' = adds + 1
      /\ DOMAIN command_scope' = DOMAIN command_scope \cup ScopesAllowed(R)
      /\ \A n \in DOMAIN command_scope' : command_scope'[n] \in PlainScope
      /\ DOMAIN allowed_commands' = Commands /\ DOMAIN denied_commands' = Commands
      /\ \A c \in Commands :
           /\ IsSequence(allowed_commands'[c]) /\ IsSequence(denied_commands'[c])
           /\ Range(allowed_commands'[c]) = Range(allowed_commands[c]) \cup Range(R.allowed[c])
           /\ \A a \in Range(R.allowed[c]) : a.scope_id \in ScopesAllowed(R) \cup {NoScopeId}
  <2>1. R = Resolution[f]
    BY Zenon
  <2> HIDE DEF R
  <2>2. TablesExtended(f, R)
    BY ZenonT(60), <2>1, Extended
  <2>3. QED BY Zenon, <2>2 DEF TablesExtended
<1>2. \A c \in Commands : Range(R.allowed[c]) \subseteq EntryOf(Range(f), DOMAIN R.command_scope)
  BY Zenon, <1>0, FileTables
<1>3. (\A k \in DOMAIN R.global_scope : k \in Keys) /\ Plain(R.global_scope)
  BY Zenon, <1>0, FileGlobal DEF Plain
<1> HIDE DEF R
<1>4. ASSUME NEW c \in Commands
      PROVE  Range(allowed_commands'[c]) \subseteq EntryOf(added', DOMAIN command_scope')
  <2>1. Range(allowed_commands[c]) \subseteq EntryOf(added', DOMAIN command_scope')
    <3>1. Range(allowed_commands[c]) \subseteq EntryOf(added, DOMAIN command_scope)
      BY Zenon DEF TablesInv
    <3>2. added \subseteq added' /\ DOMAIN command_scope \subseteq DOMAIN command_scope'
      BY Zenon, <1>1
    <3>3. QED BY ZenonT(60), <3>1, <3>2, EntriesGrow
  <2>2. ASSUME NEW a \in Range(R.allowed[c]) PROVE a \in EntryOf(added', DOMAIN command_scope')
    <3>1. a \in EntryOf(Range(f), ScopesAllowed(R))
      BY Zenon, <1>1, <1>2, EntryNarrowed
    <3>2. Range(f) \subseteq added' /\ ScopesAllowed(R) \subseteq DOMAIN command_scope'
      BY Zenon, <1>1
    <3>3. QED BY Zenon, <3>1, <3>2, EntriesGrow
  <2>3. QED BY Zenon, <1>1, <2>1, <2>2
<1>5. NoScopeId \notin DOMAIN command_scope'
  BY Zenon, <1>1 DEF TablesInv, ScopesAllowed
<1>6. \A k \in DOMAIN global_scope' : k \in Keys /\ global_scope'[k] \in PlainScope
  <2>1. (\A k \in DOMAIN global_scope : k \in Keys) /\ Plain(global_scope)
    BY Zenon DEF TablesInv, Plain
  <2>2. IsJoin(global_scope', global_scope, R.global_scope)
    BY ZenonT(60), <1>0, <1>3, <2>1, JoinFacts DEF R
  <2>3. QED BY ZenonT(60), <1>3, <2>1, <2>2 DEF IsJoin, Plain
<1>7. added' \subseteq Capabilities
  BY Zenon, <1>0, <1>1 DEF TablesInv
<1>8. adds' \in Nat
  BY <1>1 DEF TablesInv
<1>9. QED BY ZenonT(60), <1>1, <1>4, <1>5, <1>6, <1>7, <1>8 DEF TablesInv

\* More capabilities grant what each of them grants.
LEMMA GrantedUnion ==
  ASSUME NEW C, NEW D, NEW r, NEW s
  PROVE  s \in GrantedScopes(C \cup D, r) <=> s \in GrantedScopes(C, r) \/ s \in GrantedScopes(D, r)
BY Zenon DEF GrantedScopes

\* Below is transitive.
LEMMA BelowTwice ==
  ASSUME NEW a, NEW b, NEW c, Below(a, b), Below(b, c)
  PROVE  Below(a, c)
BY Zenon DEF Below

\* The entries of the file join those of the capabilities before it; a scope id
\* that both use leads to the scopes of both.
LEMMA GrantsAdded ==
  ASSUME TablesInv, NEW f \in Files, AddCapability(f),
         NEW r \in Requests, r.cmd \in Commands, GrantsInv(r)
  PROVE  GrantsInv(r)'
<1> DEFINE R == Resolution[f]
<1>0. Resolves(f) /\ f \in Files \cup {Base}
  BY Zenon DEF AddCapability, Resolvable
<1>1. /\ added' = added \cup Range(f) /\ adds' = adds + 1
      /\ DOMAIN command_scope' = DOMAIN command_scope \cup ScopesAllowed(R)
      /\ \A n \in DOMAIN command_scope : Below(command_scope[n], command_scope'[n])
      /\ \A n \in ScopesAllowed(R) : /\ n \in DOMAIN R.command_scope
                                     /\ Below(R.command_scope[n], command_scope'[n])
      /\ IsSequence(denied_commands'[r.cmd])
      /\ Range(allowed_commands'[r.cmd]) = Range(allowed_commands[r.cmd]) \cup Range(R.allowed[r.cmd])
      /\ Range(denied_commands'[r.cmd]) = Range(denied_commands[r.cmd]) \cup Range(R.denied[r.cmd])
      /\ \A a \in Range(R.allowed[r.cmd]) : a.scope_id \in ScopesAllowed(R) \cup {NoScopeId}
  <2>1. R = Resolution[f]
    BY Zenon
  <2> HIDE DEF R
  <2>2. TablesExtended(f, R)
    BY Zenon, <2>1, Extended
  <2>3. QED BY Zenon, <2>2 DEF TablesExtended
<1>2. /\ \A s \in GrantedScopes(Range(f), r) :
           \E a \in Range(R.allowed[r.cmd]) : Matches(a, r) /\ Carries(R.command_scope, a, s)
      /\ \A a \in Range(R.allowed[r.cmd]) : Matches(a, r) =>
           \E s \in GrantedScopes(Range(f), r) : Carries(R.command_scope, a, s)
      /\ R.denied[r.cmd] # <<>> <=> \E c \in Range(f) : DeniesCommand[c][r]
  BY Zenon, <1>0, FileGrants
<1>3. IsSequence(R.denied[r.cmd]) /\ NoScopeId \notin DOMAIN R.command_scope
  BY Zenon, <1>0, FileTables
<1> HIDE DEF R
<1>4. ASSUME NEW s \in GrantedScopes(added', r)
      PROVE  \E a \in Range(allowed_commands'[r.cmd]) : Matches(a, r) /\ Covers(command_scope', a, s)
  <2>1. CASE s \in GrantedScopes(added, r)
    <3>1. PICK a \in Range(allowed_commands[r.cmd]) : Matches(a, r) /\ Covers(command_scope, a, s)
      BY Zenon, <2>1 DEF GrantsInv
    <3>2. Covers(command_scope', a, s)
      BY Zenon, <1>1, <3>1, BelowTwice DEF Covers
    <3>3. QED BY Zenon, <1>1, <3>1, <3>2
  <2>2. CASE s \in GrantedScopes(Range(f), r)
    <3>1. PICK a \in Range(R.allowed[r.cmd]) : Matches(a, r) /\ Carries(R.command_scope, a, s)
      BY Zenon, <1>2, <2>2
    <3>2. ASSUME s.given
          PROVE  a.scope_id \in DOMAIN command_scope' /\ Below(s, command_scope'[a.scope_id])
      <4>1. /\ a.scope_id \in DOMAIN R.command_scope
            /\ R.command_scope[a.scope_id] = [allow |-> s.allow, deny |-> s.deny]
        BY Zenon, <3>1, <3>2 DEF Carries
      <4>2. Below(s, R.command_scope[a.scope_id])
        BY <4>1 DEF Below
      <4>3. a.scope_id \in ScopesAllowed(R)
        BY Zenon, <1>1, <1>3, <4>1
      <4>4. QED BY ZenonT(60), <1>1, <4>2, <4>3, BelowTwice
    <3>3. QED BY Zenon, <1>1, <3>1, <3>2 DEF Covers
  <2>3. QED BY ZenonT(60), <1>1, <2>1, <2>2, GrantedUnion
<1>5. ASSUME NEW a \in Range(allowed_commands'[r.cmd]), Matches(a, r)
      PROVE  \E s \in GrantedScopes(added', r) : adds' = 0 => Carries(command_scope', a, s)
  <2>1. \E s : s \in GrantedScopes(added, r) \/ s \in GrantedScopes(Range(f), r)
    BY ZenonT(60), <1>1, <1>2, <1>5 DEF GrantsInv
  <2>2. adds' # 0
    BY <1>1 DEF TablesInv
  <2>3. QED BY ZenonT(60), <1>1, <2>1, <2>2, GrantedUnion
<1>6. denied_commands'[r.cmd] # <<>> <=> \E c \in added' : DeniesCommand[c][r]
  <2>1. IsSequence(denied_commands[r.cmd])
    BY Zenon DEF TablesInv
  <2>2. denied_commands'[r.cmd] # <<>> <=> denied_commands[r.cmd] # <<>> \/ R.denied[r.cmd] # <<>>
    <3>1. /\ denied_commands'[r.cmd] = <<>> <=> Range(denied_commands'[r.cmd]) = {}
          /\ denied_commands[r.cmd] = <<>> <=> Range(denied_commands[r.cmd]) = {}
          /\ R.denied[r.cmd] = <<>> <=> Range(R.denied[r.cmd]) = {}
      BY ZenonT(60), <1>1, <1>3, <2>1, EmptyOnly
    <3>2. QED BY ZenonT(30), <1>1, <3>1
  <2>3. denied_commands[r.cmd] # <<>> <=> \E c \in added : DeniesCommand[c][r]
    BY Zenon DEF GrantsInv
  <2>4. QED BY ZenonT(60), <1>1, <1>2, <2>2, <2>3
<1>7. QED BY Zenon, <1>4, <1>5, <1>6 DEF GrantsInv

\* The global scopes of more capabilities are those of each of them.
LEMMA GlobalUnion ==
  ASSUME NEW C, NEW D, NEW k
  PROVE  GlobalScopes(C \cup D, k) = GlobalScopes(C, k) \cup GlobalScopes(D, k)
<1>1. \A s : s \in GlobalScopes(C \cup D, k) <=> s \in GlobalScopes(C, k) \cup GlobalScopes(D, k)
  BY Zenon DEF GlobalScopes
<1>2. QED BY Zenon, <1>1

\* The global scopes of the file join those before.
LEMMA GlobalAdded ==
  ASSUME TablesInv, GlobalInv, NEW f \in Files, AddCapability(f)
  PROVE  GlobalInv'
<1> DEFINE R == Resolution[f]
<1>1. /\ Resolves(f) /\ f \in Files \cup {Base} /\ added' = added \cup Range(f)
      /\ global_scope' = JoinScopes(global_scope, R.global_scope)
  BY Zenon DEF AddCapability, Resolvable, Extend
<1>2. /\ Plain(R.global_scope)
      /\ \A k \in RequestKeys : OwnGlobal(R.global_scope, k) = MergeAll(GlobalScopes(Range(f), k))
  BY ZenonT(60), <1>1, FileGlobal DEF Plain
<1>3. Plain(global_scope)
  BY Zenon DEF TablesInv, Plain
<1>4. IsJoin(global_scope', global_scope, R.global_scope)
  BY ZenonT(60), <1>1, <1>2, <1>3, JoinFacts
<1> HIDE DEF R
<1>5. ASSUME NEW k \in RequestKeys
      PROVE  OwnGlobal(global_scope', k) = MergeAll(GlobalScopes(added', k))
  <2> DEFINE A == GlobalScopes(added, k)
             B == GlobalScopes(Range(f), k)
  <2>1. OwnGlobal(global_scope', k) =
          [allow |-> MergeAll(A).allow \cup MergeAll(B).allow,
           deny |-> MergeAll(A).deny \cup MergeAll(B).deny]
    BY ZenonT(60), <1>2, <1>4 DEF IsJoin, GlobalInv
  <2>2. GlobalScopes(added', k) = A \cup B
    <3>1. GlobalScopes(added \cup Range(f), k) = A \cup B
      BY GlobalUnion
    <3>2. QED BY ZenonT(60), <1>1, <3>1
  <2> HIDE DEF A, B
  <2>3. QED BY ZenonT(60), <2>1, <2>2, MergeUnion
<1>6. QED BY Zenon, <1>5 DEF GlobalInv

\* What is cached of a scope that grew is dropped.
LEMMA CachesAdded ==
  ASSUME TablesInv, CachesInv, NEW f \in Files, AddCapability(f)
  PROVE  CachesInv'
<1> DEFINE R == Resolution[f]
<1>1. /\ Resolves(f) /\ f \in Files \cup {Base}
      /\ global_scope' = JoinScopes(global_scope, R.global_scope)
      /\ global_scope_cache' = IF R.global_scope = Empty THEN global_scope_cache ELSE Empty
      /\ command_cache' = [n \in DOMAIN command_cache \cup ScopesAllowed(R) |->
                             IF n \in ScopesAllowed(R) THEN Empty ELSE command_cache[n]]
  BY Zenon DEF AddCapability, Resolvable, Extend, ResetCaches
<1>2. /\ DOMAIN command_scope' = DOMAIN command_scope \cup ScopesAllowed(R)
      /\ \A n \in DOMAIN command_scope : n \notin ScopesAllowed(R) => command_scope'[n] = command_scope[n]
  BY Zenon, Extended DEF TablesExtended
<1>3. Plain(R.global_scope)
  BY ZenonT(60), <1>1, FileGlobal DEF Plain
<1> HIDE DEF R
<1>4. DOMAIN Empty = {}
  BY Zenon DEF Empty
<1>5. DOMAIN command_cache' = DOMAIN command_scope'
  BY ZenonT(60), <1>1, <1>2 DEF CachesInv
<1>6. ASSUME NEW n \in DOMAIN command_scope', NEW T \in DOMAIN command_cache'[n]
      PROVE  T \in Types /\ command_cache'[n][T] = command_scope'[n]
  <2>1. n \notin ScopesAllowed(R) /\ command_cache'[n] = command_cache[n] /\ n \in DOMAIN command_scope
    BY Zenon, <1>1, <1>2, <1>4, <1>5 
  <2>2. T \in Types /\ command_cache[n][T] = command_scope[n]
    BY ZenonT(60), <2>1 DEF CachesInv
  <2>3. command_scope'[n] = command_scope[n]
    BY ZenonT(60), <1>2, <2>1
  <2>4. QED BY ZenonT(60), <2>1, <2>2, <2>3
<1>7. ASSUME NEW T \in DOMAIN global_scope_cache'
      PROVE  \E r \in Requests : /\ r.wants = "global" /\ r.type = T
                                 /\ global_scope_cache'[T] = OwnGlobal(global_scope', r.cmd.key)
  <2>1. R.global_scope = Empty /\ global_scope_cache' = global_scope_cache
    BY Zenon, <1>1, <1>4, <1>7
  <2>2. PICK r \in Requests : /\ r.wants = "global" /\ r.type = T
                              /\ global_scope_cache[T] = OwnGlobal(global_scope, r.cmd.key)
    BY ZenonT(60), <1>7, <2>1 DEF CachesInv
  <2>3. OwnGlobal(global_scope', r.cmd.key) = OwnGlobal(global_scope, r.cmd.key)
    <3>1. Plain(global_scope)
      BY Zenon DEF TablesInv, Plain
    <3>2. IsJoin(global_scope', global_scope, R.global_scope)
      BY ZenonT(60), <1>1, <1>3, <3>1, JoinFacts
    <3>3. QED BY ZenonT(60), <1>4, <2>1, <3>2 DEF IsJoin, OwnGlobal
  <2>4. QED BY Zenon, <2>1, <2>2, <2>3
<1>8. QED BY ZenonT(60), <1>5, <1>6, <1>7 DEF CachesInv

\* The threads keep what they have; a scope id still leads to at least the scope it
\* led to when the access was resolved.
LEMMA ThreadAdded ==
  ASSUME TablesInv, NEW f \in Files, AddCapability(f), NEW x,
         ThreadInv(x, command_scope, adds, failed)
  PROVE  ThreadInv(x, command_scope', adds', failed')
<1>1. /\ adds' = adds + 1 /\ DOMAIN command_scope \subseteq DOMAIN command_scope'
      /\ \A n \in DOMAIN command_scope : Below(command_scope[n], command_scope'[n])
  BY ZenonT(60), Extended DEF TablesExtended
<1>2. failed' = failed
  BY Zenon DEF AddCapability
<1>3. CASE x \in Ended \/ (x = [at |-> "panicked"] /\ failed)
  BY ZenonT(60), <1>2, <1>3 DEF ThreadInv
<1>4. ASSUME x \in Call(command_scope), x.request.wants = "command" => CommandCallInv(x, command_scope, adds),
             x.request.wants = "global" => GlobalCallInv(x)
      PROVE  ThreadInv(x, command_scope', adds', failed')
  <2>1. x \in Call(command_scope')
    <3> DEFINE D == DOMAIN command_scope
               E == DOMAIN command_scope'
    <3>1. D \subseteq E /\ x \in [at : {"reading", "done"}, request : Requests, ids : Seq(D),
                                 read : PlainScope, since : SUBSET Capabilities]
      BY ZenonT(60), <1>1, <1>4 DEF Call
    <3> HIDE DEF D, E
    <3>2. x \in [at : {"reading", "done"}, request : Requests, ids : Seq(E),
                 read : PlainScope, since : SUBSET Capabilities]
      BY <3>1
    <3>3. QED BY ZenonT(60), <3>2 DEF Call, E
  <2>2. \A id \in Range(x.ids) : id \in DOMAIN command_scope
    <3>1. x.ids \in Seq(DOMAIN command_scope)
      BY ZenonT(60), <1>4 DEF Call
    <3>2. QED BY ZenonT(60), <3>1, IsSeq
  <2>3. adds' # 0
    BY <1>1 DEF TablesInv
  <2>4. ASSUME CommandCallInv(x, command_scope, adds) PROVE CommandCallInv(x, command_scope', adds')
    BY ZenonT(60), <1>1, <2>2, <2>3, <2>4, BelowTwice DEF CommandCallInv
  <2>5. QED BY ZenonT(60), <1>4, <2>1, <2>4 DEF ThreadInv
<1>5. QED BY ZenonT(60), <1>3, <1>4 DEF ThreadInv

-----------------------------------------------------------------------------
\* Calls.

\* The scope ids of entries.
LEMMA ScopeIdsAre ==
  ASSUME NEW es, IsSequence(es)
  PROVE  /\ IsSequence(ScopeIds(es))
         /\ \A n : n \in Range(ScopeIds(es)) <=> n # NoScopeId /\ \E e \in Range(es) : e.scope_id = n
<1> DEFINE S == {e \in Range(es) : e.scope_id # NoScopeId}
           scoped == Only(es, S)
<1>1. ScopeIds(es) = [i \in DOMAIN scoped |-> scoped[i].scope_id]
  BY Zenon DEF ScopeIds
<1>2. IsSequence(scoped) /\ Range(scoped) = Range(es) \cap S
  BY ZenonT(60), OnlyElements
<1> HIDE DEF scoped
<1>3. IsSequence(ScopeIds(es)) /\ DOMAIN ScopeIds(es) = DOMAIN scoped
  BY ZenonT(60), <1>1, <1>2, Mapped
<1>4. Range(ScopeIds(es)) = {scoped[i].scope_id : i \in DOMAIN scoped}
  BY ZenonT(60), <1>1, <1>3 DEF Range
<1>5. \A n : n \in Range(ScopeIds(es)) <=> \E e \in Range(scoped) : e.scope_id = n
  BY Zenon, <1>4 DEF Range
<1>6. QED BY ZenonT(60), <1>2, <1>3, <1>5

\* resolve_access returns the matching entries of a command that is not denied.
LEMMA Access ==
  ASSUME TablesInv, NEW r \in Requests, NEW es, es = ResolveAccess(r)
  PROVE  /\ IsSequence(es)
         /\ r.cmd \notin Commands \/ denied_commands[r.cmd] # <<>> => es = <<>>
         /\ r.cmd \in Commands /\ denied_commands[r.cmd] = <<>> =>
              Range(es) = {a \in Range(allowed_commands[r.cmd]) : Matches(a, r)}
<1>1. CASE r.cmd \notin Commands \/ denied_commands[r.cmd] # <<>>
  BY ZenonT(60), <1>1, NoElement DEF ResolveAccess
<1>2. CASE r.cmd \in Commands /\ denied_commands[r.cmd] = <<>>
  <2> DEFINE all == allowed_commands[r.cmd]
             S == {a \in Range(all) : Matches(a, r)}
  <2>1. es = Only(all, S)
    BY ZenonT(60), <1>2 DEF ResolveAccess
  <2>2. IsSequence(all)
    BY ZenonT(60), <1>2 DEF TablesInv
  <2>3. Range(all) \cap S = S
    BY Zenon
  <2> HIDE DEF S, all
  <2>4. IsSequence(es) /\ Range(es) = S
    BY ZenonT(60), <2>1, <2>2, <2>3, OnlyElements
  <2>5. QED BY ZenonT(60), <1>2, <2>4 DEF S, all
<1>3. QED BY Zenon, <1>1, <1>2

\* A thread that is reading or done has a call.
LEMMA Calling ==
  ASSUME NEW x, NEW scopes, NEW n, NEW hasFailed, ThreadInv(x, scopes, n, hasFailed),
         x.at \in {"reading", "done"}
  PROVE  /\ x \in Call(scopes)
         /\ x.request.wants = "command" => CommandCallInv(x, scopes, n)
         /\ x.request.wants = "global" => GlobalCallInv(x)
<1>1. x \notin Ended /\ x # [at |-> "panicked"]
  BY DEF Ended, Idle
<1>2. QED BY ZenonT(60), <1>1 DEF ThreadInv

\* The fields of a granted call.
LEMMA CallFields ==
  ASSUME NEW scopes, NEW x \in Call(scopes)
  PROVE  /\ x.at \in {"reading", "done"} /\ x.request \in Requests /\ x.ids \in Seq(DOMAIN scopes)
         /\ x.read \in PlainScope /\ x.since \subseteq Capabilities
         /\ x = [at |-> x.at, request |-> x.request, ids |-> x.ids, read |-> x.read, since |-> x.since]
BY Zenon DEF Call

\* The scopes that are granted are scopes.
LEMMA GrantedScope ==
  ASSUME NEW c \in Capabilities, NEW r \in Requests, NEW s \in GrantedBy[c][r]
  PROVE  s \in Scope
<1>1. PICK p \in ResolvedOf(c) : s = p.scope
  <2>1. GrantedBy[c][r] = {p.scope : p \in {p \in ResolvedOf(c) : IsFor(c, r) /\ Allows(p, r.cmd)}}
    BY ZenonT(60), GrantedFacts
  <2>2. QED BY ZenonT(60), <2>1
<1>2. PICK f \in Files \cup {Base} : c \in Range(f)
  BY Zenon DEF Capabilities
<1>3. p \in Resolved(f)
  BY ZenonT(60), <1>2 DEF Resolved
<1>4. QED BY ZenonT(60), <1>1, <1>3, FilesWellFormed, ResolvedShape

\* A scope is within the merge it goes into.
LEMMA MergedIn ==
  ASSUME NEW S, NEW s \in S
  PROVE  Below(s, MergeAll(S))
<1>1. s.allow \subseteq UNION {z.allow : z \in S} /\ s.deny \subseteq UNION {z.deny : z \in S}
  BY Zenon
<1>2. MergeAll(S).allow = UNION {z.allow : z \in S} /\ MergeAll(S).deny = UNION {z.deny : z \in S}
  BY Zenon DEF MergeAll
<1>3. QED BY ZenonT(60), <1>1, <1>2 DEF Below

\* on_message: the ids of the matching entries lead to every scope that was granted.
LEMMA CallStarted ==
  ASSUME TablesInv, NEW r \in Requests, r.cmd \in Commands => GrantsInv(r),
         ~(Checked(r) /\ ResolveAccess(r) = <<>>),
         NEW x, x = [at |-> "reading", request |-> r, ids |-> ScopeIds(ResolveAccess(r)),
                     read |-> EmptyScope, since |-> added]
  PROVE  ThreadInv(x, command_scope, adds, failed)
<1> DEFINE es == ResolveAccess(r)
           ids == ScopeIds(es)
           granted == GrantedScopes(added, r)
<1>1. /\ IsSequence(es)
      /\ r.cmd \notin Commands \/ denied_commands[r.cmd] # <<>> => es = <<>>
      /\ r.cmd \in Commands /\ denied_commands[r.cmd] = <<>> =>
           Range(es) = {a \in Range(allowed_commands[r.cmd]) : Matches(a, r)}
  BY Zenon, Access
<1>2. /\ IsSequence(ids)
      /\ \A n : n \in Range(ids) <=> n # NoScopeId /\ \E e \in Range(es) : e.scope_id = n
  BY ZenonT(60), <1>1, ScopeIdsAre
<1>3. added \subseteq Capabilities /\ NoScopeId \notin DOMAIN command_scope
  BY Zenon DEF TablesInv
<1>4. \/ r.cmd \in Commands /\ denied_commands[r.cmd] = <<>>
      \/ r.cmd \notin Commands /\ es = <<>> /\ granted = {}
  <2>1. CASE es # <<>>
    BY ZenonT(60), <1>1, <2>1
  <2>2. CASE ~Checked(r)
    <3>1. (r.cmd.key = AppAclKey /\ AppAclKey \notin Keys) \/ r.cmd.key = ChannelPluginName
      <4>1. FetchChannelDataCommand.key = ChannelPluginName
        BY DEF FetchChannelDataCommand
      <4>2. QED BY Zenon, <2>2, <4>1 DEF Checked
    <3>2. \A c \in Commands : \E k \in Keys : c.key = Plugin[k]
      BY DEF Commands
    <3>3. r.cmd \notin Commands
      BY Zenon, <3>1, <3>2, AclAssumption, AuthorityAssumption
    <3>4. QED BY ZenonT(60), <1>1, <1>3, <3>3, NotNamed
  <2>3. QED BY ZenonT(60), <2>1, <2>2
<1>5. EmptyScope \in PlainScope /\ EmptyScope.allow = {} /\ EmptyScope.deny = {}
  BY Zenon DEF EmptyScope, PlainScope
<1> HIDE DEF es, ids, granted
<1>6. ASSUME NEW id \in Range(ids) PROVE id \in DOMAIN command_scope
  <2>1. PICK a \in Range(es) : a.scope_id = id /\ id # NoScopeId
    BY Zenon, <1>2
  <2>2. es # <<>>
    BY ZenonT(60), <2>1, NoElement
  <2>3. a \in EntryOf(added, DOMAIN command_scope)
    BY ZenonT(60), <1>1, <1>4, <2>1, <2>2 DEF TablesInv
  <2>4. a.scope_id \in DOMAIN command_scope \cup {NoScopeId}
    BY Zenon, <2>3 DEF EntryOf
  <2>5. QED BY ZenonT(60), <2>1, <2>4
<1>7. ids \in Seq(DOMAIN command_scope)
  <2> DEFINE I == Range(ids)
             D == DOMAIN command_scope
  <2>1. ids \in Seq(I) /\ I \subseteq D
    BY Zenon, <1>2, <1>6 DEF IsSequence
  <2> HIDE DEF I, D
  <2>2. ids \in Seq(D)
    BY <2>1
  <2>3. QED BY Zenon, <2>2 DEF D
<1>8. /\ x \in Call(command_scope) /\ x.at = "reading" /\ x.request = r /\ x.ids = ids
      /\ x.read = EmptyScope /\ x.since = added
  <2>1. x = [at |-> "reading", request |-> r, ids |-> ids, read |-> EmptyScope, since |-> added]
    BY Zenon DEF ids, es
  <2>2. QED BY SMTT(20), <1>3, <1>5, <1>7, <2>1 DEF Call
<1>9. ASSUME NEW s \in granted
      PROVE  Below(s, EmptyScope) \/ \E id \in Range(ids) : Below(s, command_scope[id])
  <2>1. r.cmd \in Commands /\ denied_commands[r.cmd] = <<>>
    BY Zenon, <1>4
  <2>2. PICK a \in Range(allowed_commands[r.cmd]) : Matches(a, r) /\ Covers(command_scope, a, s)
    BY Zenon, <2>1 DEF GrantsInv, granted
  <2>3. CASE s.given
    <3>1. a.scope_id \in DOMAIN command_scope /\ Below(s, command_scope[a.scope_id])
      BY Zenon, <2>2, <2>3 DEF Covers
    <3>2. a.scope_id \in Range(ids)
      BY ZenonT(60), <1>1, <1>2, <1>3, <2>1, <2>2, <3>1
    <3>3. QED BY Zenon, <3>1, <3>2
  <2>4. CASE ~s.given
    <3>1. s \in Scope
      <4>1. PICK c \in added : s \in GrantedBy[c][r]
        BY Zenon DEF GrantedScopes, granted
      <4>2. QED BY ZenonT(60), <1>3, <4>1, GrantedScope
    <3>2. s.allow = {} /\ s.deny = {}
      BY Zenon, <2>4, <3>1 DEF Scope
    <3>3. QED BY Zenon, <1>5, <3>2 DEF Below
  <2>5. QED BY Zenon, <2>3, <2>4
<1>10. Below(EmptyScope, MergeAll(granted))
  BY Zenon, <1>5 DEF Below
<1>11. ASSUME adds = 0, NEW id \in Range(ids) PROVE Below(command_scope[id], MergeAll(granted))
  <2>1. PICK a \in Range(es) : a.scope_id = id /\ id # NoScopeId
    BY Zenon, <1>2
  <2>2. r.cmd \in Commands /\ denied_commands[r.cmd] = <<>>
    BY ZenonT(60), <1>4, <2>1, NoElement
  <2>3. a \in Range(allowed_commands[r.cmd]) /\ Matches(a, r)
    BY ZenonT(60), <1>1, <2>1, <2>2
  <2>4. PICK s \in granted : Carries(command_scope, a, s)
    BY ZenonT(60), <1>11, <2>2, <2>3 DEF GrantsInv, granted
  <2>5. command_scope[id] = [allow |-> s.allow, deny |-> s.deny]
    BY ZenonT(60), <2>1, <2>4 DEF Carries
  <2>6. command_scope[id].allow = s.allow /\ command_scope[id].deny = s.deny
    BY <2>5
  <2>7. QED BY ZenonT(60), <2>6, MergedIn DEF Below
<1>12. CommandCallInv(x, command_scope, adds)
  BY ZenonT(60), <1>8, <1>9, <1>10, <1>11 DEF CommandCallInv, granted
<1>13. GlobalCallInv(x)
  BY Zenon, <1>8 DEF GlobalCallInv
<1>14. QED BY ZenonT(60), <1>8, <1>12, <1>13 DEF ThreadInv

-----------------------------------------------------------------------------
\* Reading scopes.

\* CommandScope::resolve takes the scope ids one at a time.
LEMMA HeadTail ==
  ASSUME NEW S, NEW s \in Seq(S), s # <<>>
  PROVE  /\ Head(s) \in Range(s) /\ Tail(s) \in Seq(S)
         /\ \A x \in Range(s) : x = Head(s) \/ x \in Range(Tail(s))
         /\ Range(Tail(s)) \subseteq Range(s)
<1>1. Len(s) \in Nat /\ Len(s) # 0 /\ DOMAIN s = 1 .. Len(s) /\ Head(s) = s[1] /\ Tail(s) \in Seq(S)
  OBVIOUS
<1>2. /\ DOMAIN Tail(s) = 1 .. (Len(s) - 1)
      /\ \A i \in 1 .. (Len(s) - 1) : Tail(s)[i] = s[i + 1]
  OBVIOUS
<1>3. Head(s) \in Range(s)
  BY <1>1 DEF Range
<1>4. ASSUME NEW x \in Range(s) PROVE x = Head(s) \/ x \in Range(Tail(s))
  <2>1. PICK i \in 1 .. Len(s) : x = s[i]
    BY Zenon, <1>1 DEF Range
  <2>2. CASE i = 1
    BY Zenon, <1>1, <2>1, <2>2
  <2>3. CASE i # 1
    <3>1. i - 1 \in 1 .. (Len(s) - 1) /\ (i - 1) + 1 = i
      BY <1>1, <2>3
    <3>2. Tail(s)[i - 1] = x /\ i - 1 \in DOMAIN Tail(s)
      BY ZenonT(60), <1>2, <2>1, <3>1
    <3>3. QED BY Zenon, <3>2 DEF Range
  <2>4. QED BY Zenon, <2>2, <2>3
<1>5. ASSUME NEW x \in Range(Tail(s)) PROVE x \in Range(s)
  <2>1. PICK i \in 1 .. (Len(s) - 1) : x = Tail(s)[i]
    BY Zenon, <1>2 DEF Range
  <2>2. i + 1 \in DOMAIN s
    BY <1>1
  <2>3. QED BY ZenonT(60), <1>2, <2>1, <2>2 DEF Range
<1>6. QED BY ZenonT(60), <1>1, <1>3, <1>4, <1>5

\* Two scopes that are merged, one of them read before.
LEMMA MergedTwo ==
  ASSUME NEW a \in PlainScope, NEW b \in PlainScope, NEW m, m = MergeAll({a, b})
  PROVE  /\ m \in PlainScope /\ Below(a, m) /\ Below(b, m)
         /\ \A z : Below(a, z) /\ Below(b, z) => Below(m, z)
<1>1. m = [allow |-> a.allow \cup b.allow, deny |-> a.deny \cup b.deny]
  BY Zenon DEF MergeAll
<1>2. m.allow = a.allow \cup b.allow /\ m.deny = a.deny \cup b.deny
  BY <1>1
<1>3. m \in PlainScope
  BY ZenonT(30), <1>1, PlainIs DEF PlainScope
<1>4. QED BY Zenon, <1>2, <1>3 DEF Below

\* get_command_scope_typed, for the next id: what it leads to is read.
LEMMA ScopeRead ==
  ASSUME NEW scopes, Plain(scopes), NEW n, NEW hasFailed, NEW x \in Call(scopes),
         CommandCallInv(x, scopes, n), x.at = "reading", x.request.wants = "command", x.ids # <<>>,
         NEW y, y = [at |-> "reading", request |-> x.request, ids |-> Tail(x.ids),
                     read |-> MergeAll({x.read, scopes[Head(x.ids)]}), since |-> x.since]
  PROVE  ThreadInv(y, scopes, n, hasFailed)
<1> DEFINE ids == x.ids
           id == Head(ids)
           old == x.read
           new == MergeAll({old, scopes[id]})
           granted == GrantedScopes(x.since, x.request)
<1>1. ids \in Seq(DOMAIN scopes) /\ old \in PlainScope /\ x.request \in Requests /\ x.since \subseteq Capabilities
  BY Zenon, CallFields
<1>2. /\ id \in Range(ids) /\ Tail(ids) \in Seq(DOMAIN scopes)
      /\ \A z \in Range(ids) : z = id \/ z \in Range(Tail(ids))
      /\ Range(Tail(ids)) \subseteq Range(ids)
  BY Zenon, <1>1, HeadTail
<1>3. id \in DOMAIN scopes /\ scopes[id] \in PlainScope
  BY ZenonT(60), <1>1, <1>2, IsSeq DEF Plain
<1>4. /\ new \in PlainScope /\ Below(old, new) /\ Below(scopes[id], new)
      /\ \A z : Below(old, z) /\ Below(scopes[id], z) => Below(new, z)
  <2> DEFINE b == scopes[id]
  <2>1. old \in PlainScope /\ b \in PlainScope /\ new = MergeAll({old, b})
    BY ZenonT(60), <1>1, <1>3
  <2> HIDE DEF old, b, new
  <2>2. /\ new \in PlainScope /\ Below(old, new) /\ Below(b, new)
        /\ \A z : Below(old, z) /\ Below(b, z) => Below(new, z)
    BY ZenonT(60), <2>1, MergedTwo
  <2>3. QED BY Zenon, <2>2 DEF b
<1>5. /\ \A s \in granted : Below(s, old) \/ \E i \in Range(ids) : Below(s, scopes[i])
      /\ n = 0 => /\ Below(old, MergeAll(granted))
                  /\ \A i \in Range(ids) : Below(scopes[i], MergeAll(granted))
  BY Zenon DEF CommandCallInv
<1> HIDE DEF ids, id, old, new, granted
<1>6. /\ y \in Call(scopes) /\ y.at = "reading" /\ y.request = x.request /\ y.ids = Tail(ids)
      /\ y.read = new /\ y.since = x.since
  <2>1. y = [at |-> "reading", request |-> x.request, ids |-> Tail(ids), read |-> new, since |-> x.since]
    BY Zenon DEF ids, id, old, new
  <2> DEFINE rest == Tail(ids)
             request == x.request
             since == x.since
  <2>2. /\ rest \in Seq(DOMAIN scopes) /\ request \in Requests /\ since \subseteq Capabilities
        /\ y = [at |-> "reading", request |-> request, ids |-> rest, read |-> new, since |-> since]
    BY ZenonT(60), <1>1, <1>2, <2>1
  <2> HIDE DEF rest, request, since
  <2>3. /\ y \in Call(scopes) /\ y.at = "reading" /\ y.request = request /\ y.ids = rest
        /\ y.read = new /\ y.since = since
    BY <1>4, <2>2 DEF Call
  <2>4. QED BY Zenon, <2>3 DEF rest, request, since
<1>7. ASSUME NEW s \in granted PROVE Below(s, new) \/ \E i \in Range(Tail(ids)) : Below(s, scopes[i])
  BY ZenonT(60), <1>2, <1>4, <1>5, BelowTwice
<1>8. ASSUME n = 0
      PROVE  /\ Below(new, MergeAll(granted))
             /\ \A i \in Range(Tail(ids)) : Below(scopes[i], MergeAll(granted))
  BY ZenonT(60), <1>2, <1>4, <1>5, <1>8
<1>9. y.at # "done" /\ y.request.wants # "global"
  BY ZenonT(30), <1>6
<1>10. CommandCallInv(y, scopes, n)
  BY ZenonT(60), <1>6, <1>7, <1>8, <1>9 DEF CommandCallInv, granted
<1>11. QED BY ZenonT(60), <1>6, <1>9, <1>10 DEF ThreadInv

\* CommandScope::resolve is at its end: everything granted is read.
LEMMA ScopesRead ==
  ASSUME NEW scopes, NEW n, NEW hasFailed, NEW x \in Call(scopes),
         CommandCallInv(x, scopes, n), x.request.wants = "command", x.ids = <<>>,
         NEW y, y = [at |-> "done", request |-> x.request, ids |-> x.ids, read |-> x.read, since |-> x.since]
  PROVE  ThreadInv(y, scopes, n, hasFailed)
<1>1. /\ x.request \in Requests /\ x.ids \in Seq(DOMAIN scopes)
      /\ x.read \in PlainScope /\ x.since \subseteq Capabilities
  BY ZenonT(60), CallFields
<1>2. /\ y \in Call(scopes) /\ y.at = "done" /\ y.request = x.request /\ y.ids = x.ids
      /\ y.read = x.read /\ y.since = x.since
  BY Zenon, <1>1 DEF Call
<1>3. y.request.wants # "global"
  BY Zenon, <1>2
<1>4. CommandCallInv(y, scopes, n)
  BY ZenonT(60), <1>2 DEF CommandCallInv
<1>5. QED BY ZenonT(60), <1>2, <1>3, <1>4 DEF ThreadInv

\* get_global_scope_typed.
LEMMA GlobalRead ==
  ASSUME TablesInv, GlobalInv, CachesInv, NEW x \in Call(command_scope), x.request.wants = "global",
         NEW T, T = x.request.type,
         NEW scope, scope = IF T \in DOMAIN global_scope_cache THEN global_scope_cache[T]
                            ELSE OwnGlobal(global_scope, x.request.cmd.key),
         NEW y, y = [at |-> "done", request |-> x.request, ids |-> x.ids, read |-> scope, since |-> added]
  PROVE  /\ ThreadInv(y, command_scope, adds, failed)
         /\ \E r \in Requests : /\ r.wants = "global" /\ r.type = T
                                /\ scope = OwnGlobal(global_scope, r.cmd.key)
<1>1. x.request \in Requests /\ x.ids \in Seq(DOMAIN command_scope)
  BY Zenon, CallFields
<1>2. PICK r \in Requests : /\ r.wants = "global" /\ r.type = T
                            /\ scope = OwnGlobal(global_scope, r.cmd.key)
  BY Zenon, <1>1 DEF CachesInv
<1>3. EmptyScope \in PlainScope
  BY Zenon DEF EmptyScope, PlainScope
<1>4. scope \in PlainScope /\ added \subseteq Capabilities
  BY ZenonT(60), <1>2, <1>3 DEF TablesInv, OwnGlobal
<1>5. /\ y \in Call(command_scope) /\ y.at = "done" /\ y.request = x.request
      /\ y.read = scope /\ y.since = added
  BY ZenonT(30), <1>1, <1>4 DEF Call
<1>6. ASSUME ~SharedType(T) PROVE scope = MergeAll(GlobalScopes(added, x.request.cmd.key))
  <2>1. r.cmd.key = x.request.cmd.key
    BY ZenonT(60), <1>1, <1>2, <1>6 DEF SharedType
  <2>2. r.cmd.key \in RequestKeys
    BY Zenon DEF RequestKeys
  <2>3. QED BY ZenonT(60), <1>2, <2>1, <2>2 DEF GlobalInv
<1>7. GlobalCallInv(y)
  BY ZenonT(60), <1>5, <1>6 DEF GlobalCallInv
<1>8. y.request.wants # "command"
  BY ZenonT(30), <1>5
<1>9. QED BY ZenonT(60), <1>2, <1>5, <1>7, <1>8 DEF ThreadInv

-----------------------------------------------------------------------------
\* The inductive invariant.

\* RuntimeAuthority::new: the tables are those of the resolution of the base
\* capabilities, the caches are empty and no command runs.
LEMMA InitIInv == Init => IInv
<1> SUFFICES ASSUME Init PROVE IInv
  BY Zenon
<1> DEFINE R == Resolution[Base]
<1>1. /\ allowed_commands = R.allowed /\ denied_commands = R.denied
      /\ command_scope = R.command_scope /\ global_scope = R.global_scope
      /\ command_cache = [n \in DOMAIN R.command_scope |-> Empty]
      /\ global_scope_cache = Empty /\ poisoned = FALSE /\ failed = FALSE
      /\ thread = [t \in Threads |-> Idle] /\ added = Range(Base) /\ adds = 0
  BY Zenon DEF Init
<1>2. Base \in Files \cup {Base} /\ Resolves(Base) /\ Range(Base) \subseteq Capabilities
  BY ZenonT(60), AuthorityAssumption, FilesWellFormed
<1>3. TablesInv
  <2>1. /\ DOMAIN R.allowed = Commands /\ DOMAIN R.denied = Commands
        /\ \A c \in Commands :
             /\ IsSequence(R.allowed[c]) /\ IsSequence(R.denied[c])
             /\ Range(R.allowed[c]) \subseteq EntryOf(Range(Base), DOMAIN R.command_scope)
        /\ NoScopeId \notin DOMAIN R.command_scope
        /\ \A n \in DOMAIN R.command_scope : R.command_scope[n] \in PlainScope
    BY ZenonT(60), <1>2, FileTables
  <2>2. \A k \in DOMAIN R.global_scope : k \in Keys /\ R.global_scope[k] \in PlainScope
    BY ZenonT(60), <1>2, FileGlobal
  <2>3. 0 \in Nat
    BY Zenon
  <2> HIDE DEF R
  <2>4. QED BY ZenonT(60), <1>1, <1>2, <2>1, <2>2, <2>3 DEF TablesInv
<1>4. ASSUME NEW r \in Requests, r.cmd \in Commands PROVE GrantsInv(r)
  <2>1. /\ \A s \in GrantedScopes(Range(Base), r) :
             \E a \in Range(R.allowed[r.cmd]) : Matches(a, r) /\ Carries(R.command_scope, a, s)
        /\ \A a \in Range(R.allowed[r.cmd]) : Matches(a, r) =>
             \E s \in GrantedScopes(Range(Base), r) : Carries(R.command_scope, a, s)
        /\ R.denied[r.cmd] # <<>> <=> \E c \in Range(Base) : DeniesCommand[c][r]
    BY ZenonT(60), <1>2, <1>4, FileGrants
  <2>2. \A s : Below(s, [allow |-> s.allow, deny |-> s.deny])
    BY Zenon DEF Below
  <2>3. \A a, s : Carries(R.command_scope, a, s) => Covers(R.command_scope, a, s)
    BY Zenon, <2>2 DEF Carries, Covers
  <2> HIDE DEF R
  <2>4. QED BY ZenonT(60), <1>1, <2>1, <2>3 DEF GrantsInv
<1>5. GlobalInv
  BY ZenonT(60), <1>1, <1>2, FileGlobal DEF GlobalInv
<1>6. CachesInv
  BY Zenon, <1>1 DEF CachesInv, Empty
<1>7. Idle \in Ended
  BY DEF Ended
<1>8. QED BY ZenonT(60), <1>1, <1>3, <1>4, <1>5, <1>6, <1>7 DEF IInv, ThreadInv

\* What says nothing of the caches and the threads.
Grants == TablesInv /\ (\A r \in Requests : r.cmd \in Commands => GrantsInv(r)) /\ GlobalInv

\* Most steps leave the tables alone.
LEMMA SameTables ==
  ASSUME Grants, UNCHANGED <<allowed_commands, denied_commands, command_scope, global_scope, added, adds>>
  PROVE  Grants'
<1>1. TablesInv'
  BY Zenon DEF Grants, TablesInv
<1>2. ASSUME NEW r \in Requests, r.cmd \in Commands PROVE GrantsInv(r)'
  BY Zenon, <1>2 DEF Grants, GrantsInv
<1>3. GlobalInv'
  BY Zenon DEF Grants, GlobalInv
<1>4. QED BY ZenonT(60), <1>1, <1>2, <1>3 DEF Grants

\* One thread moves on.
LEMMA OneThread ==
  ASSUME DOMAIN thread = Threads, \A t \in Threads : ThreadInv(thread[t], command_scope, adds, failed),
         UNCHANGED <<command_scope, adds, failed>>, NEW t \in Threads, NEW x,
         ThreadInv(x, command_scope, adds, failed), thread' = [thread EXCEPT ![t] = x]
  PROVE  /\ DOMAIN thread' = Threads
         /\ \A u \in Threads : ThreadInv(thread'[u], command_scope', adds', failed')
<1>1. DOMAIN thread' = Threads /\ thread'[t] = x /\ \A u \in Threads \ {t} : thread'[u] = thread[u]
  BY Zenon
<1>2. QED BY Zenon, <1>1

\* The threads of IInv, and the lock.
Threaded ==
  /\ poisoned \in BOOLEAN /\ failed \in BOOLEAN /\ (poisoned => failed)
  /\ DOMAIN thread = Threads
  /\ \A t \in Threads : ThreadInv(thread[t], command_scope, adds, failed)

\* The invariant of the tables, of the caches and of the threads.
LEMMA Parts == IInv <=> Grants /\ CachesInv /\ Threaded
BY Zenon DEF IInv, Grants, Threaded

\* A step of one thread that leaves tables and lock alone.
LEMMA ThreadStep ==
  ASSUME Grants, Threaded, CachesInv',
         UNCHANGED <<allowed_commands, denied_commands, command_scope, global_scope, poisoned,
                     added, adds, failed>>,
         NEW t \in Threads, NEW x,
         ThreadInv(x, command_scope, adds, failed), thread' = [thread EXCEPT ![t] = x]
  PROVE  IInv'
<1>1. Grants'
  BY Zenon, SameTables
<1>2. /\ DOMAIN thread' = Threads
      /\ \A u \in Threads : ThreadInv(thread'[u], command_scope', adds', failed')
  BY Zenon, OneThread DEF Threaded
<1>3. Threaded'
  BY Zenon, <1>2 DEF Threaded
<1>4. QED BY Zenon, <1>1, <1>3 DEF IInv, Grants, Threaded

\* The caches are right as long as neither they nor the scopes change.
LEMMA SameCaches ==
  ASSUME CachesInv, UNCHANGED <<command_cache, command_scope, global_scope, global_scope_cache>>
  PROVE  CachesInv'
BY ZenonT(60) DEF CachesInv

\* ... and the caches.
LEMMA ThreadMoves ==
  ASSUME Grants, Threaded, CachesInv, UNCHANGED <<global_scope_cache, poisoned, tables>>,
         NEW t \in Threads, NEW x,
         ThreadInv(x, command_scope, adds, failed), thread' = [thread EXCEPT ![t] = x]
  PROVE  IInv'
<1>1. UNCHANGED <<allowed_commands, denied_commands, command_scope, global_scope, command_cache,
                  added, adds, failed>>
  BY Zenon DEF tables
<1>2. CachesInv'
  BY Zenon, <1>1, SameCaches
<1>3. QED BY Zenon, <1>1, <1>2, ThreadStep

\* add_capability extends the tables with what the file declares, and drops every
\* cached scope that it changes.
LEMMA StepAdd ==
  ASSUME IInv, NEW f \in Files, AddCapability(f)
  PROVE  IInv'
<1>1. Grants /\ CachesInv /\ Threaded
  BY Zenon, Parts
<1>2. TablesInv'
  BY ZenonT(60), <1>1, TablesAdded DEF Grants
<1>3. \A r \in Requests : r.cmd \in Commands => GrantsInv(r)'
  BY Zenon, <1>1, GrantsAdded DEF Grants
<1>4. GlobalInv' /\ CachesInv'
  BY ZenonT(60), <1>1, GlobalAdded, CachesAdded DEF Grants
<1>5. UNCHANGED <<poisoned, thread, failed>>
  BY Zenon DEF AddCapability
<1>6. \A t \in Threads : ThreadInv(thread[t], command_scope', adds', failed')
  BY ZenonT(60), <1>1, ThreadAdded DEF Grants, Threaded
<1>7. QED BY ZenonT(60), <1>1, <1>2, <1>3, <1>4, <1>5, <1>6 DEF IInv, Threaded

\* A capability that does not resolve leaves the tables as they are.
LEMMA StepAddPanics ==
  ASSUME IInv, NEW f \in Files, AddCapabilityPanics(f)
  PROVE  IInv'
<1>1. /\ Grants /\ CachesInv /\ Threaded
      /\ adds \in Nat /\ adds' = adds + 1 /\ poisoned' = TRUE /\ failed' = TRUE
      /\ UNCHANGED <<allowed_commands, denied_commands, command_scope, global_scope,
                     command_cache, global_scope_cache, thread, added>>
  BY Zenon, Parts DEF AddCapabilityPanics, Grants, TablesInv
<1>2. adds' \in Nat /\ adds' # 0
  BY <1>1
<1>3. TablesInv'
  BY ZenonT(60), <1>1, <1>2 DEF Grants, TablesInv
<1>4. ASSUME NEW r \in Requests, r.cmd \in Commands PROVE GrantsInv(r)'
  BY ZenonT(60), <1>1, <1>2, <1>4 DEF Grants, GrantsInv
<1>5. GlobalInv' /\ CachesInv'
  BY Zenon, <1>1 DEF Grants, GlobalInv, CachesInv
<1>6. ASSUME NEW t \in Threads PROVE ThreadInv(thread[t], command_scope, adds', TRUE)
  <2>1. ThreadInv(thread[t], command_scope, adds, failed)
    BY Zenon, <1>1 DEF Threaded
  <2>2. QED BY ZenonT(60), <1>2, <2>1 DEF ThreadInv, CommandCallInv
<1>7. Threaded'
  BY ZenonT(60), <1>1, <1>6 DEF Threaded
<1>8. QED BY ZenonT(60), <1>3, <1>4, <1>5, <1>7 DEF IInv, Threaded

\* on_message starts a call with the scope ids of all the entries that match it.
LEMMA StepOnMessage ==
  ASSUME IInv, NEW t \in Threads, NEW r \in Requests, OnMessage(t, r)
  PROVE  IInv'
<1> DEFINE x == IF Checked(r) /\ ResolveAccess(r) = <<>> THEN [at |-> "rejected", request |-> r]
                ELSE [at |-> "reading", request |-> r, ids |-> ScopeIds(ResolveAccess(r)),
                      read |-> EmptyScope, since |-> added]
<1>1. /\ Grants /\ CachesInv /\ Threaded
      /\ thread' = [thread EXCEPT ![t] = x]
      /\ UNCHANGED <<global_scope_cache, poisoned, tables>>
  BY ZenonT(60), Parts DEF OnMessage
<1>2. ThreadInv(x, command_scope, adds, failed)
  <2>1. CASE Checked(r) /\ ResolveAccess(r) = <<>>
    <3>1. x = [at |-> "rejected", request |-> r]
      BY Zenon, <2>1
    <3> HIDE DEF x
    <3>2. x \in Ended
      BY <3>1 DEF Ended
    <3>3. QED BY Zenon, <3>2 DEF ThreadInv
  <2>2. CASE ~(Checked(r) /\ ResolveAccess(r) = <<>>)
    <3>1. x = [at |-> "reading", request |-> r, ids |-> ScopeIds(ResolveAccess(r)),
               read |-> EmptyScope, since |-> added]
      BY Zenon, <2>2
    <3> HIDE DEF x
    <3>2. QED BY ZenonT(60), <1>1, <2>2, <3>1, CallStarted DEF Grants
  <2>3. QED BY ZenonT(60), <2>1, <2>2
<1> HIDE DEF x
<1>3. QED BY ZenonT(60), <1>1, <1>2, ThreadMoves

\* A thread that meets a poisoned lock panics, which a failed add_capability caused.
LEMMA StepLockPoisoned ==
  ASSUME IInv, NEW t \in Threads, LockPoisoned(t)
  PROVE  IInv'
<1> DEFINE x == [at |-> "panicked"]
<1>1. /\ Grants /\ CachesInv /\ Threaded /\ failed
      /\ thread' = [thread EXCEPT ![t] = x]
      /\ UNCHANGED <<global_scope_cache, poisoned, tables>>
  BY ZenonT(60), Parts DEF LockPoisoned, Threaded
<1>2. ThreadInv(x, command_scope, adds, failed)
  BY ZenonT(60), <1>1 DEF ThreadInv
<1> HIDE DEF x
<1>3. QED BY ZenonT(60), <1>1, <1>2, ThreadMoves

\* A call that ends leaves nothing behind.
LEMMA StepReturn ==
  ASSUME IInv, NEW t \in Threads, Return(t)
  PROVE  IInv'
<1>1. /\ Grants /\ CachesInv /\ Threaded
      /\ thread' = [thread EXCEPT ![t] = Idle]
      /\ UNCHANGED <<global_scope_cache, poisoned, tables>>
  BY ZenonT(60), Parts DEF Return
<1>2. Idle \in Ended
  BY DEF Ended
<1>3. ThreadInv(Idle, command_scope, adds, failed)
  BY Zenon, <1>2 DEF ThreadInv
<1>4. QED BY ZenonT(60), <1>1, <1>3, ThreadMoves

\* A thread that reads has a call.
LEMMA ReadingCall ==
  ASSUME IInv, NEW t \in Threads, NEW wants, Reading(t, wants)
  PROVE  /\ thread[t] \in Call(command_scope) /\ thread[t].at = "reading"
         /\ thread[t].request.wants = wants
         /\ wants = "command" => CommandCallInv(thread[t], command_scope, adds)
<1>1. ThreadInv(thread[t], command_scope, adds, failed)
  BY Zenon DEF IInv
<1>2. thread[t].at = "reading" /\ thread[t].request.wants = wants
  BY Zenon DEF Reading
<1>3. QED BY ZenonT(60), <1>1, <1>2, Calling

\* A command that has no scope id left has read every scope.
LEMMA StepCommandScopeRead ==
  ASSUME IInv, NEW t \in Threads, CommandScopeRead(t)
  PROVE  IInv'
<1> DEFINE x == thread[t]
           y == [at |-> "done", request |-> x.request, ids |-> x.ids, read |-> x.read, since |-> x.since]
<1>1. /\ Grants /\ CachesInv /\ Threaded
      /\ thread' = [thread EXCEPT ![t].at = "done"] /\ x.ids = <<>>
      /\ UNCHANGED <<global_scope_cache, poisoned, tables>>
  BY Zenon, Parts DEF CommandScopeRead
<1>2. /\ x \in Call(command_scope) /\ x.request.wants = "command"
      /\ CommandCallInv(x, command_scope, adds)
  BY ZenonT(60), ReadingCall DEF CommandScopeRead
<1>3. ThreadInv(y, command_scope, adds, failed)
  <2> HIDE DEF x
  <2>1. QED BY ZenonT(60), <1>1, <1>2, ScopesRead
<1>4. thread' = [thread EXCEPT ![t] = y]
  <2>1. thread' = [thread EXCEPT ![t] = [x EXCEPT !.at = "done"]]
    BY ZenonT(60), <1>1
  <2>2. [x EXCEPT !.at = "done"] = y
    <3> HIDE DEF x
    <3>1. QED BY <1>2 DEF Call
  <2> HIDE DEF x, y
  <2>3. QED BY ZenonT(60), <2>1, <2>2
<1> HIDE DEF y
<1>5. QED BY ZenonT(60), <1>1, <1>3, <1>4, ThreadMoves

\* A call whose scope does not deserialize is over.
LEMMA Failed ==
  ASSUME NEW x, NEW scopes, x \in Call(scopes), NEW n, NEW hasFailed
  PROVE  ThreadInv([at |-> "failed", request |-> x.request], scopes, n, hasFailed)
<1>1. x.request \in Requests
  BY ZenonT(60), CallFields
<1>2. [at |-> "failed", request |-> x.request] \in Ended
  BY <1>1 DEF Ended
<1>3. QED BY ZenonT(60), <1>2 DEF ThreadInv

\* A call with some of its fields changed.
LEMMA CallDone ==
  ASSUME NEW scopes, NEW x \in Call(scopes), NEW s, NEW c, NEW y,
         y = [x EXCEPT !.at = "done", !.read = s, !.since = c]
  PROVE  y = [at |-> "done", request |-> x.request, ids |-> x.ids, read |-> s, since |-> c]
<1> DEFINE at == x.at
           request == x.request
           ids == x.ids
           read == x.read
           since == x.since
           x1 == [x EXCEPT !.at = "done"]
           x2 == [x1 EXCEPT !.read = s]
           x3 == [x2 EXCEPT !.since = c]
<1>1. y = x3
  BY Zenon
<1>2. x = [at |-> at, request |-> request, ids |-> ids, read |-> read, since |-> since]
  BY Zenon, CallFields
<1> HIDE DEF at, request, ids, read, since
<1>3. x1 = [at |-> "done", request |-> request, ids |-> ids, read |-> read, since |-> since]
  BY <1>2
<1> HIDE DEF x1
<1>4. x2 = [at |-> "done", request |-> request, ids |-> ids, read |-> s, since |-> since]
  BY <1>3
<1> HIDE DEF x2
<1>5. x3 = [at |-> "done", request |-> request, ids |-> ids, read |-> s, since |-> c]
  BY <1>4
<1> HIDE DEF x3
<1>6. QED BY ZenonT(60), <1>1, <1>5 DEF request, ids

\* A call that has read one scope more.
LEMMA CallGoesOn ==
  ASSUME NEW scopes, NEW x \in Call(scopes), NEW i, NEW s, NEW y,
         y = [x EXCEPT !.ids = i, !.read = s]
  PROVE  y = [at |-> x.at, request |-> x.request, ids |-> i, read |-> s, since |-> x.since]
<1> DEFINE at == x.at
           request == x.request
           ids == x.ids
           read == x.read
           since == x.since
           x1 == [x EXCEPT !.ids = i]
           x2 == [x1 EXCEPT !.read = s]
<1>1. y = x2
  BY Zenon
<1>2. x = [at |-> at, request |-> request, ids |-> ids, read |-> read, since |-> since]
  BY ZenonT(30), CallFields
<1> HIDE DEF at, request, ids, read, since
<1>3. x1 = [at |-> at, request |-> request, ids |-> i, read |-> read, since |-> since]
  BY <1>2
<1> HIDE DEF x1
<1>4. x2 = [at |-> at, request |-> request, ids |-> i, read |-> s, since |-> since]
  BY <1>3
<1> HIDE DEF x2
<1>5. QED BY ZenonT(60), <1>1, <1>4 DEF at, request, since

\* get_global_scope_typed reads the scope of the plugin, or what the cache has for
\* the type.
LEMMA StepReadGlobalScope ==
  ASSUME IInv, NEW t \in Threads, ReadGlobalScope(t)
  PROVE  IInv'
<1> DEFINE x == thread[t]
           key == x.request.cmd.key
           T == x.request.type
           scope == IF T \in DOMAIN global_scope_cache THEN global_scope_cache[T]
                    ELSE OwnGlobal(global_scope, key)
           y == [at |-> "done", request |-> x.request, ids |-> x.ids, read |-> scope, since |-> added]
<1>1. /\ Grants /\ CachesInv /\ Threaded /\ TablesInv /\ GlobalInv
      /\ UNCHANGED <<poisoned, tables>>
      /\ \/ /\ thread' = [thread EXCEPT ![t].at = "done", ![t].read = scope, ![t].since = added]
            /\ global_scope_cache' = Put(global_scope_cache, T, scope)
         \/ thread' = Fail(t) /\ UNCHANGED global_scope_cache
  BY ZenonT(60), Parts DEF ReadGlobalScope, OwnGlobal, Grants
<1>2. x \in Call(command_scope) /\ x.request.wants = "global"
  BY ZenonT(60), ReadingCall DEF ReadGlobalScope
<1>3. CASE thread' = Fail(t) /\ UNCHANGED global_scope_cache
  <2>1. thread' = [thread EXCEPT ![t] = [at |-> "failed", request |-> x.request]]
    BY ZenonT(60), <1>3 DEF Fail
  <2>2. ThreadInv([at |-> "failed", request |-> x.request], command_scope, adds, failed)
    BY ZenonT(60), <1>2, Failed
  <2>3. QED BY ZenonT(60), <1>1, <1>3, <2>1, <2>2, ThreadMoves
<1>4. CASE /\ thread' = [thread EXCEPT ![t].at = "done", ![t].read = scope, ![t].since = added]
           /\ global_scope_cache' = Put(global_scope_cache, T, scope)
  <2>1. /\ ThreadInv(y, command_scope, adds, failed)
        /\ \E r \in Requests : /\ r.wants = "global" /\ r.type = T
                               /\ scope = OwnGlobal(global_scope, r.cmd.key)
    <3> HIDE DEF x
    <3>1. QED BY SMTT(20), <1>1, <1>2, GlobalRead
  <2>2. thread' = [thread EXCEPT ![t] = y]
    <3> HIDE DEF scope
    <3>1. thread' = [thread EXCEPT ![t] = [x EXCEPT !.at = "done", !.read = scope, !.since = added]]
      BY ZenonT(60), <1>1, <1>4 DEF Threaded
    <3> DEFINE z == [x EXCEPT !.at = "done", !.read = scope, !.since = added]
    <3>2. z = y
      <4>1. z = [x EXCEPT !.at = "done", !.read = scope, !.since = added]
        BY Zenon
      <4> HIDE DEF x, z
      <4>2. QED BY Zenon, <1>2, <4>1, CallDone
    <3> HIDE DEF x, y
    <3>3. QED BY ZenonT(60), <3>1, <3>2
  <2>3. CachesInv'
    <3> HIDE DEF scope, T, y
    <3>1. /\ DOMAIN global_scope_cache' = DOMAIN global_scope_cache \cup {T}
          /\ global_scope_cache'[T] = scope
          /\ \A z \in DOMAIN global_scope_cache : z # T => global_scope_cache'[z] = global_scope_cache[z]
      <4>1. global_scope_cache' = Put(global_scope_cache, T, scope)
        BY ZenonT(60), <1>4
      <4> DEFINE g == global_scope_cache
                 h == global_scope_cache'
      <4>2. h = Put(g, T, scope)
        BY ZenonT(60), <4>1
      <4> HIDE DEF g, h
      <4>3. DOMAIN h = DOMAIN g \cup {T} /\ h[T] = scope /\ \A z \in DOMAIN g : z # T => h[z] = g[z]
        BY ZenonT(60), <4>2 DEF Put
      <4>4. QED BY ZenonT(60), <4>3 DEF g, h
    <3>2. UNCHANGED <<command_cache, command_scope, global_scope>>
      BY ZenonT(60), <1>1 DEF tables
    <3>3. ASSUME NEW z \in DOMAIN global_scope_cache'
          PROVE  \E r \in Requests : /\ r.wants = "global" /\ r.type = z
                                     /\ global_scope_cache'[z] = OwnGlobal(global_scope', r.cmd.key)
      <4>1. CASE z = T
        BY ZenonT(60), <2>1, <3>1, <3>2, <4>1
      <4>2. CASE z # T
        <5>1. z \in DOMAIN global_scope_cache /\ global_scope_cache'[z] = global_scope_cache[z]
          BY ZenonT(60), <3>1, <3>3, <4>2
        <5>2. PICK r \in Requests : /\ r.wants = "global" /\ r.type = z
                                    /\ global_scope_cache[z] = OwnGlobal(global_scope, r.cmd.key)
          BY ZenonT(60), <1>1, <5>1 DEF CachesInv
        <5>3. QED BY ZenonT(60), <3>2, <5>1, <5>2
      <4>3. QED BY ZenonT(60), <4>1, <4>2
    <3>4. QED BY ZenonT(60), <1>1, <3>2, <3>3 DEF CachesInv
  <2>4. UNCHANGED <<allowed_commands, denied_commands, command_scope, global_scope, poisoned,
                    added, adds, failed>>
    BY ZenonT(60), <1>1 DEF tables
  <2> HIDE DEF scope, T, y
  <2>5. QED BY ZenonT(60), <1>1, <2>1, <2>2, <2>3, <2>4, ThreadStep
<1>5. QED BY ZenonT(60), <1>1, <1>3, <1>4

\* get_command_scope_typed finds every scope id of a granted call, and what it
\* reads, cached or not, is the scope of the id.
LEMMA StepReadCommandScope ==
  ASSUME IInv, NEW t \in Threads, ReadCommandScope(t)
  PROVE  IInv'
<1> DEFINE x == thread[t]
           id == Head(x.ids)
           T == x.request.type
           cached == T \in DOMAIN command_cache[id]
           scope == IF cached THEN command_cache[id][T] ELSE command_scope[id]
           present == id \in DOMAIN command_cache /\ (cached \/ id \in DOMAIN command_scope)
           y == [at |-> "reading", request |-> x.request, ids |-> Tail(x.ids),
                 read |-> MergeAll({x.read, command_scope[id]}), since |-> x.since]
<1>1. /\ Grants /\ CachesInv /\ Threaded /\ TablesInv
      /\ UNCHANGED <<allowed_commands, denied_commands, command_scope, global_scope,
                     global_scope_cache, added, adds, failed>>
  BY ZenonT(60), Parts DEF ReadCommandScope, Grants
<1>2. /\ x \in Call(command_scope) /\ x.at = "reading" /\ x.request.wants = "command"
      /\ CommandCallInv(x, command_scope, adds) /\ x.ids # <<>>
  BY ZenonT(60), ReadingCall DEF ReadCommandScope
<1>3. id \in DOMAIN command_scope /\ T \in Types
  <2>1. x.request \in Requests /\ x.ids \in Seq(DOMAIN command_scope)
    BY ZenonT(60), <1>2, CallFields
  <2>2. id \in Range(x.ids)
    BY ZenonT(60), <1>2, <2>1, HeadTail
  <2>3. QED BY ZenonT(60), <2>1, <2>2, IsSeq, AuthorityAssumption
<1>4. present /\ scope = command_scope[id] /\ id \in DOMAIN command_cache
  BY ZenonT(60), <1>1, <1>3 DEF CachesInv
<1>5. /\ UNCHANGED poisoned
      /\ \/ /\ thread' = [thread EXCEPT ![t].ids = Tail(@), ![t].read = MergeAll({@, scope})]
            /\ command_cache' = Put(command_cache, id, Put(command_cache[id], T, scope))
         \/ thread' = Fail(t) /\ UNCHANGED command_cache
  BY ZenonT(60), <1>4 DEF ReadCommandScope
<1>6. CASE thread' = Fail(t) /\ UNCHANGED command_cache
  <2>1. thread' = [thread EXCEPT ![t] = [at |-> "failed", request |-> x.request]]
    BY Zenon, <1>6 DEF Fail
  <2>2. ThreadInv([at |-> "failed", request |-> x.request], command_scope, adds, failed)
    BY ZenonT(60), <1>2, Failed
  <2>3. CachesInv'
    BY ZenonT(60), <1>1, <1>6, SameCaches
  <2>4. QED BY ZenonT(60), <1>1, <1>5, <2>1, <2>2, <2>3, ThreadStep
<1>7. CASE /\ thread' = [thread EXCEPT ![t].ids = Tail(@), ![t].read = MergeAll({@, scope})]
           /\ command_cache' = Put(command_cache, id, Put(command_cache[id], T, scope))
  <2>1. ThreadInv(y, command_scope, adds, failed)
    <3>1. Plain(command_scope)
      BY ZenonT(60), <1>1 DEF TablesInv, Plain
    <3> HIDE DEF x
    <3>2. QED BY ZenonT(30), <1>2, <3>1, ScopeRead
  <2>2. thread' = [thread EXCEPT ![t] = y]
    <3> HIDE DEF scope
    <3>1. thread' = [thread EXCEPT ![t] = [x EXCEPT !.ids = Tail(x.ids), !.read = MergeAll({x.read, scope})]]
      BY ZenonT(60), <1>1, <1>2, <1>7 DEF Threaded, Call
    <3> DEFINE z == [x EXCEPT !.ids = Tail(x.ids), !.read = MergeAll({x.read, scope})]
    <3>2. z = y
      <4> DEFINE i == Tail(x.ids)
                 s == MergeAll({x.read, scope})
      <4>1. /\ z = [x EXCEPT !.ids = i, !.read = s]
            /\ y = [at |-> x.at, request |-> x.request, ids |-> i, read |-> s, since |-> x.since]
        BY ZenonT(60), <1>2, <1>4
      <4> HIDE DEF x, y, z, i, s
      <4>2. QED BY ZenonT(30), <1>2, <4>1, CallGoesOn
    <3> HIDE DEF x, y
    <3>3. QED BY ZenonT(60), <3>1, <3>2
  <2>3. CachesInv'
    <3> DEFINE cache == command_cache[id]
               new == Put(cache, T, scope)
    <3> HIDE DEF scope, T, id, y
    <3>1. /\ DOMAIN new = DOMAIN cache \cup {T} /\ new[T] = scope
          /\ \A z \in DOMAIN cache : z # T => new[z] = cache[z]
      <4>1. new = Put(cache, T, scope)
        BY Zenon
      <4> HIDE DEF cache, new
      <4>2. QED BY ZenonT(60), <4>1 DEF Put
    <3>2. /\ DOMAIN command_cache' = DOMAIN command_cache \cup {id} /\ command_cache'[id] = new
          /\ \A n \in DOMAIN command_cache : n # id => command_cache'[n] = command_cache[n]
      <4> DEFINE g == command_cache
                 h == command_cache'
      <4>1. h = Put(g, id, new)
        BY ZenonT(60), <1>7
      <4> HIDE DEF g, h, new
      <4>2. DOMAIN h = DOMAIN g \cup {id} /\ h[id] = new /\ \A n \in DOMAIN g : n # id => h[n] = g[n]
        BY Zenon, <4>1 DEF Put
      <4>3. QED BY ZenonT(60), <4>2 DEF g, h
    <3> HIDE DEF new
    <3>3. /\ DOMAIN command_cache = DOMAIN command_scope
          /\ \A n \in DOMAIN command_scope : \A U \in DOMAIN command_cache[n] :
               U \in Types /\ command_cache[n][U] = command_scope[n]
      BY ZenonT(60), <1>1 DEF CachesInv
    <3>4. ASSUME NEW n \in DOMAIN command_scope, NEW U \in DOMAIN command_cache'[n]
          PROVE  U \in Types /\ command_cache'[n][U] = command_scope[n]
      <4>1. CASE n # id
        BY ZenonT(60), <3>2, <3>3, <3>4, <4>1
      <4>2. CASE n = id /\ U = T
        BY ZenonT(60), <1>3, <1>4, <3>1, <3>2, <4>2
      <4>3. CASE n = id /\ U # T
        BY ZenonT(60), <1>3, <3>1, <3>2, <3>3, <3>4, <4>3
      <4>4. QED BY ZenonT(60), <4>1, <4>2, <4>3
    <3>5. DOMAIN command_cache' = DOMAIN command_scope
      BY ZenonT(60), <1>3, <3>2, <3>3
    <3>6. QED BY ZenonT(60), <1>1, <3>4, <3>5 DEF CachesInv
  <2> HIDE DEF scope, T, id, y
  <2>4. QED BY ZenonT(60), <1>1, <1>5, <2>1, <2>2, <2>3, ThreadStep
<1>8. QED BY ZenonT(60), <1>5, <1>6, <1>7

\* Every step of RuntimeAuthority preserves the invariant.
LEMMA NextIInv == IInv /\ [Next]_vars => IInv'
<1> SUFFICES ASSUME IInv, [Next]_vars PROVE IInv'
  BY Zenon
<1>1. CASE Next
  <2>1. ASSUME NEW f \in Files, AddCapability(f) \/ AddCapabilityPanics(f) PROVE IInv'
    BY ZenonT(60), <2>1, StepAdd, StepAddPanics
  <2>2. ASSUME NEW t \in Threads, NEW r \in Requests, OnMessage(t, r) PROVE IInv'
    BY ZenonT(60), <2>2, StepOnMessage
  <2>3. ASSUME NEW t \in Threads, \/ LockPoisoned(t) \/ ReadCommandScope(t) \/ CommandScopeRead(t)
                                  \/ ReadGlobalScope(t) \/ Return(t)
        PROVE  IInv'
    BY ZenonT(60), <2>3, StepLockPoisoned, StepReadCommandScope, StepCommandScopeRead,
       StepReadGlobalScope, StepReturn
  <2>4. QED BY ZenonT(60), <1>1, <2>1, <2>2, <2>3 DEF Next
<1>2. CASE UNCHANGED vars
  <2>1. Grants /\ CachesInv /\ Threaded
    BY Zenon, Parts
  <2>2. UNCHANGED <<allowed_commands, denied_commands, command_scope, global_scope, command_cache,
                    global_scope_cache, poisoned, thread, added, adds, failed>>
    BY Zenon, <1>2 DEF vars
  <2>3. Grants' /\ CachesInv'
    BY ZenonT(60), <2>1, <2>2, SameTables, SameCaches
  <2>4. Threaded'
    BY ZenonT(60), <2>1, <2>2 DEF Threaded
  <2>5. QED BY ZenonT(60), <2>3, <2>4 DEF IInv, Grants, Threaded
<1>3. QED BY ZenonT(60), <1>1, <1>2

\* IInv holds in every reachable state.
THEOREM Invariance == Spec => []IInv
BY InitIInv, NextIInv, PTL DEF Spec

-----------------------------------------------------------------------------
\* What it implies.

\* The tables, caches and threads of RuntimeAuthority hold what their code stores,
\* and every scope id that an allowed entry names has a scope and a cache.
THEOREM TypeCorrect == Spec => []TypeOK
<1>1. IInv => TypeOK
  <2> SUFFICES ASSUME IInv PROVE TypeOK
    BY Zenon
  <2>1. ResolvedCommand = EntryOf(added, DOMAIN command_scope)
    BY Zenon DEF ResolvedCommand, EntryOf
  <2>2. ASSUME NEW t \in Threads
        PROVE  thread[t].at \in {"idle", "reading", "done", "rejected", "failed", "panicked"}
    <3> DEFINE x == thread[t]
    <3>1. x \in Ended \/ x = [at |-> "panicked"] \/ x \in Call(command_scope)
      BY Zenon DEF IInv, ThreadInv
    <3> HIDE DEF x
    <3>2. x.at \in {"idle", "reading", "done", "rejected", "failed", "panicked"}
      BY <3>1 DEF Ended, Idle, Call
    <3>3. QED BY Zenon, <3>2 DEF x
  <2>3. DOMAIN global_scope_cache \subseteq Types
    <3> SUFFICES ASSUME NEW T \in DOMAIN global_scope_cache PROVE T \in Types
      BY Zenon
    <3>1. PICK r \in Requests : r.type = T
      BY Zenon DEF IInv, CachesInv
    <3>2. r.type \in Types
      BY Zenon, AuthorityAssumption
    <3>3. QED BY ZenonT(60), <3>1, <3>2
  <2>4. \A n \in DOMAIN command_cache : DOMAIN command_cache[n] \subseteq Types
    BY ZenonT(60) DEF IInv, CachesInv
  <2>5. QED BY ZenonT(60), <2>1, <2>2, <2>3, <2>4 DEF IInv, TypeOK, TablesInv, CachesInv
<1>2. QED BY Invariance, <1>1, PTL

\* resolve_access, on tables that add_capability built up file by file, grants a call
\* only when a direct reading of all the capabilities added does, and refuses a call
\* that reading grants only when a capability denies its command in another place.
THEOREM AccessIsDeclared == Spec => []AccessAsDeclared
<1>1. IInv => AccessAsDeclared
  <2> SUFFICES ASSUME IInv, NEW r \in Requests
               PROVE  ResolveAccess(r) # <<>> <=>
                        GrantedScopes(added, r) # {} /\ ~\E c \in added : DeniesCommand[c][r]
    BY Zenon DEF AccessAsDeclared, Denies
  <2>1. TablesInv /\ (r.cmd \in Commands => GrantsInv(r)) /\ added \subseteq Capabilities
    BY Zenon DEF IInv, TablesInv
  <2> DEFINE es == ResolveAccess(r)
  <2>2. /\ IsSequence(es)
        /\ r.cmd \notin Commands \/ denied_commands[r.cmd] # <<>> => es = <<>>
        /\ r.cmd \in Commands /\ denied_commands[r.cmd] = <<>> =>
             Range(es) = {a \in Range(allowed_commands[r.cmd]) : Matches(a, r)}
    BY ZenonT(60), <2>1, Access
  <2>3. es = <<>> <=> Range(es) = {}
    BY ZenonT(60), <2>2, EmptyOnly
  <2> HIDE DEF es
  <2>4. CASE r.cmd \notin Commands
    BY ZenonT(60), <2>1, <2>2, <2>4, NotNamed DEF es
  <2>5. CASE r.cmd \in Commands /\ denied_commands[r.cmd] # <<>>
    BY ZenonT(60), <2>1, <2>2, <2>5 DEF GrantsInv, es
  <2>6. CASE r.cmd \in Commands /\ denied_commands[r.cmd] = <<>>
    <3>1. es # <<>> <=> \E a \in Range(allowed_commands[r.cmd]) : Matches(a, r)
      BY ZenonT(60), <2>2, <2>3, <2>6
    <3>2. GrantedScopes(added, r) # {} <=> \E a \in Range(allowed_commands[r.cmd]) : Matches(a, r)
      BY ZenonT(60), <2>1, <2>6 DEF GrantsInv
    <3>3. ~\E c \in added : DeniesCommand[c][r]
      BY ZenonT(60), <2>1, <2>6 DEF GrantsInv
    <3>4. QED BY ZenonT(60), <3>1, <3>2, <3>3 DEF es
  <2>7. QED BY ZenonT(60), <2>4, <2>5, <2>6
<1>2. QED BY Invariance, <1>1, PTL

\* What is known of a command that has all of its scopes.
LEMMA CommandDone ==
  ASSUME IInv, NEW t \in Threads, thread[t].at = "done", thread[t].request.wants = "command",
         NEW granted, granted = GrantedScopes(thread[t].since, thread[t].request)
  PROVE  /\ thread[t].read \in PlainScope
         /\ \A s \in granted : Below(s, thread[t].read)
         /\ adds = 0 => Below(thread[t].read, MergeAll(granted))
<1> DEFINE x == thread[t]
<1>1. ThreadInv(x, command_scope, adds, failed)
  BY ZenonT(60) DEF IInv
<1>2. x \in Call(command_scope) /\ CommandCallInv(x, command_scope, adds)
  BY ZenonT(60), <1>1, Calling
<1>3. x.ids = <<>> /\ x.read \in PlainScope
  BY ZenonT(60), <1>2, CallFields DEF CommandCallInv
<1>4. QED BY ZenonT(60), <1>2, <1>3, NoElement DEF CommandCallInv

\* The union of scopes is within every scope that each of them is within.
LEMMA MergedBelow ==
  ASSUME NEW S, NEW z, \A s \in S : Below(s, z)
  PROVE  Below(MergeAll(S), z)
<1>1. UNION {s.allow : s \in S} \subseteq z.allow /\ UNION {s.deny : s \in S} \subseteq z.deny
  BY ZenonT(60) DEF Below
<1>2. MergeAll(S).allow = UNION {s.allow : s \in S} /\ MergeAll(S).deny = UNION {s.deny : s \in S}
  BY ZenonT(30) DEF MergeAll
<1>3. QED BY ZenonT(60), <1>1, <1>2 DEF Below

\* CommandScope::resolve, through the caches and with capabilities added between two
\* of its reads, misses no value of the permissions that granted the access.
THEOREM ScopesAreComplete == Spec => []ScopeComplete
<1>1. IInv => ScopeComplete
  <2> SUFFICES ASSUME IInv, NEW t \in Threads, thread[t].at = "done",
                      thread[t].request.wants = "command"
               PROVE  Below(MergeAll(GrantedScopes(thread[t].since, thread[t].request)), thread[t].read)
    BY ZenonT(60) DEF ScopeComplete, Below
  <2>1. QED BY ZenonT(60), CommandDone, MergedBelow
<1>2. QED BY Invariance, <1>1, PTL

\* Until a capability is added at run time it reads no other value either: the ids of
\* one resolution are different for different permissions.
THEOREM ScopesAreExact == Spec => []ScopeExact
<1>1. IInv => ScopeExact
  <2> SUFFICES ASSUME IInv, NEW t \in Threads, thread[t].at = "done",
                      thread[t].request.wants = "command", adds = 0
               PROVE  thread[t].read = MergeAll(GrantedScopes(thread[t].since, thread[t].request))
    BY Zenon DEF ScopeExact
  <2> DEFINE granted == GrantedScopes(thread[t].since, thread[t].request)
             read == thread[t].read
  <2>1. read \in PlainScope /\ (\A s \in granted : Below(s, read)) /\ Below(read, MergeAll(granted))
    BY ZenonT(60), CommandDone
  <2> HIDE DEF granted, read
  <2>2. Below(MergeAll(granted), read)
    BY ZenonT(60), <2>1, MergedBelow
  <2>3. read.allow = MergeAll(granted).allow /\ read.deny = MergeAll(granted).deny
    BY ZenonT(60), <2>1, <2>2 DEF Below
  <2>4. read = [allow |-> read.allow, deny |-> read.deny]
    BY ZenonT(60), <2>1, PlainIs
  <2>5. MergeAll(granted) = [allow |-> MergeAll(granted).allow, deny |-> MergeAll(granted).deny]
    BY Zenon DEF MergeAll
  <2>6. read = MergeAll(granted)
    BY ZenonT(60), <2>3, <2>4, <2>5
  <2>7. QED BY ZenonT(60), <2>6 DEF granted, read
<1>2. QED BY Invariance, <1>1, PTL

\* GlobalScope::resolve gives a command the global scope of its own plugin, cached or
\* not, provided no other plugin reads its own as the same type.
THEOREM GlobalScopeIsOwn == Spec => []GlobalScopeOwn
<1>1. IInv => GlobalScopeOwn
  <2> SUFFICES ASSUME IInv, NEW t \in Threads, thread[t].at = "done",
                      thread[t].request.wants = "global", ~SharedType(thread[t].request.type)
               PROVE  thread[t].read =
                        MergeAll(UNION {GlobalGiven[c][thread[t].request.cmd.key] : c \in thread[t].since})
    BY ZenonT(60) DEF GlobalScopeOwn
  <2> DEFINE x == thread[t]
  <2>1. ThreadInv(x, command_scope, adds, failed)
    BY ZenonT(60) DEF IInv
  <2>2. GlobalCallInv(x)
    BY ZenonT(60), <2>1, Calling
  <2>3. QED BY ZenonT(60), <2>2 DEF GlobalCallInv, GlobalScopes
<1>2. QED BY Invariance, <1>1, PTL

\* No interleaving of calls and added capabilities makes get_command_scope_typed unwrap
\* a scope or a cache that is missing: a thread panics only after a capability did not
\* resolve.
THEOREM NeverPanics == Spec => []NoPanic
<1>1. IInv => NoPanic
  <2> SUFFICES ASSUME IInv, NEW t \in Threads, thread[t].at = "panicked" PROVE failed
    BY ZenonT(60) DEF IInv, NoPanic
  <2> DEFINE x == thread[t]
  <2>1. x \in Ended \/ failed \/ x \in Call(command_scope)
    BY ZenonT(60) DEF IInv, ThreadInv
  <2>2. x.at = "panicked"
    BY Zenon
  <2> HIDE DEF x
  <2>3. QED BY <2>1, <2>2 DEF Ended, Idle, Call
<1>2. QED BY Invariance, <1>1, PTL

=============================================================================
