-------------------------------- MODULE Acl --------------------------------
(***************************************************************************)
(* From capabilities to resolved commands and scopes: Resolved::resolve.   *)
(*                                                                         *)
(* A manifest (one per key: a plugin, or the app itself) names permissions *)
(* and sets of permissions; a set may name sets, and permissions of other  *)
(* manifests.  A capability grants permissions to windows and webviews, in *)
(* the contexts (local, remote URLs) it is meant for.  Glob and URL        *)
(* patterns are the sets of labels and URLs they match, and whether they   *)
(* parse; the name of a command is the pair of its plugin's and its own.   *)
(***************************************************************************)
EXTENDS Naturals, Sequences, FiniteSets, Functions

CONSTANTS
  Acl,       \* manifests: key -> [permissions : name -> permission, sets : name -> sequence]
  Plugin,    \* the plugin of each key: the key without the prefix `core:', if it has it
  Values     \* values a scope allows or denies

NoPrefix == "none"

\* An identifier: `prefix:name', or `name' alone.
Identifier(prefix, name) == [prefix |-> prefix, name |-> name]

Keys == DOMAIN Acl
AppAclKey == "__app-acl__"

\* Both halves of a scope, and whether either was given at all; the halves alone.
Scope == {s \in [allow : SUBSET Values, deny : SUBSET Values, given : BOOLEAN] :
            ~s.given => s.allow = {} /\ s.deny = {}}
PlainScope == [allow : SUBSET Values, deny : SUBSET Values]
NoScope == [allow |-> {}, deny |-> {}, given |-> FALSE]
Merge(a, b) == [allow |-> a.allow \cup b.allow, deny |-> a.deny \cup b.deny,
                given |-> a.given \/ b.given]

IsSequence(s) == s \in Seq(Range(s))

\* The sequences of ss, one after the other.
Flatten(ss) ==
  LET upTo[i \in 0 .. Len(ss)] == IF i = 0 THEN <<>> ELSE upTo[i - 1] \o ss[i]
  IN  upTo[Len(ss)]

\* The elements of s that are in S, in their order.
Only(s, S) == Flatten([i \in DOMAIN s |-> IF s[i] \in S THEN <<s[i]>> ELSE <<>>])

----------------------------------------------------------------------------
\* Permission sets.

SetNodes == UNION {{[key |-> k, name |-> n] : n \in DOMAIN Acl[k].sets} : k \in Keys}

\* What an identifier turns out to be: a set, a permission, nothing, or an Err(..).
\* A member of a set that is no identifier at all panics where an unknown one is an
\* error, and is told from it by nothing else.
Found(kind, key, name) == [kind |-> kind, node |-> [key |-> key, name |-> name]]
Unknown == [key |-> NoPrefix, name |-> "unknown"]
NotFound == [kind |-> "unknown", node |-> Unknown]
Nothing == [kind |-> "nothing", node |-> Unknown]

\* A manifest's default permission, which it may lack.
Default(key) ==
  IF "default" \in DOMAIN Acl[key].sets THEN Found("set", key, "default") ELSE Nothing

\* Mutant: the sets in a set are not followed.
MemberNotNested(key, id) ==
  LET k == IF id.prefix \in Keys THEN id.prefix ELSE key
  IN  IF id.prefix \notin Keys \cup {NoPrefix} THEN NotFound
      ELSE IF id.name \in DOMAIN Acl[k].permissions THEN Found("permission", k, id.name)
      ELSE IF id.name \in DOMAIN Acl[k].sets THEN Nothing
      ELSE NotFound

\* One member of a set of the manifest `key': its prefix, if it names a manifest,
\* says where to look; a prefix that names none makes it unknown.
Member(key, id) ==
  LET k == IF id.prefix \in Keys THEN id.prefix ELSE key
  IN  IF id.prefix \notin Keys \cup {NoPrefix} THEN NotFound
      ELSE IF id.name = "default" THEN Default(k)
      ELSE IF id.name \in DOMAIN Acl[k].permissions THEN Found("permission", k, id.name)
      ELSE IF id.name \in DOMAIN Acl[k].sets THEN Found("set", k, id.name)
      ELSE NotFound

\* The permissions that m stands for, those of sets given by f.
Expand(m, f) ==
  CASE m.kind = "set" -> f[m.node]
    [] m.kind = "nothing" -> <<>>
    [] m.kind \in {"permission", "unknown"} -> <<m.node>>

\* get_permission_set_permissions.
SetPermissions[x \in SetNodes] ==
  LET set == Acl[x.key].sets[x.name]
  IN  Flatten([i \in DOMAIN set |-> Expand(Member(x.key, set[i]), SetPermissions)])

\* What the manifests are like.
ASSUME AclAssumption ==
  /\ NoPrefix \notin Keys
  /\ DOMAIN Plugin = Keys
  /\ \A k \in Keys : Plugin[k] = AppAclKey <=> k = AppAclKey
  /\ \A k \in Keys :
       \* no name is both a permission and a set of the same manifest: a set and a
       \* capability would take it for different ones
       /\ DOMAIN Acl[k].permissions \cap DOMAIN Acl[k].sets = {}
       /\ \A n \in DOMAIN Acl[k].permissions : Acl[k].permissions[n].scope \in Scope
       /\ \A n \in DOMAIN Acl[k].sets : IsSequence(Acl[k].sets[n])
  \* no set is, through the sets it names, a member of itself: the traversal ends
  /\ IsFiniteSet(SetNodes)
  /\ \E rank \in [SetNodes -> 0 .. Cardinality(SetNodes)] :
       \A x \in SetNodes : \A id \in Range(Acl[x.key].sets[x.name]) :
         Member(x.key, id).kind = "set" => rank[Member(x.key, id).node] < rank[x]

\* What an identifier in a capability names.  Here sets are looked for before
\* permissions.
Named(id) ==
  LET k == IF id.prefix = NoPrefix THEN AppAclKey ELSE id.prefix
  IN  IF k \notin Keys THEN NotFound
      ELSE IF id.name = "default" THEN Default(k)
      ELSE IF id.name \in DOMAIN Acl[k].sets THEN Found("set", k, id.name)
      ELSE IF id.name \in DOMAIN Acl[k].permissions THEN Found("permission", k, id.name)
      ELSE NotFound

\* get_permissions.
GetPermissions(id) == Expand(Named(id), SetPermissions)

----------------------------------------------------------------------------
\* Capabilities.

Permission(p) == Acl[p.key].permissions[p.name]

\* A permission as a capability gives it, in an entry with the given scope.
ResolvedPermission(capability, scope, p) ==
  [capability |-> capability, key |-> p.key, allow |-> Permission(p).allow,
   deny |-> Permission(p).deny, scope |-> Merge(scope, Permission(p).scope)]

\* with_resolved_permissions, for one entry [id, scope] of the capability.
EntryPermissions(capability, entry) ==
  LET found == GetPermissions(entry.id)
  IN  Flatten([i \in DOMAIN found |->
        IF Permission(found[i]).active
        THEN <<ResolvedPermission(capability, entry.scope, found[i])>> ELSE <<>>])

\* All permissions of the active capabilities, in the order they are resolved in.
\* caps is in the order of the identifiers.
ResolvedPermissions(caps) ==
  Flatten([i \in DOMAIN caps |->
    IF caps[i].active
    THEN Flatten([j \in DOMAIN caps[i].permissions |->
           EntryPermissions(caps[i], caps[i].permissions[j])])
    ELSE <<>>])

\* A permission without commands is a part of its plugin's global scope.
IsGlobal(p) == p.allow = {} /\ p.deny = {}

\* The contexts of a capability: local, then each remote URL.
Contexts(capability) == (IF capability.local THEN <<"local">> ELSE <<>>) \o capability.remote

\* resolve_command reads the patterns of the capability: its URLs, a bad one of which
\* panics, and for each context the labels of windows and webviews, as globs.
PatternsParse(c) == (c.remote # <<>> => c.urls_parse) /\ (Contexts(c) # <<>> => c.globs_parse)

\* No entry of an active capability comes upon an Err(..) or a panic: every name is
\* known, and the patterns parse where a permission with commands is given.
Resolves(caps) ==
  \A c \in Range(caps) : c.active =>
    \A e \in Range(c.permissions) :
      /\ Unknown \notin Range(GetPermissions(e.id))
      /\ PatternsParse(c) \/ \A q \in Range(EntryPermissions(c, e)) : IsGlobal(q)

HasScopeId(p) == ~IsGlobal(p) /\ p.scope.given

NoScopeId == 0

\* Mutant: the scope id does not count.
NumberedAlike(ps) ==
  [i \in DOMAIN ps |-> [permission |-> ps[i], id |-> IF HasScopeId(ps[i]) THEN 1 ELSE NoScopeId]]

\* Scope ids count the permissions with a scope, from 1 in every resolution.
Numbered(ps) ==
  [i \in DOMAIN ps |->
    [permission |-> ps[i],
     id |-> IF HasScopeId(ps[i]) THEN Cardinality({j \in 1 .. i : HasScopeId(ps[j])}) ELSE NoScopeId]]

\* resolve_command, once per context.
ResolvedCommands(q) ==
  LET c == q.permission.capability
  IN  [n \in DOMAIN Contexts(c) |->
        [context |-> Contexts(c)[n], windows |-> c.windows, webviews |-> c.webviews,
         scope_id |-> q.id]]

\* The entries of a command, from the numbered permissions that grant it.
CommandEntries(granting) ==
  Flatten([i \in DOMAIN granting |-> ResolvedCommands(granting[i])])

Commands ==
  UNION {UNION {{[key |-> Plugin[k], name |-> c] :
                   c \in Acl[k].permissions[p].allow \cup Acl[k].permissions[p].deny} :
                p \in DOMAIN Acl[k].permissions} : k \in Keys}

MergeAll(scopes) ==
  [allow |-> UNION {s.allow : s \in scopes}, deny |-> UNION {s.deny : s \in scopes}]

\* The permissions of qs that allow or deny a command, and the global ones of a key.
AllowedBy(qs, c) == {q \in Range(qs) : Plugin[q.permission.key] = c.key /\ c.name \in q.permission.allow}
DeniedBy(qs, c) == {q \in Range(qs) : Plugin[q.permission.key] = c.key /\ c.name \in q.permission.deny}
GlobalOf(qs, k) == {q \in Range(qs) : q.permission.key = k /\ IsGlobal(q.permission)}

\* The tables of the numbered permissions qs.
Tables(qs) ==
  [allowed |-> [c \in Commands |-> CommandEntries(Only(qs, AllowedBy(qs, c)))],
   denied  |-> [c \in Commands |-> CommandEntries(Only(qs, DeniedBy(qs, c)))],
   command_scope |->
     [n \in {q.id : q \in Range(qs)} \ {NoScopeId} |->
       MergeAll({q.permission.scope : q \in {q \in Range(qs) : q.id = n}})],
   global_scope |->
     [k \in {k \in Keys : GlobalOf(qs, k) # {}} |->
       MergeAll({q.permission.scope : q \in GlobalOf(qs, k)})]]

\* Resolved::resolve, of capabilities that resolve.
Resolve(caps) == Tables(Numbered(ResolvedPermissions(caps)))

----------------------------------------------------------------------------
\* What the capabilities say, by reachability instead of traversal.

\* No identifier stands for a permission called `default'.
Names(k) == (DOMAIN Acl[k].permissions \ {"default"}) \cup DOMAIN Acl[k].sets
Nodes == UNION {{[key |-> k, name |-> n] : n \in Names(k)} : k \in Keys}

NodeOf(key, id) == [key |-> IF id.prefix = NoPrefix THEN key ELSE id.prefix, name |-> id.name]

\* Sets of nodes that hold, with a permission set, all its members.
ClosedSets ==
  {S \in SUBSET Nodes :
     \A x \in S : x.name \in DOMAIN Acl[x.key].sets =>
       {NodeOf(x.key, m) : m \in Range(Acl[x.key].sets[x.name])} \cap Nodes \subseteq S}

\* What is in every closed set that x is in.
Reached == [x \in Nodes |-> {y \in Nodes : \A S \in ClosedSets : x \in S => y \in S}]

\* The entry of a capability gives the permission p, active on this platform.
Gives(entry, p) ==
  /\ NodeOf(AppAclKey, entry.id) \in Nodes
  /\ p \in Reached[NodeOf(AppAclKey, entry.id)]
  /\ p.name \in DOMAIN Acl[p.key].permissions
  /\ Permission(p).active

\* The permissions a capability gives, with the scope of the entry.
GivenBy(c) ==
  {g \in [scope : {e.scope : e \in Range(c.permissions)}, permission : Nodes] :
     c.active /\ \E e \in Range(c.permissions) : e.scope = g.scope /\ Gives(e, g.permission)}
=============================================================================
