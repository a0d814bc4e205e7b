---------------------------- MODULE MCAuthority ----------------------------
(***************************************************************************)
(* A small instance of Authority: a plugin, and a core plugin one of whose *)
(* sets names the other's default set.                                     *)
(***************************************************************************)
EXTENDS Authority, TLC

CONSTANTS v1, v2, v3, v4, main, side, url, T1, T2, t1, t2

Perm(allow, deny, scope) == [allow |-> allow, deny |-> deny, scope |-> scope, active |-> TRUE]
Allowing(vs) == [allow |-> vs, deny |-> {}, given |-> TRUE]
Denying(vs) == [allow |-> {}, deny |-> vs, given |-> TRUE]
Own(name) == Identifier(NoPrefix, name)

MCAcl ==
  ("fs" :>
     [permissions |-> [read |-> Perm({"read"}, {}, Allowing({v1})),
                       write |-> Perm({"read", "write"}, {}, Denying({v2})),
                       base |-> Perm({}, {}, Allowing({v3})),
                       stop |-> Perm({}, {"read"}, NoScope),
                       other |-> [Perm({"write"}, {}, NoScope) EXCEPT !.active = FALSE]],
      sets |-> [default |-> <<Own("read"), Own("base"), Own("other")>>]]) @@
  ("core:dialog" :>
     [permissions |-> [open |-> Perm({"open"}, {}, NoScope)],
      sets |-> [default |-> <<Own("open"), Identifier("fs", "default")>>,
                all |-> <<Own("default"), Identifier("fs", "write")>>,
                broken |-> <<Own("open"), Own("missing")>>]])

MCPlugin == ("fs" :> "fs") @@ ("core:dialog" :> "dialog")

Entry(prefix, name, scope) == [id |-> Identifier(prefix, name), scope |-> scope]

Cap(local, remote, windows, webviews, permissions) ==
  [local |-> local, remote |-> remote, windows |-> windows, webviews |-> webviews,
   active |-> TRUE, permissions |-> permissions, urls_parse |-> TRUE, globs_parse |-> TRUE]

MCBase == <<Cap(TRUE, <<>>, {main}, {}, <<Entry("core:dialog", "all", NoScope)>>)>>

\* Scoped permissions for a remote page and another webview, with a global scope that
\* T2 cannot parse; one that it can, and another in a capability with a bad glob that
\* nothing reads; a denial; a set
\* with a member that does not exist; and a denial with a bad glob.
MCFiles ==
  {<<Cap(TRUE, <<url>>, {}, {side}, <<Entry("fs", "read", Allowing({v4})),
                                      Entry("fs", "write", NoScope),
                                      Entry("fs", "read", Denying({v1})),
                                      Entry("fs", "base", Allowing({v4}))>>)>>,
   <<Cap(TRUE, <<>>, {main}, {}, <<Entry("fs", "base", Denying({v2})),
                                   Entry("fs", "read", Denying({v2}))>>),
     [Cap(TRUE, <<>>, {side}, {}, <<Entry("fs", "stop", NoScope)>>) EXCEPT !.active = FALSE],
     [Cap(TRUE, <<>>, {}, {}, <<Entry("fs", "base", Allowing({v1}))>>) EXCEPT !.globs_parse = FALSE]>>,
   <<Cap(FALSE, <<url>>, {side}, {}, <<Entry("fs", "stop", NoScope)>>)>>,
   <<Cap(TRUE, <<>>, {main}, {}, <<Entry("core:dialog", "broken", NoScope)>>)>>,
   <<[Cap(TRUE, <<>>, {}, {}, <<Entry("fs", "stop", NoScope)>>) EXCEPT !.globs_parse = FALSE]>>}

Request(key, name, label, origin, wants, T) ==
  [cmd |-> [key |-> key, name |-> name], window |-> label, webview |-> label,
   origin |-> origin, wants |-> wants, type |-> T]

MCRequests ==
  {Request("fs", "read", main, "local", "command", T1),
   Request("fs", "read", side, url, "command", T1),
   Request("fs", "read", side, "local", "command", T2),
   Request("fs", "write", main, "local", "command", T2),
   Request("fs", "write", main, "local", "global", T2),
   Request("fs", "read", main, "local", "global", T1),
   Request("dialog", "open", main, "local", "global", T1),
   Request(AppAclKey, "greet", main, "local", "command", T1),
   Request(ChannelPluginName, "fetch", main, "local", "command", T1)}

\* T1 parses every value, T2 not v4, which only added capabilities use.
MCParses == (T1 :> Values) @@ (T2 :> (Values \ {v4}))

Symmetric == Permutations({t1, t2})
=============================================================================
