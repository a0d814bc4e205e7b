----------------------------- MODULE AclProofs -----------------------------
(***************************************************************************)
(* Theorems about Acl.                                                     *)
(***************************************************************************)
EXTENDS Acl, TLAPS, WellFoundedInduction, FiniteSetTheorems

\* A set of natural numbers that is not empty has a smallest element.
LEMMA NatMin ==
  ASSUME NEW T, T \subseteq Nat, T # {}
  PROVE  \E x \in T : \A y \in T : x <= y
<1>1. PICK x \in T : \A y \in T : ~(<<y, x>> \in OpToRel(<, Nat))
  BY ZenonT(30), NatLessThanWellFounded, WFMin
<1>2. \A y \in T : ~(y < x)
  BY ZenonT(30), <1>1 DEF OpToRel
<1>3. \A y \in T : x <= y
  BY <1>2
<1>4. QED BY Zenon, <1>3

\* Induction, for a set of natural numbers.
LEMMA NatInd ==
  ASSUME NEW T, 0 \in T, \A n \in Nat : n \in T => n + 1 \in T
  PROVE  \A n \in Nat : n \in T
<1> SUFFICES ASSUME Nat \ T # {} PROVE FALSE
  BY Zenon
<1>1. PICK x \in Nat \ T : \A y \in Nat \ T : x <= y
  BY ZenonT(30), NatMin
<1>2. x # 0 /\ x - 1 \in Nat
  BY <1>1
<1>3. x - 1 \in T
  BY <1>1, <1>2
<1>4. QED BY <1>1, <1>2, <1>3

\* The elements of two sequences joined (Vec::extend).
LEMMA Joined ==
  ASSUME NEW S, NEW a \in Seq(S), NEW b \in Seq(S)
  PROVE  a \o b \in Seq(S) /\ Range(a \o b) = Range(a) \cup Range(b)
<1> DEFINE m == Len(a)
           k == Len(b)
<1>1. m \in Nat /\ k \in Nat /\ DOMAIN a = 1 .. m /\ DOMAIN b = 1 .. k
      /\ DOMAIN (a \o b) = 1 .. (m + k)
  OBVIOUS
<1>2. (\A i \in 1 .. m : (a \o b)[i] = a[i]) /\ \A i \in 1 .. k : (a \o b)[m + i] = b[i]
  OBVIOUS
<1>3. a \o b \in Seq(S)
  OBVIOUS
<1> DEFINE c == a \o b
<1> HIDE DEF m, k, c
<1>4. ASSUME NEW x \in Range(c) PROVE x \in Range(a) \cup Range(b)
  <2>1. PICK i \in 1 .. (m + k) : x = c[i]
    BY Zenon, <1>1 DEF Range, c
  <2>2. CASE i \in 1 .. m
    BY ZenonT(30), <1>1, <1>2, <2>1, <2>2 DEF Range, c
  <2>3. CASE i \notin 1 .. m
    <3>1. i - m \in 1 .. k /\ m + (i - m) = i
      BY <1>1, <2>1, <2>3
    <3>2. x = b[i - m]
      BY ZenonT(30), <1>2, <2>1, <3>1 DEF c
    <3>3. QED BY ZenonT(30), <1>1, <3>1, <3>2 DEF Range
  <2>4. QED BY ZenonT(30), <2>2, <2>3
<1>5. ASSUME NEW x \in Range(a) PROVE x \in Range(c)
  <2>1. PICK i \in 1 .. m : x = a[i]
    BY Zenon, <1>1 DEF Range
  <2>2. x = c[i] /\ i \in DOMAIN c
    BY <1>1, <1>2, <2>1 DEF c
  <2>3. QED BY Zenon, <2>2 DEF Range
<1>6. ASSUME NEW x \in Range(b) PROVE x \in Range(c)
  <2>1. PICK i \in 1 .. k : x = b[i]
    BY Zenon, <1>1 DEF Range
  <2>2. x = c[m + i] /\ m + i \in DOMAIN c
    BY <1>1, <1>2, <2>1 DEF c
  <2>3. QED BY Zenon, <2>2 DEF Range
<1>7. Range(c) = Range(a) \cup Range(b)
  BY Zenon, <1>4, <1>5, <1>6
<1>8. QED BY ZenonT(30), <1>3, <1>7 DEF c

\* Flatten is defined by recursion; it holds the elements of all the sequences.
LEMMA Flat ==
  ASSUME NEW S, NEW ss \in Seq(Seq(S)) 
  PROVE  Flatten(ss) \in Seq(S) /\ Range(Flatten(ss)) = UNION {Range(ss[i]) : i \in DOMAIN ss}
<1> DEFINE n == Len(ss)
           Rec(f, k) == f = [i \in 0 .. k |-> IF i = 0 THEN <<>> ELSE f[i - 1] \o ss[i]]
           T == {k \in Nat : \E f : Rec(f, k)}
<1>0. n \in Nat /\ n \in 0 .. n /\ DOMAIN ss = 1 .. n
  OBVIOUS
<1>1. 0 \in T
  <2>1. Rec([i \in 0 .. 0 |-> <<>>], 0)
    OBVIOUS
  <2>2. QED BY <2>1, Zenon
<1>2. ASSUME NEW k \in Nat, k \in T PROVE k + 1 \in T
  <2>1. PICK f : Rec(f, k)
    BY Zenon, <1>2
  <2> DEFINE g == [i \in 0 .. (k + 1) |-> IF i = 0 THEN <<>> ELSE f[i - 1] \o ss[i]]
  <2>2. ASSUME NEW i \in 0 .. k PROVE g[i] = f[i]
    <3>1. f[i] = IF i = 0 THEN <<>> ELSE f[i - 1] \o ss[i]
      BY Zenon, <2>1
    <3>2. i \in 0 .. (k + 1)
      OBVIOUS
    <3>3. QED BY ZenonT(30), <3>1, <3>2
  <2>3. ASSUME NEW i \in 0 .. (k + 1) 
        PROVE g[i] = IF i = 0 THEN <<>> ELSE g[i - 1] \o ss[i]
    <3>1. CASE i = 0
      BY ZenonT(30), <3>1
    <3>2. CASE i # 0
      <4>1. i - 1 \in 0 .. k
        BY <3>2
      <4>2. g[i - 1] = f[i - 1]
        BY ZenonT(30), <2>2, <4>1
      <4>3. QED BY ZenonT(30), <3>2, <4>2
    <3>3. QED BY ZenonT(30), <3>1, <3>2
  <2>4. Rec(g, k + 1)
    BY ZenonT(30), <2>3
  <2>5. k + 1 \in Nat
    OBVIOUS
  <2> HIDE DEF g, Rec
  <2>6. QED BY ZenonT(30), <2>4, <2>5
<1>3. \E f : Rec(f, n)
  <2> HIDE DEF T
  <2>1. n \in T
    BY ZenonT(30), <1>0, <1>1, <1>2, NatInd
  <2>2. QED BY ZenonT(30), <2>1 DEF T
<1> DEFINE F == CHOOSE f : Rec(f, n)
<1>4. Rec(F, n)
  BY Zenon, <1>3
<1>5. Flatten(ss) = F[n]
  BY Zenon DEF Flatten
<1>6. \A i \in 0 .. n : F[i] = IF i = 0 THEN <<>> ELSE F[i - 1] \o ss[i]
  BY Zenon, <1>4
<1> HIDE DEF F, Rec, T
<1> DEFINE U(k) == UNION {Range(ss[i]) : i \in 1 .. k}
           G == {k \in Nat : k \in 0 .. n => F[k] \in Seq(S) /\ Range(F[k]) = U(k)}
<1>7. 0 \in G
  <2>1. F[0] = <<>> /\ <<>> \in Seq(S) /\ 1 .. 0 = {}
    BY <1>6
  <2>2. Range(<<>>) = {}
    BY DEF Range
  <2>3. U(0) = {}
    BY Zenon, <2>1
  <2> HIDE DEF U
  <2>4. QED BY ZenonT(30), <2>1, <2>2, <2>3
<1>8. ASSUME NEW k \in Nat, k \in G PROVE k + 1 \in G
  <2>0. k + 1 \in Nat
    OBVIOUS
  <2>1. SUFFICES ASSUME k + 1 \in 0 .. n
                 PROVE  F[k + 1] \in Seq(S) /\ Range(F[k + 1]) = U(k + 1)
    <3> HIDE DEF U
    <3>1. QED BY Zenon, <2>0
  <2>2. k \in 0 .. n /\ F[k] \in Seq(S) /\ Range(F[k]) = U(k)
    BY <1>8, <2>1
  <2>3. F[k + 1] = F[k] \o ss[k + 1] /\ ss[k + 1] \in Seq(S)
    <3>1. k + 1 # 0 /\ (k + 1) - 1 = k
      OBVIOUS
    <3>2. F[k + 1] = IF k + 1 = 0 THEN <<>> ELSE F[(k + 1) - 1] \o ss[k + 1]
      BY ZenonT(30), <1>6, <2>1
    <3>3. ss[k + 1] \in Seq(S)
      BY <2>1
    <3>4. QED BY Zenon, <3>1, <3>2, <3>3
  <2>4. /\ F[k] \o ss[k + 1] \in Seq(S)
        /\ Range(F[k] \o ss[k + 1]) = Range(F[k]) \cup Range(ss[k + 1])
    BY <2>2, <2>3, Joined
  <2>5. U(k + 1) = U(k) \cup Range(ss[k + 1])
    <3>1. 1 .. (k + 1) = (1 .. k) \cup {k + 1}
      OBVIOUS
    <3>2. QED BY ZenonT(30), <3>1
  <2> HIDE DEF U
  <2>6. QED BY Zenon, <2>2, <2>3, <2>4, <2>5
<1>9. n \in G
  <2> HIDE DEF G
  <2>1. QED BY ZenonT(30), <1>0, <1>7, <1>8, NatInd
<1>10. QED BY ZenonT(30), <1>0, <1>5, <1>9

\* A sequence over any set is one over its own elements.
LEMMA IsSeq ==
  ASSUME NEW S, NEW s \in Seq(S)
  PROVE  IsSequence(s) /\ Range(s) \subseteq S
<1>1. Len(s) \in Nat /\ s \in [1 .. Len(s) -> S]
  OBVIOUS
<1>2. Range(s) \subseteq S /\ s \in [1 .. Len(s) -> Range(s)]
  BY ZenonT(30), <1>1 DEF Range
<1>3. s \in Seq(Range(s))
  BY <1>1, <1>2
<1>4. QED BY ZenonT(30), <1>2, <1>3 DEF IsSequence

\* What is computed for each element of a sequence is a sequence.
LEMMA Mapped ==
  ASSUME NEW s, IsSequence(s), NEW g, g = [i \in DOMAIN s |-> g[i]]
  PROVE  IsSequence(g) /\ DOMAIN g = DOMAIN s
<1>1. Len(s) \in Nat /\ DOMAIN s = 1 .. Len(s)
  BY DEF IsSequence
<1>2. g \in [1 .. Len(s) -> Range(g)]
  BY ZenonT(30), <1>1 DEF Range
<1>3. g \in Seq(Range(g))
  BY <1>1, <1>2
<1>4. QED BY ZenonT(30), <1>3 DEF IsSequence

\* A sequence of sequences, flattened.
LEMMA Flattened ==
  ASSUME NEW ss, IsSequence(ss), \A i \in DOMAIN ss : IsSequence(ss[i])
  PROVE  /\ IsSequence(Flatten(ss))
         /\ Range(Flatten(ss)) = UNION {Range(ss[i]) : i \in DOMAIN ss}
<1> DEFINE S == UNION {Range(ss[i]) : i \in DOMAIN ss}
<1>1. Len(ss) \in Nat /\ DOMAIN ss = 1 .. Len(ss) /\ ss = [i \in 1 .. Len(ss) |-> ss[i]]
  BY DEF IsSequence
<1>2. ASSUME NEW i \in DOMAIN ss PROVE ss[i] \in Seq(S)
  <2>1. ss[i] \in Seq(Range(ss[i])) /\ Range(ss[i]) \subseteq S
    BY Zenon DEF IsSequence
  <2> HIDE DEF S
  <2>2. QED BY <2>1
<1> HIDE DEF S
<1>3. ss \in [1 .. Len(ss) -> Seq(S)]
  BY ZenonT(30), <1>1, <1>2
<1>4. ss \in Seq(Seq(S))
  BY <1>1, <1>3
<1>5. Flatten(ss) \in Seq(S) /\ Range(Flatten(ss)) = S
  BY ZenonT(30), <1>4, Flat DEF S
<1>6. QED BY Zenon, <1>5, IsSeq DEF S

\* A vector of one element.
LEMMA OneElement == \A x : IsSequence(<<x>>) /\ Range(<<x>>) = {x}
<1> TAKE x
<1>1. <<x>> \in Seq({x}) /\ Range(<<x>>) = {x}
  BY DEF Range
<1>2. QED BY Zenon, <1>1 DEF IsSequence

\* The empty vector.
LEMMA NoElement == IsSequence(<<>>) /\ Range(<<>>) = {}
<1>1. Range(<<>>) = {}
  BY DEF Range
<1>2. <<>> \in Seq({})
  OBVIOUS
<1>3. QED BY ZenonT(30), <1>1, <1>2 DEF IsSequence

\* A sequence without elements is the empty one: what is_empty asks.
LEMMA EmptyOnly ==
  ASSUME NEW s, IsSequence(s)
  PROVE  s = <<>> <=> Range(s) = {}
<1>1. ASSUME Range(s) = {} PROVE s = <<>>
  <2>1. s \in Seq({})
    BY Zenon, <1>1 DEF IsSequence
  <2>2. Len(s) = 0
    BY <2>1
  <2>3. QED BY <2>1, <2>2
<1>2. QED BY Zenon, <1>1, NoElement

\* Filters of the code: `filter', `filter_map' and pushes under a condition.
LEMMA OnlyElements ==
  ASSUME NEW s, IsSequence(s), NEW S
  PROVE  IsSequence(Only(s, S)) /\ Range(Only(s, S)) = Range(s) \cap S
<1> DEFINE ss == [i \in DOMAIN s |-> IF s[i] \in S THEN <<s[i]>> ELSE <<>>]
<1>1. IsSequence(ss) /\ DOMAIN ss = DOMAIN s
  BY ZenonT(30), Mapped
<1>2. ASSUME NEW i \in DOMAIN ss
      PROVE  IsSequence(ss[i]) /\ Range(ss[i]) = {s[i]} \cap S
  BY ZenonT(30), OneElement, NoElement
<1>3. Only(s, S) = Flatten(ss)
  BY Zenon DEF Only
<1> HIDE DEF ss
<1>4. Range(Flatten(ss)) = UNION {Range(ss[i]) : i \in DOMAIN ss} /\ IsSequence(Flatten(ss))
  BY ZenonT(30), <1>1, <1>2, Flattened
<1>5. UNION {Range(ss[i]) : i \in DOMAIN ss} = Range(s) \cap S
  BY <1>1, <1>2 DEF Range
<1>6. QED BY ZenonT(30), <1>3, <1>4, <1>5

-----------------------------------------------------------------------------
\* The traversal of permission sets.

PermissionNodes == {x \in Nodes : x.name \in DOMAIN Acl[x.key].permissions}

\* A manifest uses a name for a set or for a permission, never for both, so every
\* node is one or the other.
LEMMA NodeFacts ==
  /\ Nodes = SetNodes \cup PermissionNodes
  /\ SetNodes \cap PermissionNodes = {}
  /\ Unknown \notin Nodes
  /\ \A x \in Nodes : x.key \in Keys /\ (x \in SetNodes <=> x.name \in DOMAIN Acl[x.key].sets)
<1>1. \A x : x \in Nodes <=> \E k \in Keys : \E n \in Names(k) : x = [key |-> k, name |-> n]
  BY DEF Nodes
<1>2. \A x : x \in SetNodes <=>
         \E k \in Keys : \E n \in DOMAIN Acl[k].sets : x = [key |-> k, name |-> n]
  BY DEF SetNodes
<1>3. \A x \in Nodes : x.key \in Keys /\ x.name \in Names(x.key) /\ x = [key |-> x.key, name |-> x.name]
  BY <1>1
<1>4. \A x \in Nodes : x \in SetNodes <=> x.name \in DOMAIN Acl[x.key].sets
  BY <1>2, <1>3
<1>5. SetNodes \subseteq Nodes
  BY ZenonT(30), <1>1, <1>2 DEF Names
<1>6. Unknown \notin Nodes
  BY Zenon, <1>3, AclAssumption DEF Unknown
<1>7. \A x \in Nodes : x \in SetNodes \/ x \in PermissionNodes
  BY ZenonT(30), <1>3, <1>4 DEF PermissionNodes, Names
<1>8. \A x \in Nodes : ~(x \in SetNodes /\ x \in PermissionNodes)
  BY ZenonT(30), <1>3, <1>4, AclAssumption DEF PermissionNodes
<1>9. PermissionNodes \subseteq Nodes
  BY Zenon DEF PermissionNodes
<1>10. QED BY Zenon, <1>3, <1>4, <1>5, <1>6, <1>7, <1>8, <1>9

\* A key and a name make a node when the manifest of the key has the name.
LEMMA NodeIn ==
  ASSUME NEW k \in Keys, NEW n, NEW z, z = [key |-> k, name |-> n]
  PROVE  /\ z.key = k /\ z.name = n
         /\ z \in Nodes <=> n \in Names(k)
         /\ z \in SetNodes <=> n \in DOMAIN Acl[k].sets
<1>1. \A x : x \in Nodes <=> \E l \in Keys : \E m \in Names(l) : x = [key |-> l, name |-> m]
  BY DEF Nodes
<1>2. \A x : x \in SetNodes <=>
         \E l \in Keys : \E m \in DOMAIN Acl[l].sets : x = [key |-> l, name |-> m]
  BY DEF SetNodes
<1>3. z.key = k /\ z.name = n
  BY Zenon
<1>4. \A l, m : z = [key |-> l, name |-> m] => l = k /\ m = n
  BY Zenon, <1>3
<1>5. QED BY <1>1, <1>2, <1>3, <1>4

\* m is what the node z is found to be.
Finds(m, z) ==
  /\ m.kind \in {"set", "permission", "nothing", "unknown"}
  /\ m.kind = "set" => m.node = z /\ z \in SetNodes
  /\ m.kind = "permission" => m.node = z /\ z \in PermissionNodes
  /\ m.kind = "unknown" => m.node = Unknown
  /\ m.kind \in {"nothing", "unknown"} => z \notin Nodes

\* The default permission of a manifest is its node `default', where it has one.
LEMMA DefaultFinds ==
  ASSUME NEW k \in Keys
  PROVE  Finds(Default(k), [key |-> k, name |-> "default"])
<1> DEFINE z == [key |-> k, name |-> "default"]
<1>1. z.key = k /\ z.name = "default" /\ (z \in Nodes <=> "default" \in DOMAIN Acl[k].sets)
      /\ (z \in SetNodes <=> "default" \in DOMAIN Acl[k].sets)
  BY NodeIn DEF Names
<1>2. CASE "default" \in DOMAIN Acl[k].sets
  BY Zenon, <1>1, <1>2 DEF Default, Found, Finds
<1>3. CASE "default" \notin DOMAIN Acl[k].sets
  BY ZenonT(30), <1>1, <1>3 DEF Default, Nothing, Finds
<1>4. QED BY ZenonT(30), <1>2, <1>3

\* The lookup of a name other than `default'.
LEMMA NameFinds ==
  ASSUME NEW k \in Keys, NEW n, n # "default"
  PROVE  LET z == [key |-> k, name |-> n]
         IN  /\ n \in DOMAIN Acl[k].permissions => Finds(Found("permission", k, n), z)
             /\ n \in DOMAIN Acl[k].sets => Finds(Found("set", k, n), z)
             /\ n \notin DOMAIN Acl[k].permissions \cup DOMAIN Acl[k].sets => Finds(NotFound, z)
<1> DEFINE z == [key |-> k, name |-> n]
<1>1. z.key = k /\ z.name = n /\ (z \in Nodes <=> n \in Names(k))
      /\ (z \in SetNodes <=> n \in DOMAIN Acl[k].sets)
  BY NodeIn
<1>2. n \in Names(k) <=> n \in DOMAIN Acl[k].permissions \cup DOMAIN Acl[k].sets
  BY Zenon DEF Names
<1>3. z \in PermissionNodes <=> n \in DOMAIN Acl[k].permissions
  BY Zenon, <1>1, <1>2 DEF PermissionNodes
<1>4. Found("permission", k, n).kind = "permission" /\ Found("permission", k, n).node = z
      /\ Found("set", k, n).kind = "set" /\ Found("set", k, n).node = z
  BY Zenon DEF Found
<1>5. NotFound.kind = "unknown" /\ NotFound.node = Unknown
  BY Zenon DEF NotFound
<1> HIDE DEF z
<1>6. QED BY ZenonT(30), <1>1, <1>2, <1>3, <1>4, <1>5 DEF Finds, z

\* Both lookups find the node that an identifier names.
LEMMA MemberFinds ==
  ASSUME NEW key \in Keys, NEW id
  PROVE  Finds(Member(key, id), NodeOf(key, id))
<1> DEFINE k == IF id.prefix \in Keys THEN id.prefix ELSE key
<1>0. CASE id.prefix \notin Keys \cup {NoPrefix}
  <2>1. Member(key, id) = NotFound
    BY Zenon, <1>0 DEF Member
  <2>2. NodeOf(key, id).key \notin Keys
    BY Zenon, <1>0 DEF NodeOf
  <2>3. NodeOf(key, id) \notin Nodes
    BY ZenonT(30), <2>2, NodeFacts
  <2>4. NotFound.kind = "unknown" /\ NotFound.node = Unknown
    BY Zenon DEF NotFound
  <2>5. QED BY ZenonT(30), <2>1, <2>3, <2>4 DEF Finds
<1>1. CASE id.prefix \in Keys \cup {NoPrefix}
  <2>1. k \in Keys /\ NodeOf(key, id) = [key |-> k, name |-> id.name]
    BY ZenonT(30), <1>1, AclAssumption DEF NodeOf
  <2>2. Member(key, id) = IF id.name = "default" THEN Default(k)
                     ELSE IF id.name \in DOMAIN Acl[k].permissions THEN Found("permission", k, id.name)
                     ELSE IF id.name \in DOMAIN Acl[k].sets THEN Found("set", k, id.name)
                     ELSE NotFound
    BY ZenonT(30), <1>1 DEF Member
  <2> HIDE DEF k
  <2>3. CASE id.name = "default"
    BY ZenonT(30), <2>1, <2>2, <2>3, DefaultFinds
  <2>4. CASE id.name # "default"
    BY ZenonT(30), <2>1, <2>2, <2>4, NameFinds
  <2>5. QED BY ZenonT(30), <2>3, <2>4
<1>2. QED BY ZenonT(30), <1>0, <1>1

\* get_permissions looks an entry of a capability up where the reference reading
\* looks it up.
LEMMA NamedFinds ==
  ASSUME NEW id
  PROVE  Finds(Named(id), NodeOf(AppAclKey, id))
<1> DEFINE k == IF id.prefix = NoPrefix THEN AppAclKey ELSE id.prefix
<1>1. NodeOf(AppAclKey, id) = [key |-> k, name |-> id.name]
  BY Zenon DEF NodeOf
<1>2. Named(id) = IF k \notin Keys THEN NotFound
                  ELSE IF id.name = "default" THEN Default(k)
                  ELSE IF id.name \in DOMAIN Acl[k].sets THEN Found("set", k, id.name)
                  ELSE IF id.name \in DOMAIN Acl[k].permissions THEN Found("permission", k, id.name)
                  ELSE NotFound
  BY Zenon DEF Named
<1> HIDE DEF k
<1>3. CASE k \notin Keys
  <2>1. NodeOf(AppAclKey, id) \notin Nodes
    BY <1>1, <1>3, NodeFacts
  <2>2. NotFound.kind = "unknown" /\ NotFound.node = Unknown
    BY Zenon DEF NotFound
  <2>3. QED BY ZenonT(30), <1>2, <1>3, <2>1, <2>2 DEF Finds
<1>4. CASE k \in Keys /\ id.name = "default"
  BY Zenon, <1>1, <1>2, <1>4, DefaultFinds
<1>5. CASE k \in Keys /\ id.name # "default"
  BY ZenonT(30), <1>1, <1>2, <1>5, NameFinds
<1>6. QED BY ZenonT(30), <1>3, <1>4, <1>5

\* What get_permission_set_permissions pushes for the members of the set x.
Pushed(x, f) ==
  LET set == Acl[x.key].sets[x.name]
  IN  [i \in DOMAIN set |-> Expand(Member(x.key, set[i]), f)]

\* The members of the set x.
Members(x) == {Member(x.key, id) : id \in Range(Acl[x.key].sets[x.name])}

\* A set of a manifest lists its members.
LEMMA SetFacts ==
  ASSUME NEW x \in SetNodes
  PROVE  /\ x.key \in Keys /\ x.name \in DOMAIN Acl[x.key].sets
         /\ IsSequence(Acl[x.key].sets[x.name])
BY ZenonT(30), NodeFacts, AclAssumption

\* rank orders the sets by how deep they nest.
Ranks(rank) ==
  /\ rank \in [SetNodes -> Nat] /\ \E k \in Nat : \A x \in SetNodes : rank[x] < k
  /\ \A x \in SetNodes : \A m \in Members(x) : m.kind = "set" =>
       m.node \in SetNodes /\ rank[m.node] < rank[x]

\* Sets do not contain themselves (AclAssumption), so they can be ranked: a member
\* of a set has a smaller rank.  The recursion of get_permission_set_permissions
\* goes down the ranks.
LEMMA Ranked == \E rank : Ranks(rank)
<1>1. PICK rank \in [SetNodes -> 0 .. Cardinality(SetNodes)] :
        \A x \in SetNodes : \A id \in Range(Acl[x.key].sets[x.name]) :
          Member(x.key, id).kind = "set" => rank[Member(x.key, id).node] < rank[x]
  BY Zenon, AclAssumption
<1>2. Cardinality(SetNodes) \in Nat
  BY ZenonT(30), AclAssumption, FS_CardinalityType
<1>3. rank \in [SetNodes -> Nat] /\ \E k \in Nat : \A x \in SetNodes : rank[x] < k
  <2>1. \A x \in SetNodes : rank[x] < Cardinality(SetNodes) + 1
    BY <1>1, <1>2
  <2>2. QED BY <1>1, <1>2, <2>1
<1>4. ASSUME NEW x \in SetNodes, NEW m \in Members(x), m.kind = "set"
      PROVE  m.node \in SetNodes /\ rank[m.node] < rank[x]
  <2>1. PICK id \in Range(Acl[x.key].sets[x.name]) : m = Member(x.key, id)
    BY Zenon DEF Members
  <2>2. m.node \in SetNodes
    BY ZenonT(30), <1>4, <2>1, SetFacts, MemberFinds DEF Finds
  <2>3. QED BY ZenonT(30), <1>1, <1>4, <2>1, <2>2
<1>5. QED BY ZenonT(30), <1>3, <1>4 DEF Ranks

\* What is pushed depends on what f says of the sets that are members.
LEMMA PushedAlike ==
  ASSUME NEW x \in SetNodes, NEW f, NEW g,
         \A m \in Members(x) : m.kind = "set" => f[m.node] = g[m.node]
  PROVE  Pushed(x, f) = Pushed(x, g)
<1> DEFINE set == Acl[x.key].sets[x.name]
<1>1. ASSUME NEW i \in DOMAIN set
      PROVE  Expand(Member(x.key, set[i]), f) = Expand(Member(x.key, set[i]), g)
  <2>1. Member(x.key, set[i]) \in Members(x)
    BY Zenon DEF Members, Range
  <2> DEFINE m == Member(x.key, set[i])
  <2>2. m.kind \in {"set", "permission", "nothing", "unknown"}
    BY ZenonT(30), SetFacts, MemberFinds DEF Finds
  <2> HIDE DEF m
  <2>3. Expand(m, f) = Expand(m, g)
    BY ZenonT(30), <2>1, <2>2 DEF Expand, m
  <2>4. QED BY ZenonT(30), <2>3 DEF m
<1>2. QED BY ZenonT(30), <1>1 DEF Pushed

\* The recursion of get_permission_set_permissions is well founded: SetPermissions
\* is what its definition says.
LEMMA Recursion ==
  \A x \in SetNodes : SetPermissions[x] = Flatten(Pushed(x, SetPermissions))
<1> PICK rank : Ranks(rank)
  BY ZenonT(30), Ranked
<1> DEFINE D(k) == {x \in SetNodes : rank[x] < k}
           Rec(f, S) == f = [x \in S |-> Flatten(Pushed(x, f))]
           T == {k \in Nat : \E f : Rec(f, D(k))}
<1>1. 0 \in T
  <2>1. D(0) = {}
    BY DEF Ranks
  <2>2. \E f : Rec(f, {})
    <3>1. Rec([x \in {} |-> x], {})
      BY Zenon
    <3>2. QED BY Zenon, <3>1
  <2>3. QED BY ZenonT(30), <2>1, <2>2
<1>2. ASSUME NEW k \in Nat, k \in T PROVE k + 1 \in T
  <2>1. PICK f : Rec(f, D(k))
    BY ZenonT(30), <1>2
  <2> DEFINE g == [x \in D(k + 1) |-> Flatten(Pushed(x, f))]
  <2>2. D(k) \subseteq D(k + 1)
    BY DEF Ranks
  <2>3. ASSUME NEW x \in D(k) PROVE g[x] = f[x]
    BY ZenonT(30), <2>1, <2>2
  <2>4. ASSUME NEW x \in D(k + 1) PROVE g[x] = Flatten(Pushed(x, g))
    <3>1. ASSUME NEW m \in Members(x), m.kind = "set" PROVE f[m.node] = g[m.node]
      <4>1. m.node \in SetNodes /\ rank[m.node] < rank[x] /\ rank[x] < k + 1
            /\ rank[m.node] \in Nat /\ rank[x] \in Nat
        BY ZenonT(30), <3>1 DEF Ranks
      <4>2. m.node \in D(k)
        BY <4>1
      <4>3. QED BY ZenonT(30), <2>3, <4>2
    <3>2. x \in SetNodes
      BY Zenon
    <3>3. Pushed(x, f) = Pushed(x, g)
      <4> HIDE DEF g, D
      <4>1. QED BY ZenonT(30), <3>1, <3>2, PushedAlike
    <3>4. g[x] = Flatten(Pushed(x, f))
      BY ZenonT(30)
    <3>5. QED BY ZenonT(30), <3>3, <3>4
  <2>5. g = [x \in D(k + 1) |-> g[x]]
    BY Zenon
  <2>6. Rec(g, D(k + 1))
    <3> HIDE DEF g, D
    <3>1. QED BY ZenonT(30), <2>4, <2>5
  <2> HIDE DEF g, Rec, D
  <2>7. QED BY <2>6
<1>3. \A k \in Nat : k \in T
  <2> HIDE DEF T
  <2>1. QED BY ZenonT(30), <1>1, <1>2, NatInd
<1>4. \E f : Rec(f, SetNodes)
  <2>1. PICK k \in Nat : \A x \in SetNodes : rank[x] < k
    BY ZenonT(30) DEF Ranks
  <2>2. D(k) = SetNodes
    BY ZenonT(30), <2>1
  <2>3. QED BY ZenonT(30), <1>3, <2>2
<1>5. SetPermissions = CHOOSE f : Rec(f, SetNodes)
  BY Zenon DEF SetPermissions, Pushed
<1>6. Rec(SetPermissions, SetNodes)
  BY ZenonT(30), <1>4, <1>5
<1>7. QED BY ZenonT(30), <1>6

\* The permissions that a member stands for.
Part(m) ==
  IF m.kind = "set" THEN Range(SetPermissions[m.node])
  ELSE IF m.kind = "nothing" THEN {} ELSE {m.node}

\* A member adds its own permissions: a permission itself, a set all of its own.
LEMMA Expanded ==
  ASSUME NEW m, NEW z, Finds(m, z), m.kind = "set" => IsSequence(SetPermissions[m.node])
  PROVE  /\ IsSequence(Expand(m, SetPermissions))
         /\ Range(Expand(m, SetPermissions)) = Part(m)
<1>1. CASE m.kind = "set"
  BY ZenonT(30), <1>1 DEF Expand, Part
<1>2. CASE m.kind = "nothing"
  <2>1. Expand(m, SetPermissions) = <<>> /\ Part(m) = {}
    BY ZenonT(30), <1>2 DEF Expand, Part
  <2>2. QED BY ZenonT(30), <2>1, NoElement
<1>3. CASE m.kind \in {"permission", "unknown"}
  <2>1. Expand(m, SetPermissions) = <<m.node>> /\ Part(m) = {m.node}
    BY ZenonT(30), <1>3 DEF Expand, Part
  <2>2. QED BY ZenonT(30), <2>1, OneElement
<1>4. QED BY ZenonT(30), <1>1, <1>2, <1>3 DEF Finds

\* The permissions of a set are those of its members.
LEMMA TraversedFrom ==
  ASSUME NEW x \in SetNodes,
         \A m \in Members(x) : m.kind = "set" => IsSequence(SetPermissions[m.node])
  PROVE  /\ IsSequence(SetPermissions[x])
         /\ Range(SetPermissions[x]) = UNION {Part(m) : m \in Members(x)}
<1> DEFINE set == Acl[x.key].sets[x.name]
           ss == Pushed(x, SetPermissions)
<1>1. IsSequence(ss) /\ DOMAIN ss = DOMAIN set
  <2>1. ss = [i \in DOMAIN set |-> ss[i]]
    BY Zenon DEF Pushed
  <2>2. IsSequence(set)
    BY ZenonT(30), SetFacts
  <2> HIDE DEF ss, set
  <2>3. QED BY ZenonT(30), <2>1, <2>2, Mapped
<1>2. ASSUME NEW i \in DOMAIN set
      PROVE  IsSequence(ss[i]) /\ Range(ss[i]) = Part(Member(x.key, set[i]))
  <2>1. Member(x.key, set[i]) \in Members(x)
    BY Zenon DEF Members, Range
  <2>2. Finds(Member(x.key, set[i]), NodeOf(x.key, set[i]))
    BY ZenonT(30), SetFacts, MemberFinds
  <2>3. ss[i] = Expand(Member(x.key, set[i]), SetPermissions)
    BY Zenon DEF Pushed
  <2> DEFINE m == Member(x.key, set[i])
  <2> HIDE DEF m, ss, set
  <2>4. QED BY ZenonT(30), <2>1, <2>2, <2>3, Expanded DEF m
<1>3. SetPermissions[x] = Flatten(ss)
  BY Zenon, Recursion
<1>4. UNION {Range(ss[i]) : i \in DOMAIN ss} = UNION {Part(m) : m \in Members(x)}
  <2>1. Range(set) = {set[i] : i \in DOMAIN set}
    BY ZenonT(30) DEF Range
  <2>2. Members(x) = {Member(x.key, set[i]) : i \in DOMAIN set}
    BY ZenonT(30), <2>1 DEF Members
  <2> HIDE DEF ss, set
  <2>3. QED BY ZenonT(30), <1>1, <1>2, <2>2
<1> HIDE DEF ss
<1>5. QED BY ZenonT(30), <1>1, <1>2, <1>3, <1>4, Flattened

\* A set yields what its members yield.
LEMMA Traversed ==
  ASSUME NEW x \in SetNodes
  PROVE  /\ IsSequence(SetPermissions[x])
         /\ Range(SetPermissions[x]) = UNION {Part(m) : m \in Members(x)}
<1> PICK rank : Ranks(rank)
  BY ZenonT(30), Ranked
<1> DEFINE T == {k \in Nat : \A y \in SetNodes : rank[y] < k => IsSequence(SetPermissions[y])}
<1>1. 0 \in T
  BY DEF Ranks
<1>2. ASSUME NEW k \in Nat, k \in T PROVE k + 1 \in T
  <2> SUFFICES ASSUME NEW y \in SetNodes, rank[y] < k + 1
               PROVE  IsSequence(SetPermissions[y])
    OBVIOUS
  <2>1. ASSUME NEW m \in Members(y), m.kind = "set"
        PROVE  IsSequence(SetPermissions[m.node])
    <3>1. m.node \in SetNodes /\ rank[m.node] < rank[y] /\ rank[m.node] \in Nat /\ rank[y] \in Nat
      BY ZenonT(30), <2>1 DEF Ranks
    <3>2. rank[m.node] < k
      BY <3>1
    <3>3. QED BY ZenonT(30), <1>2, <3>1, <3>2
  <2>2. QED BY ZenonT(30), <2>1, TraversedFrom
<1>3. \A k \in Nat : k \in T
  <2> HIDE DEF T
  <2>1. QED BY ZenonT(30), <1>1, <1>2, NatInd
<1>4. PICK k \in Nat : \A y \in SetNodes : rank[y] < k
  BY Zenon DEF Ranks
<1>5. \A y \in SetNodes : IsSequence(SetPermissions[y])
  BY ZenonT(30), <1>3, <1>4
<1>6. \A m \in Members(x) : m.kind = "set" => IsSequence(SetPermissions[m.node])
  BY ZenonT(30), <1>5 DEF Ranks
<1>7. QED BY ZenonT(30), <1>6, TraversedFrom

\* A member that get_permission_set_permissions follows is one the set lists.
LEMMA MemberNode ==
  ASSUME NEW x \in SetNodes, NEW m \in Members(x)
  PROVE  \E id \in Range(Acl[x.key].sets[x.name]) : Finds(m, NodeOf(x.key, id))
<1>1. PICK id \in Range(Acl[x.key].sets[x.name]) : m = Member(x.key, id)
  BY Zenon DEF Members
<1>2. QED BY ZenonT(30), <1>1, SetFacts, MemberFinds

\* A closed set that holds a permission set holds all that the traversal finds.
LEMMA TraversalStays ==
  ASSUME NEW S \in ClosedSets, NEW x \in SetNodes, x \in S
  PROVE  Range(SetPermissions[x]) \subseteq (S \cap PermissionNodes) \cup {Unknown}
<1> PICK rank : Ranks(rank)
  BY ZenonT(30), Ranked
<1> DEFINE R == (S \cap PermissionNodes) \cup {Unknown}
           T == {k \in Nat : \A y \in SetNodes : y \in S /\ rank[y] < k => Range(SetPermissions[y]) \subseteq R}
<1>1. 0 \in T
  BY DEF Ranks
<1>2. ASSUME NEW k \in Nat, k \in T PROVE k + 1 \in T
  <2> SUFFICES ASSUME NEW y \in SetNodes, y \in S, rank[y] < k + 1
               PROVE  Range(SetPermissions[y]) \subseteq R
    OBVIOUS
  <2>1. ASSUME NEW m \in Members(y) PROVE Part(m) \subseteq R
    <3>1. PICK id \in Range(Acl[y.key].sets[y.name]) : Finds(m, NodeOf(y.key, id))
      BY ZenonT(30), MemberNode
    <3>2. NodeOf(y.key, id) \in Nodes => NodeOf(y.key, id) \in S
      <4>1. y.name \in DOMAIN Acl[y.key].sets
        BY Zenon, SetFacts
      <4>2. QED BY ZenonT(30), <4>1 DEF ClosedSets
    <3>3. CASE m.kind = "set"
      <4>1. m.node \in SetNodes /\ rank[m.node] < rank[y] /\ rank[m.node] \in Nat /\ rank[y] \in Nat
        BY ZenonT(30), <3>3 DEF Ranks
      <4>2. rank[m.node] < k
        BY <4>1
      <4>3. m.node \in S
        BY ZenonT(30), <3>1, <3>2, <3>3, NodeFacts DEF Finds
      <4>4. Range(SetPermissions[m.node]) \subseteq R
        BY ZenonT(30), <1>2, <4>1, <4>2, <4>3
      <4>5. QED BY ZenonT(30), <3>3, <4>4 DEF Part
    <3>4. CASE m.kind = "nothing"
      BY Zenon, <3>4 DEF Part
    <3>5. CASE m.kind = "permission"
      <4>1. m.node \in S \cap PermissionNodes
        BY ZenonT(30), <3>1, <3>2, <3>5, NodeFacts DEF Finds
      <4>2. QED BY ZenonT(30), <3>5, <4>1 DEF Part
    <3>6. CASE m.kind = "unknown"
      BY ZenonT(30), <3>1, <3>6 DEF Part, Finds
    <3>7. QED BY Zenon, <3>1, <3>3, <3>4, <3>5, <3>6 DEF Finds
  <2>2. QED BY <2>1, Traversed
<1>3. \A k \in Nat : k \in T
  <2> HIDE DEF T
  <2>1. QED BY ZenonT(30), <1>1, <1>2, NatInd
<1>4. PICK k \in Nat : \A y \in SetNodes : rank[y] < k
  BY Zenon DEF Ranks
<1>5. QED BY ZenonT(30), <1>3, <1>4

\* The traversal of a set that comes upon nothing unknown finds exactly the
\* permissions that can be reached from it.
LEMMA TraversalIsReachability ==
  ASSUME NEW x \in SetNodes, Unknown \notin Range(SetPermissions[x]), NEW p
  PROVE  p \in Range(SetPermissions[x]) <=> p \in PermissionNodes /\ p \in Reached[x]
<1>0. x \in Nodes
  BY Zenon, NodeFacts
<1>1. ASSUME p \in Range(SetPermissions[x])
      PROVE  p \in PermissionNodes /\ p \in Reached[x]
  <2>1. Nodes \in ClosedSets
    BY Zenon DEF ClosedSets
  <2>2. p \in PermissionNodes
    BY <1>0, <1>1, <2>1, TraversalStays
  <2>3. ASSUME NEW S \in ClosedSets, x \in S PROVE p \in S
    BY Zenon, <1>1, <2>3, TraversalStays
  <2>4. p \in Nodes
    BY ZenonT(30), <2>2, NodeFacts
  <2>5. QED BY ZenonT(30), <1>0, <2>2, <2>3, <2>4 DEF Reached
<1>2. ASSUME p \in PermissionNodes, p \in Reached[x]
      PROVE  p \in Range(SetPermissions[x])
  <2> DEFINE E == Range(SetPermissions[x])
             S == {y \in Nodes : /\ y \in PermissionNodes => y \in E
                                 /\ y \in SetNodes => Range(SetPermissions[y]) \subseteq E}
  <2>1. x \in S
    BY ZenonT(30), <1>0, NodeFacts
  <2>2. ASSUME NEW y \in S, y.name \in DOMAIN Acl[y.key].sets,
               NEW id \in Range(Acl[y.key].sets[y.name]), NodeOf(y.key, id) \in Nodes
        PROVE  NodeOf(y.key, id) \in S
    <3>1. y \in SetNodes /\ y.key \in Keys
      BY ZenonT(30), <2>2, NodeFacts
    <3> DEFINE m == Member(y.key, id)
               z == NodeOf(y.key, id)
    <3>2. m \in Members(y) /\ Finds(m, z)
      BY ZenonT(30), <3>1, MemberFinds DEF Members
    <3>3. Part(m) \subseteq E
      BY <3>1, <3>2, Traversed
    <3> HIDE DEF m, E
    <3>4. z \in SetNodes => Range(SetPermissions[z]) \subseteq E
      BY Zenon, <2>2, <3>2, <3>3, NodeFacts DEF Finds, Part
    <3>5. z \in PermissionNodes => z \in E
      BY ZenonT(30), <2>2, <3>2, <3>3, NodeFacts DEF Finds, Part
    <3>6. QED BY ZenonT(30), <2>2, <3>4, <3>5
  <2>3. S \in ClosedSets
    <3> HIDE DEF E
    <3>1. S \subseteq Nodes
      BY Zenon
    <3> HIDE DEF S
    <3>2. QED BY ZenonT(30), <2>2, <3>1 DEF ClosedSets
  <2>4. p \in Nodes
    BY ZenonT(30), <1>2, NodeFacts
  <2>5. p \in S
    <3> HIDE DEF S
    <3>1. QED BY ZenonT(30), <1>0, <1>2, <2>1, <2>3, <2>4 DEF Reached
  <2>6. QED BY ZenonT(30), <1>2, <2>5
<1>3. QED BY ZenonT(30), <1>1, <1>2

\* What get_permissions returns for an identifier is what can be reached from it.
LEMMA Looked ==
  ASSUME NEW id, Unknown \notin Range(GetPermissions(id))
  PROVE  /\ IsSequence(GetPermissions(id))
         /\ \A p : p \in Range(GetPermissions(id)) <=>
              /\ NodeOf(AppAclKey, id) \in Nodes
              /\ p \in Reached[NodeOf(AppAclKey, id)]
              /\ p \in PermissionNodes
<1> DEFINE m == Named(id)
           z == NodeOf(AppAclKey, id)
<1>1. Finds(m, z)
  BY Zenon, NamedFinds
<1>2. GetPermissions(id) = Expand(m, SetPermissions)
  BY Zenon DEF GetPermissions
<1> HIDE DEF m, z
<1>3. IsSequence(GetPermissions(id)) /\ Range(GetPermissions(id)) = Part(m)
  <2>1. m.kind = "set" => IsSequence(SetPermissions[m.node])
    BY ZenonT(30), <1>1, Traversed DEF Finds
  <2>2. QED BY ZenonT(30), <1>1, <1>2, <2>1, Expanded
<1>4. SUFFICES ASSUME NEW p
               PROVE  p \in Part(m) <=> z \in Nodes /\ p \in Reached[z] /\ p \in PermissionNodes
  BY Zenon, <1>3 DEF z
<1>5. CASE m.kind = "set"
  <2>1. z \in SetNodes /\ z \in Nodes /\ Part(m) = Range(SetPermissions[z])
    BY ZenonT(30), <1>1, <1>5, NodeFacts DEF Finds, Part
  <2>2. QED BY ZenonT(30), <1>3, <2>1, TraversalIsReachability
<1>6. CASE m.kind = "permission"
  <2>1. z \in PermissionNodes /\ z \in Nodes /\ z \notin SetNodes /\ Part(m) = {z}
    BY ZenonT(30), <1>1, <1>6, NodeFacts DEF Finds, Part
  <2>2. {z} \in ClosedSets
    BY ZenonT(30), <2>1, NodeFacts DEF ClosedSets
  <2>3. Reached[z] = {z}
    BY ZenonT(30), <2>1, <2>2 DEF Reached
  <2>4. QED BY ZenonT(30), <2>1, <2>3
<1>7. CASE m.kind = "nothing"
  BY ZenonT(30), <1>1, <1>7 DEF Finds, Part
<1>8. CASE m.kind = "unknown"
  BY ZenonT(30), <1>1, <1>3, <1>8 DEF Finds, Part
<1>9. QED BY ZenonT(30), <1>1, <1>5, <1>6, <1>7, <1>8 DEF Finds

\* One entry of a capability resolves to the active permissions it gives.
LEMMA EntryResolved ==
  ASSUME NEW c, NEW e, Unknown \notin Range(GetPermissions(e.id))
  PROVE  /\ IsSequence(EntryPermissions(c, e))
         /\ Range(EntryPermissions(c, e)) =
              {ResolvedPermission(c, e.scope, p) : p \in {p \in Nodes : Gives(e, p)}}
<1> DEFINE found == GetPermissions(e.id)
           z == NodeOf(AppAclKey, e.id)
           ss == [i \in DOMAIN found |->
                   IF Permission(found[i]).active
                   THEN <<ResolvedPermission(c, e.scope, found[i])>> ELSE <<>>]
<1>1. IsSequence(found)
      /\ \A p : p \in Range(found) <=> z \in Nodes /\ p \in Reached[z] /\ p \in PermissionNodes
  BY Zenon, Looked
<1>2. \A p \in Nodes : Gives(e, p) <=> p \in Range(found) /\ Permission(p).active
  <2> HIDE DEF found
  <2>1. QED BY Zenon, <1>1 DEF Gives, PermissionNodes
<1>3. Range(found) \subseteq Nodes
  <2> HIDE DEF found
  <2>1. QED BY ZenonT(30), <1>1 DEF PermissionNodes
<1>4. EntryPermissions(c, e) = Flatten(ss)
  BY Zenon DEF EntryPermissions
<1> HIDE DEF found, z
<1>5. IsSequence(ss) /\ DOMAIN ss = DOMAIN found
  BY ZenonT(30), <1>1, Mapped
<1>6. ASSUME NEW i \in DOMAIN found
      PROVE  /\ IsSequence(ss[i])
             /\ Range(ss[i]) = {ResolvedPermission(c, e.scope, p) :
                                  p \in {p \in {found[i]} : Permission(p).active}}
  <2>1. CASE Permission(found[i]).active
    BY <2>1, OneElement
  <2>2. CASE ~Permission(found[i]).active
    BY Zenon, <2>2, NoElement
  <2>3. QED BY ZenonT(30), <2>1, <2>2
<1> HIDE DEF ss
<1>7. /\ IsSequence(Flatten(ss))
      /\ Range(Flatten(ss)) = UNION {Range(ss[i]) : i \in DOMAIN found}
  BY ZenonT(30), <1>5, <1>6, Flattened
<1>8. ASSUME NEW x
      PROVE  x \in Range(Flatten(ss)) <=>
               \E p \in Nodes : Gives(e, p) /\ x = ResolvedPermission(c, e.scope, p)
  <2>1. x \in Range(Flatten(ss)) <=> \E i \in DOMAIN found : x \in Range(ss[i])
    BY ZenonT(30), <1>7
  <2>2. x \in Range(Flatten(ss)) <=> \E i \in DOMAIN found :
           Permission(found[i]).active /\ x = ResolvedPermission(c, e.scope, found[i])
    BY <1>6, <2>1
  <2>3. x \in Range(Flatten(ss)) <=> \E p \in Range(found) :
           Permission(p).active /\ x = ResolvedPermission(c, e.scope, p)
    BY Zenon, <2>2 DEF Range
  <2>4. QED BY ZenonT(30), <1>2, <1>3, <2>3
<1>9. QED BY ZenonT(30), <1>4, <1>7, <1>8

\* What a capability resolves to.
ResolvedOf(c) == {ResolvedPermission(c, g.scope, g.permission) : g \in GivenBy(c)}

\* Resolved::resolve walks permission sets that name each other across manifests;
\* what it collects, when it comes upon no error, are exactly the permissions that
\* a direct reading of the capabilities gives.
THEOREM ResolvedAsDeclared ==
  ASSUME NEW caps, IsSequence(caps), \A c \in Range(caps) : IsSequence(c.permissions),
         Resolves(caps)
  PROVE  /\ IsSequence(ResolvedPermissions(caps))
         /\ Range(ResolvedPermissions(caps)) = UNION {ResolvedOf(c) : c \in Range(caps)}
<1>1. ASSUME NEW c \in Range(caps), c.active
      PROVE  LET ss == [j \in DOMAIN c.permissions |-> EntryPermissions(c, c.permissions[j])]
             IN  IsSequence(Flatten(ss)) /\ Range(Flatten(ss)) = ResolvedOf(c)
  <2> DEFINE es == c.permissions
             ss == [j \in DOMAIN es |-> EntryPermissions(c, es[j])]
  <2>1. IsSequence(ss) /\ DOMAIN ss = DOMAIN es
    <3>1. IsSequence(es)
      BY Zenon
    <3> HIDE DEF es
    <3>2. QED BY ZenonT(30), <3>1, Mapped
  <2>2. ASSUME NEW j \in DOMAIN es
        PROVE  /\ IsSequence(ss[j])
               /\ Range(ss[j]) = {ResolvedPermission(c, es[j].scope, p) :
                                    p \in {p \in Nodes : Gives(es[j], p)}}
    <3>1. es[j] \in Range(es)
      BY Zenon DEF Range
    <3>2. Unknown \notin Range(GetPermissions(es[j].id))
      BY ZenonT(30), <1>1, <3>1 DEF Resolves
    <3> HIDE DEF es
    <3>3. QED BY ZenonT(30), <3>2, EntryResolved
  <2>3. ASSUME NEW x
        PROVE  x \in ResolvedOf(c) <=>
                 \E j \in DOMAIN es : \E p \in Nodes :
                    Gives(es[j], p) /\ x = ResolvedPermission(c, es[j].scope, p)
    <3>1. \A g : g \in GivenBy(c) <=>
            \E j \in DOMAIN es : \E p \in Nodes :
               Gives(es[j], p) /\ g = [scope |-> es[j].scope, permission |-> p]
      BY <1>1 DEF GivenBy, Range
    <3>2. \A s, p : [scope |-> s, permission |-> p].scope = s
                    /\ [scope |-> s, permission |-> p].permission = p
      BY Zenon
    <3> HIDE DEF es
    <3>3. ASSUME x \in ResolvedOf(c)
          PROVE  \E j \in DOMAIN es : \E p \in Nodes :
                    Gives(es[j], p) /\ x = ResolvedPermission(c, es[j].scope, p)
      BY <3>1, <3>2, <3>3 DEF ResolvedOf
    <3>4. ASSUME NEW j \in DOMAIN es, NEW p \in Nodes, Gives(es[j], p),
                 x = ResolvedPermission(c, es[j].scope, p)
          PROVE  x \in ResolvedOf(c)
      <4> DEFINE g == [scope |-> es[j].scope, permission |-> p]
      <4>1. g \in GivenBy(c) /\ g.scope = es[j].scope /\ g.permission = p
        BY ZenonT(30), <3>1, <3>2, <3>4
      <4> HIDE DEF g
      <4>2. QED BY Zenon, <3>4, <4>1 DEF ResolvedOf
    <3>5. QED BY ZenonT(30), <3>3, <3>4
  <2> HIDE DEF ss, es
  <2>4. IsSequence(Flatten(ss)) /\ Range(Flatten(ss)) = UNION {Range(ss[j]) : j \in DOMAIN es}
    BY ZenonT(30), <2>1, <2>2, Flattened
  <2>5. Range(Flatten(ss)) = ResolvedOf(c)
    <3>1. ASSUME NEW x
          PROVE  x \in Range(Flatten(ss)) <=>
                   \E j \in DOMAIN es : \E p \in Nodes :
                      Gives(es[j], p) /\ x = ResolvedPermission(c, es[j].scope, p)
      <4>1. x \in Range(Flatten(ss)) <=> \E j \in DOMAIN es : x \in Range(ss[j])
        BY Zenon, <2>4
      <4>2. QED BY ZenonT(30), <2>2, <4>1
    <3>2. QED BY ZenonT(30), <2>3, <3>1
  <2>6. QED BY ZenonT(30), <2>4, <2>5 DEF ss, es
<1>2. ASSUME NEW c \in Range(caps), ~c.active
      PROVE  ResolvedOf(c) = {}
  BY ZenonT(30), <1>2 DEF ResolvedOf, GivenBy
<1> DEFINE Of(c) == IF c.active
                    THEN Flatten([j \in DOMAIN c.permissions |-> EntryPermissions(c, c.permissions[j])])
                    ELSE <<>>
           tt == [i \in DOMAIN caps |-> Of(caps[i])]
<1>3. IsSequence(tt) /\ DOMAIN tt = DOMAIN caps
  BY Zenon, Mapped
<1>4. ASSUME NEW i \in DOMAIN caps
      PROVE  IsSequence(tt[i]) /\ Range(tt[i]) = ResolvedOf(caps[i])
  <2>1. caps[i] \in Range(caps)
    BY Zenon DEF Range
  <2>2. tt[i] = Of(caps[i])
    BY Zenon
  <2>3. CASE caps[i].active
    BY ZenonT(30), <1>1, <2>1, <2>2, <2>3
  <2>4. CASE ~caps[i].active
    BY ZenonT(30), <1>2, <2>1, <2>2, <2>4, NoElement
  <2>5. QED BY ZenonT(30), <2>3, <2>4
<1>5. ResolvedPermissions(caps) = Flatten(tt)
  BY Zenon DEF ResolvedPermissions
<1> HIDE DEF tt, Of
<1>6. /\ IsSequence(Flatten(tt))
      /\ Range(Flatten(tt)) = UNION {Range(tt[i]) : i \in DOMAIN caps}
  BY ZenonT(30), <1>3, <1>4, Flattened
<1>7. UNION {Range(tt[i]) : i \in DOMAIN caps} = UNION {ResolvedOf(c) : c \in Range(caps)}
  BY <1>4 DEF Range
<1>8. QED BY ZenonT(30), <1>5, <1>6, <1>7

-----------------------------------------------------------------------------
\* The tables.

\* Capabilities as they come from a file: lists, and scopes of the right shape.
WellFormed(caps) ==
  /\ IsSequence(caps)
  /\ \A c \in Range(caps) : /\ IsSequence(c.permissions) /\ IsSequence(c.remote)
                            /\ \A e \in Range(c.permissions) : e.scope \in Scope

\* What the capabilities resolve to.
Resolved(caps) == UNION {ResolvedOf(c) : c \in Range(caps)}

\* Merging scopes gives a scope.
LEMMA MergeInScope ==
  ASSUME NEW a \in Scope, NEW b \in Scope
  PROVE  Merge(a, b) \in Scope
BY Zenon DEF Merge, Scope

\* What is resolved belongs to its capability and has a scope.
LEMMA ResolvedShape ==
  ASSUME NEW caps, WellFormed(caps), NEW p \in Resolved(caps)
  PROVE  p.capability \in Range(caps) /\ p.scope \in Scope /\ p.key \in Keys
<1>0. PICK c \in Range(caps) : p \in ResolvedOf(c)
  BY ZenonT(30) DEF Resolved
<1>1. PICK g \in GivenBy(c) : p = ResolvedPermission(c, g.scope, g.permission)
  BY ZenonT(30), <1>0 DEF ResolvedOf
<1>2. g.scope \in Scope /\ g.permission \in Nodes
      /\ g.permission.name \in DOMAIN Acl[g.permission.key].permissions
  BY ZenonT(30) DEF WellFormed, GivenBy, Gives
<1>3. g.permission.key \in Keys
  BY ZenonT(30), <1>2, NodeFacts
<1>4. Permission(g.permission).scope \in Scope
  BY ZenonT(30), <1>2, <1>3, AclAssumption DEF Permission
<1>5. p.capability = c /\ p.key = g.permission.key
      /\ p.scope = Merge(g.scope, Permission(g.permission).scope)
  BY ZenonT(30), <1>1 DEF ResolvedPermission
<1>6. QED BY ZenonT(30), <1>2, <1>3, <1>4, <1>5, MergeInScope

\* The id of the i-th permission.
LEMMA NumberedAt ==
  ASSUME NEW ps, IsSequence(ps)
  PROVE  /\ IsSequence(Numbered(ps)) /\ DOMAIN Numbered(ps) = DOMAIN ps
         /\ \A i \in DOMAIN ps :
              /\ Numbered(ps)[i].permission = ps[i]
              /\ Numbered(ps)[i].id = IF HasScopeId(ps[i])
                                      THEN Cardinality({j \in 1 .. i : HasScopeId(ps[j])})
                                      ELSE NoScopeId
<1>1. Numbered(ps) = [i \in DOMAIN ps |-> Numbered(ps)[i]]
  BY Zenon DEF Numbered
<1>2. QED BY ZenonT(30), <1>1, Mapped DEF Numbered

\* Ids of different permissions differ, and none is the one that stands for None.
LEMMA NumbersDiffer ==
  ASSUME NEW ps, IsSequence(ps), NEW i \in DOMAIN ps, NEW j \in DOMAIN ps,
         HasScopeId(ps[i]), HasScopeId(ps[j])
  PROVE  /\ Numbered(ps)[i].id # NoScopeId
         /\ i < j => Numbered(ps)[i].id # Numbered(ps)[j].id
<1> DEFINE Before(k) == {l \in 1 .. k : HasScopeId(ps[l])}
<1>1. DOMAIN ps = 1 .. Len(ps) /\ Len(ps) \in Nat
  BY DEF IsSequence
<1>2. ASSUME NEW k \in DOMAIN ps PROVE IsFiniteSet(Before(k)) /\ Cardinality(Before(k)) \in Nat
  <2>1. k \in Nat
    BY <1>1
  <2>2. IsFiniteSet(1 .. k)
    BY <2>1, FS_Interval
  <2>3. Before(k) \subseteq 1 .. k
    BY Zenon
  <2> HIDE DEF Before
  <2>4. QED BY ZenonT(30), <2>2, <2>3, FS_Subset, FS_CardinalityType
<1>3. i \in Before(i) /\ j \in Before(j)
  BY <1>1
<1>4. Cardinality(Before(i)) # 0
  <2> HIDE DEF Before
  <2>1. QED BY ZenonT(30), <1>2, <1>3, FS_EmptySet
<1>5. Numbered(ps)[i].id = Cardinality(Before(i)) /\ Numbered(ps)[j].id = Cardinality(Before(j))
  BY ZenonT(30), NumberedAt
<1>6. ASSUME i < j PROVE Cardinality(Before(i)) # Cardinality(Before(j))
  <2>1. Before(i) \subseteq Before(j) /\ j \notin Before(i)
    BY <1>1, <1>6
  <2> HIDE DEF Before
  <2>2. Before(i) # Before(j)
    BY ZenonT(30), <1>3, <2>1
  <2>3. QED BY ZenonT(30), <1>2, <2>1, <2>2, FS_Subset
<1> HIDE DEF Before
<1>7. QED BY ZenonT(30), <1>4, <1>5, <1>6 DEF NoScopeId

\* The contexts of a capability: local, and its remote URLs.
LEMMA ContextsAre ==
  ASSUME NEW c, IsSequence(c.remote)
  PROVE  IsSequence(Contexts(c)) /\ Range(Contexts(c)) \subseteq {"local"} \cup Range(c.remote)
<1> DEFINE S == {"local"} \cup Range(c.remote)
           first == IF c.local THEN <<"local">> ELSE <<>>
<1>1. first \in Seq(S)
  <2>1. <<"local">> \in Seq(S) /\ <<>> \in Seq(S)
    <3>1. "local" \in S
      BY Zenon
    <3> HIDE DEF S
    <3>2. QED BY <3>1
  <2>2. QED BY ZenonT(30), <2>1
<1>2. c.remote \in Seq(S)
  <2>1. c.remote \in Seq(Range(c.remote)) /\ Range(c.remote) \subseteq S
    BY Zenon DEF IsSequence
  <2> HIDE DEF S
  <2>2. QED BY <2>1
<1>3. Contexts(c) = first \o c.remote
  BY ZenonT(30) DEF Contexts
<1> HIDE DEF first, S
<1>4. Contexts(c) \in Seq(S)
  BY <1>1, <1>2, <1>3, Joined
<1>5. QED BY ZenonT(30), <1>4, IsSeq DEF S

\* The entry of a command, in the context x of the capability c.
EntryFor(c, x, id) ==
  [context |-> x, windows |-> c.windows, webviews |-> c.webviews, scope_id |-> id]

\* resolve_command, for all permissions that grant a command: one entry for each
\* context of each.
LEMMA EntriesAre ==
  ASSUME NEW qs, IsSequence(qs), \A q \in Range(qs) : IsSequence(q.permission.capability.remote)
  PROVE  /\ IsSequence(CommandEntries(qs))
         /\ \A a : a \in Range(CommandEntries(qs)) <=>
              \E q \in Range(qs) : \E x \in Range(Contexts(q.permission.capability)) :
                a = EntryFor(q.permission.capability, x, q.id)
<1> DEFINE ss == [i \in DOMAIN qs |-> ResolvedCommands(qs[i])]
<1>1. IsSequence(ss) /\ DOMAIN ss = DOMAIN qs
  BY ZenonT(30), Mapped
<1>2. ASSUME NEW q \in Range(qs)
      PROVE  /\ IsSequence(ResolvedCommands(q))
             /\ \A a : a \in Range(ResolvedCommands(q)) <=>
                  \E x \in Range(Contexts(q.permission.capability)) :
                    a = EntryFor(q.permission.capability, x, q.id)
  <2> DEFINE c == q.permission.capability
             cs == Contexts(c)
  <2>1. ResolvedCommands(q) = [n \in DOMAIN cs |-> EntryFor(c, cs[n], q.id)]
    BY Zenon DEF ResolvedCommands, EntryFor
  <2>2. IsSequence(cs)
    BY ZenonT(30), ContextsAre
  <2> HIDE DEF cs, c
  <2>3. IsSequence(ResolvedCommands(q)) /\ DOMAIN ResolvedCommands(q) = DOMAIN cs
    BY ZenonT(30), <2>1, <2>2, Mapped
  <2>4. Range(ResolvedCommands(q)) = {EntryFor(c, cs[n], q.id) : n \in DOMAIN cs}
    BY ZenonT(30), <2>1, <2>3 DEF Range
  <2>5. QED BY ZenonT(30), <2>3, <2>4 DEF Range, cs, c
<1>3. ASSUME NEW i \in DOMAIN qs
      PROVE  ss[i] = ResolvedCommands(qs[i]) /\ qs[i] \in Range(qs)
  BY Zenon DEF Range
<1>4. CommandEntries(qs) = Flatten(ss)
  BY Zenon DEF CommandEntries
<1> HIDE DEF ss
<1>5. /\ IsSequence(Flatten(ss))
      /\ Range(Flatten(ss)) = UNION {Range(ss[i]) : i \in DOMAIN qs}
  BY ZenonT(30), <1>1, <1>2, <1>3, Flattened
<1>6. ASSUME NEW a
      PROVE  a \in Range(CommandEntries(qs)) <=> \E q \in Range(qs) : a \in Range(ResolvedCommands(q))
  <2>1. a \in Range(CommandEntries(qs)) <=> \E i \in DOMAIN qs : a \in Range(ss[i])
    BY ZenonT(30), <1>4, <1>5
  <2>2. \A q : q \in Range(qs) <=> \E i \in DOMAIN qs : q = qs[i]
    BY Zenon DEF Range
  <2>3. QED BY ZenonT(30), <1>3, <2>1, <2>2
<1>7. ASSUME NEW a
      PROVE  (\E q \in Range(qs) : a \in Range(ResolvedCommands(q))) <=>
             (\E q \in Range(qs) : \E x \in Range(Contexts(q.permission.capability)) :
                a = EntryFor(q.permission.capability, x, q.id))
  BY ZenonT(30), <1>2
<1>8. IsSequence(CommandEntries(qs))
  BY ZenonT(30), <1>4, <1>5
<1>9. QED BY ZenonT(30), <1>6, <1>7, <1>8

\* The scope of the entry is the one of the permission that grants it.
HasScope(tables, a, p) ==
  IF p.scope.given
  THEN /\ a.scope_id \in DOMAIN tables.command_scope
       /\ tables.command_scope[a.scope_id] = [allow |-> p.scope.allow, deny |-> p.scope.deny]
  ELSE a.scope_id = NoScopeId

\* The entry is the one of a permission, for one of the contexts of its capability.
IsEntry(tables, a, p) ==
  /\ \E x \in Range(Contexts(p.capability)) : a = EntryFor(p.capability, x, a.scope_id)
  /\ HasScope(tables, a, p)

\* The numbered permissions of capabilities that resolve: each has the scope id
\* under which its own scope is stored.
LEMMA NumberedResolved ==
  ASSUME NEW caps, WellFormed(caps), Resolves(caps),
         NEW ps, ps = ResolvedPermissions(caps), NEW qs, qs = Numbered(ps)
  PROVE  /\ IsSequence(qs)
         /\ \A q \in Range(qs) : /\ q.permission \in Resolved(caps)
                                 /\ q.id = NoScopeId <=> ~HasScopeId(q.permission)
         /\ \A p \in Resolved(caps) : \E q \in Range(qs) : q.permission = p
         /\ \A q, r \in Range(qs) : q.id = r.id /\ q.id # NoScopeId => q.permission = r.permission
<1>1. IsSequence(ps) /\ Range(ps) = Resolved(caps)
  BY ZenonT(30), ResolvedAsDeclared DEF WellFormed, Resolved
<1>2. /\ IsSequence(qs) /\ DOMAIN qs = DOMAIN ps
      /\ \A i \in DOMAIN ps : qs[i].permission = ps[i]
  BY ZenonT(30), <1>1, NumberedAt
<1>3. ASSUME NEW i \in DOMAIN ps
      PROVE  qs[i].id = NoScopeId <=> ~HasScopeId(ps[i])
  BY ZenonT(30), <1>1, NumberedAt, NumbersDiffer
<1>4. ASSUME NEW i \in DOMAIN ps, NEW j \in DOMAIN ps, qs[i].id = qs[j].id, qs[i].id # NoScopeId
      PROVE  i = j
  <2>1. HasScopeId(ps[i]) /\ HasScopeId(ps[j])
    BY ZenonT(30), <1>3, <1>4
  <2>2. ~(i < j) /\ ~(j < i)
    BY ZenonT(30), <1>1, <1>4, <2>1, NumbersDiffer
  <2>3. i \in Nat /\ j \in Nat
    BY <1>1 DEF IsSequence
  <2>4. QED BY <2>2, <2>3
<1>5. \A q \in Range(qs) : \E i \in DOMAIN ps : q = qs[i]
  BY ZenonT(30), <1>2 DEF Range
<1>6. \A i \in DOMAIN ps : ps[i] \in Range(ps) /\ qs[i] \in Range(qs)
  BY ZenonT(30), <1>2 DEF Range
<1>7. \A p \in Range(ps) : \E i \in DOMAIN ps : p = ps[i]
  BY Zenon DEF Range
<1>8. QED BY <1>1, <1>2, <1>3, <1>4, <1>5, <1>6, <1>7

Allows(p, cmd) == Plugin[p.key] = cmd.key /\ cmd.name \in p.allow
Refuses(p, cmd) == Plugin[p.key] = cmd.key /\ cmd.name \in p.deny

\* The tables R say what the capabilities give.  The entries of a command are those
\* of the permissions that allow it, one for each context, with the scope of just
\* that permission; it is denied if a permission that denies it has a context; a
\* global scope joins the scopes of its key's permissions without commands.
TablesDeclare(caps, R) ==
  /\ DOMAIN R.allowed = Commands /\ DOMAIN R.denied = Commands
  /\ \A cmd \in Commands :
       /\ IsSequence(R.allowed[cmd]) /\ IsSequence(R.denied[cmd])
       /\ \A a \in Range(R.allowed[cmd]) :
            \E p \in Resolved(caps) : Allows(p, cmd) /\ IsEntry(R, a, p)
       /\ \A p \in Resolved(caps) : Allows(p, cmd) =>
            \A x \in Range(Contexts(p.capability)) :
              \E a \in Range(R.allowed[cmd]) : a.context = x /\ IsEntry(R, a, p)
       /\ R.denied[cmd] # <<>> <=>
            \E p \in Resolved(caps) : Refuses(p, cmd) /\ Contexts(p.capability) # <<>>
  /\ \A n \in DOMAIN R.command_scope : R.command_scope[n] \in PlainScope
  /\ NoScopeId \notin DOMAIN R.command_scope
  /\ DOMAIN R.global_scope = {k \in Keys : \E p \in Resolved(caps) : p.key = k /\ IsGlobal(p)}
  /\ \A k \in DOMAIN R.global_scope : R.global_scope[k] =
       MergeAll({p.scope : p \in {p \in Resolved(caps) : p.key = k /\ IsGlobal(p)}})

\* What Resolved::resolve returns, for capabilities in which it comes upon no error,
\* says what the capabilities give: every scope id leads to the scope of the one
\* permission it was counted for.
THEOREM ResolutionTables ==
  ASSUME NEW caps, WellFormed(caps), Resolves(caps)
  PROVE  TablesDeclare(caps, Resolve(caps))
<1> DEFINE R == Resolve(caps)
           ps == ResolvedPermissions(caps)
           qs == Numbered(ps)
<1>1. R = Tables(qs)
  BY Zenon DEF Resolve
<1>2. /\ IsSequence(qs)
      /\ \A q \in Range(qs) : /\ q.permission \in Resolved(caps)
                              /\ q.id = NoScopeId <=> ~HasScopeId(q.permission)
      /\ \A p \in Resolved(caps) : \E q \in Range(qs) : q.permission = p
      /\ \A q, r \in Range(qs) : q.id = r.id /\ q.id # NoScopeId => q.permission = r.permission
  BY NumberedResolved
<1> HIDE DEF R, qs, ps
<1>3. /\ R.allowed = [c \in Commands |-> CommandEntries(Only(qs, AllowedBy(qs, c)))]
      /\ R.denied = [c \in Commands |-> CommandEntries(Only(qs, DeniedBy(qs, c)))]
      /\ R.command_scope = [n \in {q.id : q \in Range(qs)} \ {NoScopeId} |->
             MergeAll({q.permission.scope : q \in {q \in Range(qs) : q.id = n}})]
      /\ R.global_scope = [k \in {k \in Keys : GlobalOf(qs, k) # {}} |->
             MergeAll({q.permission.scope : q \in GlobalOf(qs, k)})]
  BY <1>1 DEF Tables
<1>4. ASSUME NEW q \in Range(qs) PROVE IsSequence(q.permission.capability.remote)
  BY ZenonT(30), <1>2, ResolvedShape DEF WellFormed
<1>5. ASSUME NEW S, S \subseteq Range(qs), NEW es, es = CommandEntries(Only(qs, S))
      PROVE  /\ IsSequence(es)
             /\ \A a : a \in Range(es) <=>
                  \E q \in S : \E x \in Range(Contexts(q.permission.capability)) :
                    a = EntryFor(q.permission.capability, x, q.id)
  <2>0. IsSequence(qs) /\ Range(qs) \cap S = S
    BY ZenonT(30), <1>2, <1>5
  <2>1. IsSequence(Only(qs, S)) /\ Range(Only(qs, S)) = S
    BY ZenonT(30), <2>0, OnlyElements
  <2>2. QED BY ZenonT(30), <1>4, <1>5, <2>1, EntriesAre
<1>6. ASSUME NEW q \in Range(qs), q.id # NoScopeId
      PROVE  /\ q.id \in DOMAIN R.command_scope
             /\ R.command_scope[q.id] = [allow |-> q.permission.scope.allow,
                                         deny |-> q.permission.scope.deny]
  <2> DEFINE same == {r.permission.scope : r \in {r \in Range(qs) : r.id = q.id}}
  <2>1. same = {q.permission.scope}
    BY <1>2, <1>6
  <2>2. q.id \in DOMAIN R.command_scope /\ R.command_scope[q.id] = MergeAll(same)
    BY ZenonT(30), <1>3, <1>6
  <2> HIDE DEF same
  <2>3. QED BY ZenonT(30), <2>1, <2>2 DEF MergeAll
<1>7. ASSUME NEW q \in Range(qs), NEW a, a.scope_id = q.id, ~IsGlobal(q.permission)
      PROVE  HasScope(R, a, q.permission)
  BY ZenonT(30), <1>2, <1>6, <1>7 DEF HasScope, HasScopeId
<1>8. \A c, x, id : EntryFor(c, x, id).scope_id = id /\ EntryFor(c, x, id).context = x
  BY ZenonT(30) DEF EntryFor
<1>9. ASSUME NEW cmd \in Commands
      PROVE  /\ IsSequence(R.allowed[cmd]) /\ IsSequence(R.denied[cmd])
             /\ \A a \in Range(R.allowed[cmd]) :
                  \E p \in Resolved(caps) : Allows(p, cmd) /\ IsEntry(R, a, p)
             /\ \A p \in Resolved(caps) : Allows(p, cmd) =>
                  \A x \in Range(Contexts(p.capability)) :
                    \E a \in Range(R.allowed[cmd]) : a.context = x /\ IsEntry(R, a, p)
             /\ R.denied[cmd] # <<>> <=>
                  \E p \in Resolved(caps) : Refuses(p, cmd) /\ Contexts(p.capability) # <<>>
  <2>1. /\ IsSequence(R.allowed[cmd])
        /\ \A a : a \in Range(R.allowed[cmd]) <=>
             \E q \in AllowedBy(qs, cmd) : \E x \in Range(Contexts(q.permission.capability)) :
               a = EntryFor(q.permission.capability, x, q.id)
    <3>1. AllowedBy(qs, cmd) \subseteq Range(qs)
      BY Zenon DEF AllowedBy
    <3>2. R.allowed[cmd] = CommandEntries(Only(qs, AllowedBy(qs, cmd)))
      BY ZenonT(30), <1>3
    <3>3. QED BY ZenonT(30), <1>5, <3>1, <3>2
  <2>2. /\ IsSequence(R.denied[cmd])
        /\ \A a : a \in Range(R.denied[cmd]) <=>
             \E q \in DeniedBy(qs, cmd) : \E x \in Range(Contexts(q.permission.capability)) :
               a = EntryFor(q.permission.capability, x, q.id)
    <3>1. DeniedBy(qs, cmd) \subseteq Range(qs)
      BY Zenon DEF DeniedBy
    <3>2. R.denied[cmd] = CommandEntries(Only(qs, DeniedBy(qs, cmd)))
      BY ZenonT(30), <1>3
    <3>3. QED BY ZenonT(30), <1>5, <3>1, <3>2
  <2>3. ASSUME NEW a \in Range(R.allowed[cmd])
        PROVE  \E p \in Resolved(caps) : Allows(p, cmd) /\ IsEntry(R, a, p)
    <3>1. PICK q \in AllowedBy(qs, cmd) : \E x \in Range(Contexts(q.permission.capability)) :
                                          a = EntryFor(q.permission.capability, x, q.id)
      BY ZenonT(30), <2>1
    <3>2. q \in Range(qs) /\ Allows(q.permission, cmd) /\ q.permission \in Resolved(caps)
      BY ZenonT(30), <1>2 DEF AllowedBy, Allows
    <3>3. a.scope_id = q.id /\ ~IsGlobal(q.permission)
      BY <1>8, <3>1, <3>2 DEF Allows, IsGlobal
    <3>4. IsEntry(R, a, q.permission)
      BY Zenon, <1>7, <3>1, <3>2, <3>3 DEF IsEntry
    <3>5. QED BY ZenonT(30), <3>2, <3>4
  <2>4. ASSUME NEW p \in Resolved(caps), Allows(p, cmd), NEW x \in Range(Contexts(p.capability))
        PROVE  \E a \in Range(R.allowed[cmd]) : a.context = x /\ IsEntry(R, a, p)
    <3>1. PICK q \in Range(qs) : q.permission = p
      BY ZenonT(30), <1>2
    <3>2. q \in AllowedBy(qs, cmd)
      BY ZenonT(30), <2>4, <3>1 DEF AllowedBy, Allows
    <3> DEFINE a == EntryFor(p.capability, x, q.id)
    <3>3. a \in Range(R.allowed[cmd]) /\ a.context = x /\ a.scope_id = q.id
      <4>1. \E r \in AllowedBy(qs, cmd) : \E y \in Range(Contexts(r.permission.capability)) :
               a = EntryFor(r.permission.capability, y, r.id)
        BY ZenonT(30), <3>1, <3>2
      <4>2. a \in Range(R.allowed[cmd])
        <5> HIDE DEF a
        <5>1. QED BY ZenonT(30), <2>1, <4>1
      <4>3. QED BY <1>8, <4>2
    <3>4. ~IsGlobal(p)
      BY ZenonT(30), <2>4 DEF Allows, IsGlobal
    <3>5. a = EntryFor(p.capability, x, a.scope_id)
      BY ZenonT(30), <3>3
    <3> HIDE DEF a
    <3>6. IsEntry(R, a, p)
      BY ZenonT(30), <1>7, <3>1, <3>3, <3>4, <3>5 DEF IsEntry
    <3>7. QED BY ZenonT(30), <3>3, <3>6
  <2>5. R.denied[cmd] # <<>> <=>
          \E p \in Resolved(caps) : Refuses(p, cmd) /\ Contexts(p.capability) # <<>>
    <3>1. R.denied[cmd] # <<>> <=> \E a : a \in Range(R.denied[cmd])
      BY ZenonT(30), <2>2, EmptyOnly
    <3>2. R.denied[cmd] # <<>> <=>
            \E q \in DeniedBy(qs, cmd) : Range(Contexts(q.permission.capability)) # {}
      BY ZenonT(30), <2>2, <3>1
    <3>3. ASSUME NEW q \in Range(qs)
          PROVE  Range(Contexts(q.permission.capability)) # {} <=> Contexts(q.permission.capability) # <<>>
      BY ZenonT(30), <1>4, ContextsAre, EmptyOnly
    <3>4. \A q : q \in DeniedBy(qs, cmd) <=> q \in Range(qs) /\ Refuses(q.permission, cmd)
      BY Zenon DEF DeniedBy, Refuses
    <3>5. ASSUME NEW q \in DeniedBy(qs, cmd), Range(Contexts(q.permission.capability)) # {}
          PROVE  \E p \in Resolved(caps) : Refuses(p, cmd) /\ Contexts(p.capability) # <<>>
      BY ZenonT(30), <1>2, <3>3, <3>4, <3>5
    <3>6. ASSUME NEW p \in Resolved(caps), Refuses(p, cmd), Contexts(p.capability) # <<>>
          PROVE  \E q \in DeniedBy(qs, cmd) : Range(Contexts(q.permission.capability)) # {}
      <4>1. PICK q \in Range(qs) : q.permission = p
        BY ZenonT(30), <1>2
      <4>2. QED BY ZenonT(30), <3>3, <3>4, <3>6, <4>1
    <3>7. QED BY ZenonT(30), <3>2, <3>5, <3>6
  <2>6. QED BY ZenonT(30), <2>1, <2>2, <2>3, <2>4, <2>5
<1>10. ASSUME NEW n \in DOMAIN R.command_scope PROVE R.command_scope[n] \in PlainScope
  <2>1. PICK q \in Range(qs) : q.id = n /\ n # NoScopeId
    BY Zenon, <1>3
  <2>2. q.permission.scope \in Scope
    BY ZenonT(30), <1>2, ResolvedShape
  <2>3. q.permission.scope.allow \subseteq Values /\ q.permission.scope.deny \subseteq Values
    BY ZenonT(30), <2>2 DEF Scope
  <2>4. R.command_scope[n] = [allow |-> q.permission.scope.allow,
                              deny |-> q.permission.scope.deny]
    BY ZenonT(30), <1>6, <2>1
  <2>5. QED BY <2>3, <2>4 DEF PlainScope
<1>11. ASSUME NEW k
       PROVE  {q.permission : q \in GlobalOf(qs, k)} =
                {p \in Resolved(caps) : p.key = k /\ IsGlobal(p)}
  BY ZenonT(30), <1>2 DEF GlobalOf
<1>12. \A k : GlobalOf(qs, k) # {} <=> \E p \in Resolved(caps) : p.key = k /\ IsGlobal(p)
  <2> TAKE k
  <2>1. GlobalOf(qs, k) # {} <=> {q.permission : q \in GlobalOf(qs, k)} # {}
    BY Zenon
  <2>2. QED BY ZenonT(30), <1>11, <2>1
<1>13. ASSUME NEW k \in DOMAIN R.global_scope
       PROVE  R.global_scope[k] =
                MergeAll({p.scope : p \in {p \in Resolved(caps) : p.key = k /\ IsGlobal(p)}})
  <2>1. R.global_scope[k] = MergeAll({q.permission.scope : q \in GlobalOf(qs, k)})
    BY ZenonT(30), <1>3
  <2>2. {q.permission.scope : q \in GlobalOf(qs, k)} = {p.scope : p \in {q.permission : q \in GlobalOf(qs, k)}}
    BY Zenon
  <2>3. QED BY ZenonT(30), <1>11, <2>1, <2>2
<1>14. TablesDeclare(caps, R)
  BY ZenonT(30), <1>3, <1>9, <1>10, <1>12, <1>13 DEF TablesDeclare
<1>15. QED BY <1>14 DEF R

-----------------------------------------------------------------------------
(* When resolving ends in an error *)

\* The set x lists a name that no manifest has.
Dangling(x) == \E m \in Members(x) : m.kind = "unknown"

\* The reading of an entry by reachability: the entry or some set that is reached
\* from it lists a name that no manifest has.
Broken(id) ==
  \/ Named(id).kind = "unknown"
  \/ /\ NodeOf(AppAclKey, id) \in Nodes
     /\ \E y \in SetNodes : y \in Reached[NodeOf(AppAclKey, id)] /\ Dangling(y)

\* The traversal of a set comes upon every unknown name that is reached from it.
LEMMA DanglingFound ==
  ASSUME NEW x \in SetNodes, Unknown \notin Range(SetPermissions[x]),
         NEW y \in SetNodes, y \in Reached[x]
  PROVE  ~Dangling(y)
<1> DEFINE S == {z \in Nodes : z \in SetNodes => Unknown \notin Range(SetPermissions[z])}
<1>0. x \in Nodes /\ y \in Nodes
  BY Zenon, NodeFacts
<1>1. ASSUME NEW w \in S, w.name \in DOMAIN Acl[w.key].sets,
             NEW id \in Range(Acl[w.key].sets[w.name]), NodeOf(w.key, id) \in Nodes
      PROVE  NodeOf(w.key, id) \in S
  <2>1. w \in SetNodes /\ w.key \in Keys /\ Unknown \notin Range(SetPermissions[w])
    BY ZenonT(30), <1>1, NodeFacts
  <2> DEFINE m == Member(w.key, id)
             z == NodeOf(w.key, id)
  <2>2. m \in Members(w) /\ Finds(m, z)
    BY ZenonT(30), <2>1, MemberFinds DEF Members
  <2>3. Unknown \notin Part(m)
    BY <2>1, <2>2, Traversed
  <2> HIDE DEF m
  <2>4. z \in SetNodes => Unknown \notin Range(SetPermissions[z])
    BY Zenon, <1>1, <2>2, <2>3, NodeFacts DEF Finds, Part
  <2>5. QED BY ZenonT(30), <1>1, <2>4
<1>2. S \in ClosedSets
  <2>1. S \subseteq Nodes
    BY Zenon
  <2> HIDE DEF S
  <2>2. QED BY ZenonT(30), <1>1, <2>1 DEF ClosedSets
<1>3. y \in S
  <2>1. x \in S
    BY Zenon, <1>0
  <2> HIDE DEF S
  <2>2. QED BY ZenonT(30), <1>0, <1>2, <2>1 DEF Reached
<1>4. Unknown \notin UNION {Part(m) : m \in Members(y)}
  BY Zenon, <1>3, Traversed
<1>5. ASSUME NEW m \in Members(y), m.kind = "unknown" PROVE FALSE
  <2>1. Part(m) = {Unknown}
    BY ZenonT(30), <1>5, MemberNode DEF Part, Finds
  <2>2. QED BY Zenon, <1>4, <2>1
<1>6. QED BY Zenon, <1>5 DEF Dangling

\* What is reached from a node is closed, and holds it.
LEMMA ReachedIsClosed ==
  ASSUME NEW x \in Nodes
  PROVE  x \in Reached[x] /\ Reached[x] \in ClosedSets
<1>1. Reached[x] = {y \in Nodes : \A S \in ClosedSets : x \in S => y \in S}
  BY Zenon DEF Reached
<1> DEFINE R == Reached[x]
<1>2. x \in R /\ R \subseteq Nodes
  BY Zenon, <1>1
<1>3. ASSUME NEW y \in R, y.name \in DOMAIN Acl[y.key].sets,
             NEW z \in {NodeOf(y.key, m) : m \in Range(Acl[y.key].sets[y.name])} \cap Nodes
      PROVE  z \in R
  <2>1. ASSUME NEW S \in ClosedSets, x \in S PROVE z \in S
    <3>1. y \in S
      BY Zenon, <1>1, <1>3, <2>1
    <3>2. QED BY Zenon, <1>3, <3>1 DEF ClosedSets
  <2>2. QED BY Zenon, <1>1, <1>3, <2>1
<1> HIDE DEF R
<1>4. R \in ClosedSets
  BY Zenon, <1>2, <1>3 DEF ClosedSets
<1>5. QED BY Zenon, <1>2, <1>4 DEF R

\* The traversal of a set comes upon no error but for an unknown name.
LEMMA OnlyDanglingFound ==
  ASSUME NEW x \in SetNodes, \A y \in SetNodes : y \in Reached[x] => ~Dangling(y)
  PROVE  Unknown \notin Range(SetPermissions[x])
<1> PICK rank : Ranks(rank)
  BY ZenonT(30), Ranked
<1> DEFINE S == Reached[x]
           T == {k \in Nat : \A y \in SetNodes :
                   y \in S /\ rank[y] < k => Unknown \notin Range(SetPermissions[y])}
<1>0. x \in Nodes /\ x \in S /\ S \in ClosedSets
  BY Zenon, NodeFacts, ReachedIsClosed
<1> HIDE DEF S
<1>1. 0 \in T
  BY DEF Ranks
<1>2. ASSUME NEW k \in Nat, k \in T PROVE k + 1 \in T
  <2> SUFFICES ASSUME NEW y \in SetNodes, y \in S, rank[y] < k + 1
               PROVE  Unknown \notin Range(SetPermissions[y])
    OBVIOUS
  <2>1. ASSUME NEW m \in Members(y) PROVE Unknown \notin Part(m)
    <3>1. PICK id \in Range(Acl[y.key].sets[y.name]) : Finds(m, NodeOf(y.key, id))
      BY ZenonT(30), MemberNode
    <3>2. CASE m.kind = "set"
      <4>1. m.node \in SetNodes /\ rank[m.node] < rank[y] /\ rank[m.node] \in Nat /\ rank[y] \in Nat
        BY ZenonT(30), <3>2 DEF Ranks
      <4>2. rank[m.node] < k
        BY <4>1
      <4>3. y.name \in DOMAIN Acl[y.key].sets
        BY Zenon, SetFacts
      <4>4. m.node \in S
        BY ZenonT(30), <1>0, <3>1, <3>2, <4>3, NodeFacts DEF Finds, ClosedSets
      <4>5. QED BY ZenonT(30), <1>2, <3>2, <4>1, <4>2, <4>4 DEF Part
    <3>3. CASE m.kind = "nothing"
      BY Zenon, <3>3 DEF Part
    <3>4. CASE m.kind = "permission"
      BY ZenonT(30), <3>1, <3>4, NodeFacts DEF Part, Finds
    <3>5. m.kind # "unknown"
      BY Zenon DEF Dangling, S
    <3>6. QED BY Zenon, <3>1, <3>2, <3>3, <3>4, <3>5 DEF Finds
  <2>2. QED BY <2>1, Traversed
<1>3. \A k \in Nat : k \in T
  <2> HIDE DEF T
  <2>1. QED BY ZenonT(30), <1>1, <1>2, NatInd
<1>4. PICK k \in Nat : \A y \in SetNodes : rank[y] < k
  BY Zenon DEF Ranks
<1>5. QED BY ZenonT(30), <1>0, <1>3, <1>4

\* Resolved::resolve ends in an error, or panics, exactly for the capabilities that, read
\* by reachability, have an entry whose permissions cannot all be known, or give a
\* permission with commands for labels or URLs that do not parse.  The traversal neither
\* overlooks an unknown name, however deeply the sets nest, nor stops at one that no entry
\* leads to; a bad pattern goes unnoticed exactly when only global scopes are given.
THEOREM ErrorsAreReached ==
  ASSUME NEW caps
  PROVE  Resolves(caps) <=>
           \A c \in Range(caps) : c.active =>
             /\ \A e \in Range(c.permissions) : ~Broken(e.id)
             /\ PatternsParse(c) \/ \A g \in GivenBy(c) : IsGlobal(Permission(g.permission))
<1>1. ASSUME NEW id PROVE Unknown \in Range(GetPermissions(id)) <=> Broken(id)
  <2> DEFINE m == Named(id)
             z == NodeOf(AppAclKey, id)
  <2>1. Finds(m, z)
    BY Zenon, NamedFinds
  <2>2. Broken(id) <=> \/ m.kind = "unknown"
                       \/ z \in Nodes /\ \E y \in SetNodes : y \in Reached[z] /\ Dangling(y)
    BY Zenon DEF Broken
  <2>3. GetPermissions(id) = Expand(m, SetPermissions)
    BY Zenon DEF GetPermissions
  <2> HIDE DEF m, z
  <2>4. Range(GetPermissions(id)) = Part(m)
    <3>1. m.kind = "set" => IsSequence(SetPermissions[m.node])
      BY ZenonT(30), <2>1, Traversed DEF Finds
    <3>2. QED BY ZenonT(30), <2>1, <2>3, <3>1, Expanded
  <2>5. CASE m.kind = "set"
    <3>1. z \in SetNodes /\ z \in Nodes /\ Part(m) = Range(SetPermissions[z])
      BY ZenonT(30), <2>1, <2>5, NodeFacts DEF Finds, Part
    <3>2. QED BY ZenonT(30), <2>2, <2>4, <2>5, <3>1, DanglingFound, OnlyDanglingFound
  <2>6. CASE m.kind = "permission"
    <3>1. z \in PermissionNodes /\ z \in Nodes /\ z \notin SetNodes /\ Part(m) = {z}
      BY ZenonT(30), <2>1, <2>6, NodeFacts DEF Finds, Part
    <3>2. {z} \in ClosedSets
      BY ZenonT(30), <3>1, NodeFacts DEF ClosedSets
    <3>3. Reached[z] = {z}
      BY ZenonT(30), <3>1, <3>2 DEF Reached
    <3>4. QED BY ZenonT(30), <2>2, <2>4, <2>6, <3>1, <3>3, NodeFacts
  <2>7. CASE m.kind = "nothing"
    BY ZenonT(30), <2>1, <2>2, <2>4, <2>7 DEF Finds, Part
  <2>8. CASE m.kind = "unknown"
    BY ZenonT(30), <2>1, <2>2, <2>4, <2>8 DEF Finds, Part
  <2>9. QED BY ZenonT(30), <2>1, <2>5, <2>6, <2>7, <2>8 DEF Finds
<1>2. ASSUME NEW c, c.active, \A e \in Range(c.permissions) : ~Broken(e.id)
      PROVE  (\A g \in GivenBy(c) : IsGlobal(Permission(g.permission))) <=>
               \A e \in Range(c.permissions) : \A q \in Range(EntryPermissions(c, e)) : IsGlobal(q)
  <2>1. \A e \in Range(c.permissions) : Range(EntryPermissions(c, e)) =
          {ResolvedPermission(c, e.scope, p) : p \in {p \in Nodes : Gives(e, p)}}
    BY Zenon, <1>1, <1>2, EntryResolved
  <2>2. \A s, p : IsGlobal(ResolvedPermission(c, s, p)) <=> IsGlobal(Permission(p))
    BY Zenon DEF IsGlobal, ResolvedPermission
  <2>3. ASSUME NEW e \in Range(c.permissions)
        PROVE  (\A q \in Range(EntryPermissions(c, e)) : IsGlobal(q)) <=>
                 \A p \in Nodes : Gives(e, p) => IsGlobal(Permission(p))
    <3>1. \A q : q \in Range(EntryPermissions(c, e)) <=>
                   \E p \in Nodes : Gives(e, p) /\ q = ResolvedPermission(c, e.scope, p)
      BY Zenon, <2>1
    <3> HIDE DEF ResolvedPermission, IsGlobal
    <3>2. ASSUME NEW p \in Nodes, Gives(e, p), \A q \in Range(EntryPermissions(c, e)) : IsGlobal(q)
          PROVE  IsGlobal(Permission(p))
      BY Zenon, <2>2, <3>1, <3>2
    <3>3. ASSUME NEW q \in Range(EntryPermissions(c, e)),
                 \A p \in Nodes : Gives(e, p) => IsGlobal(Permission(p))
          PROVE  IsGlobal(q)
      BY Zenon, <2>2, <3>1, <3>3
    <3>4. QED BY Zenon, <3>2, <3>3
  <2>4. ASSUME NEW e \in Range(c.permissions), NEW p \in Nodes, Gives(e, p)
        PROVE  \E g \in GivenBy(c) : g.permission = p
    <3> DEFINE g == [scope |-> e.scope, permission |-> p]
    <3>1. g \in GivenBy(c) /\ g.permission = p
      BY <1>2, <2>4 DEF GivenBy
    <3>2. QED BY Zenon, <3>1
  <2>5. ASSUME NEW g \in GivenBy(c)
        PROVE  \E e \in Range(c.permissions) : Gives(e, g.permission) /\ g.permission \in Nodes
    BY Zenon DEF GivenBy
  <2>6. QED BY Zenon, <2>3, <2>4, <2>5
<1>3. ASSUME NEW c, c.active
      PROVE  (/\ \A e \in Range(c.permissions) : ~Broken(e.id)
              /\ PatternsParse(c) \/ \A g \in GivenBy(c) : IsGlobal(Permission(g.permission))) <=>
             \A e \in Range(c.permissions) :
               /\ Unknown \notin Range(GetPermissions(e.id))
               /\ PatternsParse(c) \/ \A q \in Range(EntryPermissions(c, e)) : IsGlobal(q)
  BY Zenon, <1>1, <1>2, <1>3
<1>4. QED BY Zenon, <1>3 DEF Resolves
=============================================================================
