------------------------ MODULE LifecycleTableProofs ------------------------
(***************************************************************************)
(* The managers' tables agree with the runtime's store, and labels are     *)
(* unique, when builders do not share labels.                              *)
(***************************************************************************)
EXTENDS LifecycleProofs

\* No two builders use the same label: what the unlocked interval between
\* prepare_window and attach_window asks of the application.
OwnLabels ==
  /\ \A t, u \in Threads : MayUse[t] \cap MayUse[u] # {} => t = u
  /\ \A t \in Threads : MayUse[t] \cap MainLabels = {}

\* A living window is attached to both tables or in the hands of its builder.
OwnedInv ==
  \A i \in Ids, l \in Labels : Living(i, l) =>
    \/ \A k \in Kinds : <<k, i>> \in attached
    \/ \E t \in Threads : pc[t] \in After /\ id[t] = i /\ label[t] = l

\* It is found in the tables it is attached to, and is the only one of its label.
ManagedInv ==
  \A i \in Ids, l \in Labels : Living(i, l) =>
    /\ \A k \in Kinds : <<k, i>> \in attached => Table(k)[l] = i
    /\ \A j \in Ids : Living(j, l) => j = i

\* While a builder holds a label, the only living window of that label is its own;
\* which is living, or failed, or was destroyed already.
HeldInv ==
  \A t \in Threads, l \in Labels, i \in Ids : label[t] = l =>
    /\ pc[t] \in {"create"} \cup After /\ Living(i, l) => pc[t] \in After /\ id[t] = i
    /\ pc[t] \in After /\ id[t] = i => Living(i, l) \/ i \in failed \/ i \in closed

\* An entry is there because it was attached, the window before its webview.
AttachedInv ==
  /\ \A k \in Kinds, l \in Labels :
       Table(k)[l] # NoWindow => <<k, Table(k)[l]>> \in attached
  /\ \A i \in Ids : <<"webview", i>> \in attached => <<"window", i>> \in attached

TablesInv ==
  OwnedInv /\ ManagedInv /\ HeldInv /\ AttachedInv /\ EntriesHaveWindows

-----------------------------------------------------------------------------
(* The tables, when builders do not share labels *)

\* The steps of the main thread and of callers that leave the tables and builders
\* alone, and end a window's life only by failing to create it, keep the tables in
\* order.
LEMMA TablesFrame ==
  ASSUME TypeInv, TablesInv, UNCHANGED <<windows, webviews, pc, label, id, attached, late>>,
         closed \subseteq closed', failed \subseteq failed',
         \A i \in Ids, l \in Labels : Living(i, l)' => Living(i, l),
         \A i \in Ids, l \in Labels : Living(i, l) => Living(i, l)' \/ i \in failed'
  PROVE  TablesInv'
<1>a. /\ \A t \in Threads : /\ pc[t] \in {"create"} \cup After => label[t] \in Labels
                            /\ pc[t] \in After => id[t] \in Ids
      /\ \A k \in Kinds : Table(k) \in [Labels -> Ids \cup {NoWindow}] /\ Table(k)' = Table(k)
  BY Zenon, LifecycleAssumption DEF TypeInv, TypeOK, BuildersInv, Table
<1>1. OwnedInv'
  BY DEF TablesInv, OwnedInv
<1>2. ManagedInv'
  BY Zenon, <1>a DEF TablesInv, ManagedInv
<1>3. HeldInv'
  BY Zenon, <1>a DEF TablesInv, HeldInv
<1>4. AttachedInv'
  BY Zenon, <1>a DEF TablesInv, AttachedInv
<1>5. EntriesHaveWindows'
  <2>1. ASSUME NEW k \in Kinds, NEW l \in Labels, NEW i \in Ids, i = Table(k)[l]
        PROVE  Living(i, l) \/ i \in failed \/ <<k, i>> \in late
    BY <1>a, <2>1, LifecycleAssumption DEF TablesInv, EntriesHaveWindows, Living, Ids
  <2>2. ASSUME NEW k \in Kinds, NEW l \in Labels, NEW i \in Ids, i = Table(k)[l]
        PROVE  Living(i, l)' \/ i \in failed' \/ <<k, i>> \in late'
    BY Zenon, <2>1, <2>2
  <2> QED
    BY <1>a, <2>2 DEF EntriesHaveWindows, Living
<1> QED
  BY Zenon, <1>1, <1>2, <1>3, <1>4, <1>5 DEF TablesInv

\* The steps that move a window into, or out of, the tables keep them in order when
\* no two builders hold the same label.
LEMMA TablesStep ==
  OwnLabels /\ TypeInv /\ RuntimeInv /\ PlaceInv /\ TablesInv /\ [Next]_vars => TablesInv'
<1> SUFFICES ASSUME OwnLabels, TypeInv, RuntimeInv, PlaceInv, TablesInv, [Next]_vars
             PROVE  TablesInv'
  BY Zenon
<1> USE LifecycleAssumption
<1>a. /\ TypeOK /\ BuildersInv /\ FreshInv /\ NativeInv
      /\ OwnedInv /\ ManagedInv /\ HeldInv /\ AttachedInv /\ EntriesHaveWindows
  BY Zenon DEF TypeInv, RuntimeInv, TablesInv
<1>b. /\ Ids \subseteq Nat /\ next_window_id \in Nat /\ NoWindow \notin Ids
      /\ queue \in Seq(Message)
  BY <1>a DEF TypeOK, Ids
<1>c. \A t \in Threads : /\ pc[t] \in {"prepare", "create"} \cup After => label[t] \in MayUse[t]
                         /\ pc[t] \in {"prepare", "create"} \cup After => label[t] \in Labels
                         /\ pc[t] \in After => id[t] \in Ids /\ id[t] < next_window_id
  BY Zenon, <1>a DEF BuildersInv, PlaceInv
<1>d. \A k \in Kinds : /\ Table(k) \in [Labels -> Ids \cup {NoWindow}]
                       /\ Table(k)' \in [Labels -> Ids \cup {NoWindow}]
  <2>1. TypeOK'
    BY Zenon, TypeStep DEF TypeInv
  <2> QED
    BY Zenon, <1>a, <2>1 DEF TypeOK, Table
<1>e. ASSUME NEW k \in Kinds, NEW l \in Labels, NEW i \in Ids, i = Table(k)[l]
      PROVE  Living(i, l) \/ i \in failed \/ <<k, i>> \in late
  BY Zenon, <1>a, <1>b, <1>e DEF EntriesHaveWindows, Living
<1>f. ASSUME \A k \in Kinds, l \in Labels, i \in Ids : i = Table(k)'[l] =>
               Living(i, l)' \/ i \in failed' \/ <<k, i>> \in late'
      PROVE  EntriesHaveWindows'
  BY Zenon, <1>d, <1>f DEF EntriesHaveWindows, Living
<1>g. \A t, u \in Threads : label[t] \in MayUse[t] /\ label[u] \in MayUse[u] /\ label[t] = label[u]
                              => t = u
  BY Zenon DEF OwnLabels
<1>h. \A i \in Ids, l \in Labels : Living(i, l) => i < next_window_id
  BY <1>a DEF FreshInv, Living, Queued, Creates, CreateMessage
<1>1. ASSUME NEW t \in Threads, PrepareWebview(t) \/ PrepareWindow(t) \/ FirstWebview(t)
      PROVE  TablesInv'
  <2>1. /\ \A u \in Threads : u # t => pc'[u] = pc[u] /\ id'[u] = id[u] /\ label'[u] = label[u]
        /\ pc'[t] \notin After
        /\ UNCHANGED <<windows, webviews, store, queue, attached, closed, late, failed>>
    BY <1>a, <1>1 DEF TypeOK, PrepareWebview, PrepareWindow, FirstWebview, Goto, Leave, After,
       tables, runtime, history
  <2>2. \A i, l : Living(i, l)' <=> Living(i, l)
    BY Zenon, <2>1 DEF Living, Queued, CreateMessage
  <2>3. \A k \in Kinds : Table(k)' = Table(k)
    BY Zenon, <2>1 DEF Table
  <2>4. OwnedInv'
    <3>1. ASSUME NEW i \in Ids, NEW l \in Labels, Living(i, l), NEW u \in Threads,
                 pc[u] \in After, id[u] = i, label[u] = l
          PROVE  \/ pc'[u] \in After /\ id'[u] = i /\ label'[u] = l
                 \/ \A k \in Kinds : <<k, i>> \in attached
      <4>1. u = t => pc[t] = "first"
        BY Zenon, <1>1, <3>1 DEF PrepareWebview, PrepareWindow, FirstWebview, After
      <4> QED
        BY Zenon, <2>1, <3>1, <4>1 DEF PlaceInv, After, Kinds
    <3> QED
      BY <1>a, <2>1, <2>2, <3>1 DEF OwnedInv
  <2>5. ManagedInv'
    BY <1>a, <2>1, <2>2, <2>3 DEF ManagedInv
  <2>6. HeldInv'
    <3>1. ASSUME pc'[t] = "create", NEW i \in Ids, NEW l \in Labels, l = label'[t], Living(i, l)
          PROVE  FALSE
      <4>1. /\ pc[t] = "prepare" /\ label'[t] = label[t] /\ windows[label[t]] = NoWindow
        BY Zenon, <1>a, <1>1, <3>1 DEF TypeOK, PrepareWebview, PrepareWindow, FirstWebview, Goto, Leave,
           Vacant
      <4>2. label[t] \in Labels /\ label[t] \in MayUse[t]
        BY Zenon, <1>c, <4>1
      <4>3. <<"window", i>> \notin attached
        BY Zenon, <1>a, <1>b, <3>1, <4>1 DEF ManagedInv, Table, Kinds
      <4>4. PICK u \in Threads : pc[u] \in After /\ label[u] = label[t]
        <5>1. "window" \in Kinds
          BY Zenon DEF Kinds
        <5>2. \E u \in Threads : pc[u] \in After /\ id[u] = i /\ label[u] = l
          BY <1>a, <3>1, <4>3, <5>1 DEF OwnedInv
        <5> QED
          BY Zenon, <3>1, <4>1, <5>2
      <4>5. u = t
        BY Zenon, <1>c, <1>g, <4>2, <4>4
      <4> QED
        BY Zenon, <4>1, <4>4, <4>5 DEF After
    <3>2. ASSUME NEW u \in Threads, pc'[u] \in {"create"} \cup After, NEW i \in Ids,
                 NEW l \in Labels, l = label'[u], Living(i, l)
          PROVE  pc'[u] \in After /\ i = id'[u]
      <4>1. u # t
        BY Zenon, <2>1, <3>1, <3>2
      <4> QED
        BY <1>a, <2>1, <3>2, <4>1 DEF HeldInv
    <3>3. ASSUME NEW u \in Threads, pc'[u] \in After, NEW i \in Ids, i = id'[u],
                 NEW l \in Labels, l = label'[u]
          PROVE  Living(i, l) \/ i \in failed' \/ i \in closed'
      BY Zenon, <1>a, <2>1, <3>3 DEF HeldInv
    <3> QED
      BY Zenon, <2>2, <3>2, <3>3 DEF HeldInv
  <2>7. AttachedInv'
    BY Zenon, <1>a, <2>1, <2>3 DEF AttachedInv
  <2>8. EntriesHaveWindows'
    BY Zenon, <1>e, <1>f, <2>1, <2>2, <2>3
  <2> QED
    BY Zenon, <2>4, <2>5, <2>6, <2>7, <2>8 DEF TablesInv
<1>2. ASSUME NEW t \in Threads, CreateWindow(t) PROVE TablesInv'
  <2>0. PICK i0 \in Ids, l0 \in Labels : i0 = next_window_id /\ l0 = label[t] /\ l0 \in MayUse[t]
    BY <1>a, <1>c, <1>2 DEF TypeOK, CreateWindow, TakeId, Ids
  <2>1. /\ \A u \in Threads : u # t => pc'[u] = pc[u] /\ id'[u] = id[u]
        /\ pc[t] = "create" /\ pc'[t] = "listen_window" /\ id'[t] = i0
        /\ UNCHANGED <<windows, webviews, store, label, attached, closed, late, failed>>
    BY Zenon, <1>a, <1>2, <2>0 DEF TypeOK, CreateWindow, FreshId, Goto, tables, history
  <2>2. /\ CreateMessage(i0, l0) \in Message
        /\ queue' = Append(queue, CreateMessage(i0, l0))
    BY Zenon, <1>2, <2>0, Messages DEF CreateWindow, Send, FreshId
  <2>3. \A i \in Ids, l \in Labels : Living(i, l)' <=> Living(i, l) \/ (i = i0 /\ l = l0)
    <3>1. ASSUME NEW i \in Ids, NEW l \in Labels
          PROVE  Queued(CreateMessage(i, l))' <=>
                   Queued(CreateMessage(i, l)) \/ (i = i0 /\ l = l0)
      <4>1. CreateMessage(i, l) = CreateMessage(i0, l0) <=> (i = i0 /\ l = l0)
        BY Zenon DEF CreateMessage
      <4>2. \A p \in DOMAIN queue : p \in DOMAIN queue' /\ queue'[p] = queue[p]
        BY <1>b, <2>2, Appended
      <4>3. \A p \in DOMAIN queue' : p \in DOMAIN queue \/ queue'[p] = CreateMessage(i0, l0)
        BY <1>b, <2>2, Appended
      <4>4. \E p \in DOMAIN queue' : queue'[p] = CreateMessage(i0, l0)
        BY <1>b, <2>2, Appended
      <4> QED
        BY Zenon, <4>1, <4>2, <4>3, <4>4 DEF Queued, CreateMessage
    <3>2. i0 \notin closed
      BY <1>a, <1>b, <2>0 DEF FreshInv
    <3> QED
      BY Zenon, <2>1, <3>1, <3>2 DEF Living
  <2>4. \A k \in Kinds : Table(k)' = Table(k) /\ <<k, i0>> \notin attached
    BY <1>b, <2>0, <2>1 DEF Table, PlaceInv
  <2>5. \A i \in Ids : ~Living(i, l0)
    BY Zenon, <1>a, <2>0, <2>1 DEF HeldInv, After
  <2>6. OwnedInv'
    <3>1. ASSUME NEW i \in Ids, NEW l \in Labels, Living(i, l), NEW u \in Threads,
                 pc[u] \in After, id[u] = i, label[u] = l
          PROVE  pc'[u] \in After /\ id'[u] = i /\ label'[u] = l
      BY Zenon, <2>1, <3>1 DEF After
    <3>2. pc'[t] \in After /\ id'[t] = i0 /\ label'[t] = l0
      BY Zenon, <2>0, <2>1 DEF After
    <3> QED
      BY <1>a, <2>1, <2>3, <3>1, <3>2 DEF OwnedInv
  <2>7. ManagedInv'
    <3>1. ASSUME NEW i \in Ids, NEW l \in Labels, Living(i, l)', NEW k \in Kinds,
                 <<k, i>> \in attached'
          PROVE  Table(k)'[l] = i
      <4>1. <<k, i>> \in attached /\ i # i0
        BY Zenon, <2>1, <2>4, <3>1
      <4>2. Living(i, l)
        BY Zenon, <2>3, <3>1, <4>1
      <4> QED
        BY Zenon, <1>a, <2>4, <4>1, <4>2 DEF ManagedInv
    <3>2. ASSUME NEW i \in Ids, NEW l \in Labels, Living(i, l)', NEW j \in Ids, Living(j, l)'
          PROVE  j = i
      BY <1>a, <2>3, <2>5, <3>2 DEF ManagedInv
    <3> QED
      BY Zenon, <3>1, <3>2 DEF ManagedInv
  <2>8. HeldInv'
    <3>1. ASSUME NEW u \in Threads, u # t, pc[u] \in {"create"} \cup After
          PROVE  label[u] # l0 /\ label[u] \in Labels
      BY Zenon, <1>c, <1>g, <2>0, <3>1
    <3>2. ASSUME NEW u \in Threads, NEW l \in Labels, l = label[u],
                 pc'[u] \in {"create"} \cup After, NEW i \in Ids, Living(i, l)'
          PROVE  pc'[u] \in After /\ i = id'[u]
      <4>1. CASE u = t
        BY Zenon, <2>0, <2>1, <2>3, <2>5, <3>2, <4>1 DEF After
      <4>2. CASE u # t
        BY <1>a, <2>1, <2>3, <3>1, <3>2, <4>2 DEF HeldInv
      <4> QED
        BY Zenon, <4>1, <4>2
    <3>3. ASSUME NEW u \in Threads, pc'[u] \in After, NEW l \in Labels, l = label[u],
                 NEW i \in Ids, i = id'[u]
          PROVE  Living(i, l)' \/ i \in failed' \/ i \in closed'
      <4>1. CASE u = t
        BY Zenon, <2>0, <2>1, <2>3, <3>3, <4>1
      <4>2. CASE u # t
        BY Zenon, <1>a, <2>1, <2>3, <3>3, <4>2 DEF HeldInv
      <4> QED
        BY Zenon, <4>1, <4>2
    <3> QED
      BY Zenon, <2>1, <3>2, <3>3 DEF HeldInv
  <2>9. AttachedInv'
    BY Zenon, <1>a, <2>1, <2>4 DEF AttachedInv
  <2>10. EntriesHaveWindows'
    BY Zenon, <1>e, <1>f, <2>1, <2>3, <2>4
  <2> QED
    BY Zenon, <2>6, <2>7, <2>8, <2>9, <2>10 DEF TablesInv
<1>3. ASSUME NEW t \in Threads, AddListener(t) PROVE TablesInv'
  <2>1. PICK k \in Kinds : queue' = Append(queue, ListenMessage(id[t], k))
    BY Zenon, <1>3 DEF AddListener, Send, Kinds
  <2>2. /\ \A u \in Threads : /\ pc'[u] \in After <=> pc[u] \in After
                              /\ pc'[u] = "create" <=> pc[u] = "create"
        /\ pc[t] \in After
        /\ UNCHANGED <<windows, webviews, store, id, label, attached, closed, late, failed>>
    BY Zenon, <1>a, <1>3 DEF TypeOK, AddListener, Goto, After, tables, history
  <2>3. ListenMessage(id[t], k) \in Message /\ ListenMessage(id[t], k).kind # "create"
    BY Zenon, <1>c, <2>2, Messages DEF ListenMessage
  <2>4. \A i, l : Living(i, l)' <=> Living(i, l)
    BY Zenon, <1>a, <2>1, <2>2, <2>3, LivingSend
  <2>5. \A j \in Kinds : Table(j)' = Table(j)
    BY Zenon, <2>2 DEF Table
  <2>6. OwnedInv'
    <3>1. ASSUME NEW i \in Ids, NEW l \in Labels, Living(i, l),
                 \E u \in Threads : pc[u] \in After /\ id[u] = i /\ label[u] = l
          PROVE  \E u \in Threads : pc'[u] \in After /\ id'[u] = i /\ label'[u] = l
      BY Zenon, <2>2, <3>1
    <3> QED
      BY <1>a, <2>2, <2>4, <3>1 DEF OwnedInv
  <2>9. ManagedInv'
    BY <1>a, <2>2, <2>4, <2>5 DEF ManagedInv
  <2>10. AttachedInv'
    BY Zenon, <1>a, <2>2, <2>5 DEF AttachedInv
  <2>7. HeldInv'
    <3>1. ASSUME NEW u \in Threads, NEW l \in Labels, NEW i \in Ids, label[u] = l
          PROVE  /\ pc'[u] \in {"create"} \cup After /\ Living(i, l)' => pc'[u] \in After /\ id[u] = i
                 /\ pc'[u] \in After /\ id[u] = i => Living(i, l)' \/ i \in failed \/ i \in closed
      <4>1. /\ pc'[u] \in {"create"} \cup After <=> pc[u] \in {"create"} \cup After
            /\ pc'[u] \in After <=> pc[u] \in After
        BY Zenon, <2>2
      <4> QED
        BY Zenon, <1>a, <2>4, <3>1, <4>1 DEF HeldInv
    <3> QED
      BY Zenon, <2>2, <3>1 DEF HeldInv
  <2>8. EntriesHaveWindows'
    BY Zenon, <1>e, <1>f, <2>2, <2>4, <2>5
  <2> QED
    BY Zenon, <2>6, <2>7, <2>8, <2>9, <2>10 DEF TablesInv
<1>4. ASSUME NEW t \in Threads, NEW k0 \in Kinds,
             IF k0 = "window" THEN InsertWindow(t) ELSE InsertWebview(t)
      PROVE  TablesInv'
  <2>0. PICK i0 \in Ids, l0 \in Labels : /\ i0 = id[t] /\ l0 = label[t] /\ l0 \in MayUse[t]
                                         /\ pc[t] \in After
    BY Zenon, <1>c, <1>4 DEF InsertWindow, InsertWebview, After
  <2>1. /\ \A u \in Threads : u # t => pc'[u] = pc[u]
        /\ \/ k0 = "window" /\ pc[t] = "insert_window" /\ pc'[t] = "listen_webview"
           \/ k0 = "webview" /\ pc[t] = "insert_webview" /\ pc'[t] = "first"
        /\ attached' = attached \cup {<<k0, i0>>}
        /\ late' = IF i0 \in closed THEN late \cup {<<k0, i0>>} ELSE late
        /\ UNCHANGED <<id, label, store, queue, closed, failed>>
    BY Zenon, <1>a, <1>4, <2>0 DEF TypeOK, InsertWindow, InsertWebview, Attach, Goto, runtime, Kinds
  <2>2. \A k \in Kinds : Table(k)' = IF k = k0 THEN [Table(k) EXCEPT ![l0] = i0] ELSE Table(k)
    BY Zenon, <1>4, <2>0 DEF InsertWindow, InsertWebview, Table, Kinds
  <2>3. \A i, l : Living(i, l)' <=> Living(i, l)
    BY Zenon, <2>1 DEF Living, Queued, CreateMessage
  <2>4. \A i \in Ids, k \in Kinds :
          <<k, i>> \in attached' <=> <<k, i>> \in attached \/ (k = k0 /\ i = i0)
    BY Zenon, <2>1
  <2>5. /\ <<k0, i0>> \notin attached
        /\ k0 = "webview" => <<"window", i0>> \in attached
    BY Zenon, <2>0, <2>1 DEF PlaceInv
  <2>6. /\ \A i \in Ids : Living(i, l0) => i = i0
        /\ Living(i0, l0) \/ i0 \in failed \/ i0 \in closed
    BY Zenon, <1>a, <2>0 DEF HeldInv
  <2>7. ASSUME NEW l \in Labels, Living(i0, l) PROVE l = l0
    <3>1. PICK u \in Threads : pc[u] \in After /\ id[u] = i0 /\ label[u] = l
      BY Zenon, <1>a, <2>5, <2>7 DEF OwnedInv
    <3>2. u = t
      BY Zenon, <2>0, <3>1 DEF PlaceInv
    <3> QED
      BY Zenon, <2>0, <3>1, <3>2
  <2>8. \A u \in Threads : /\ pc'[u] \in After <=> pc[u] \in After
                           /\ pc'[u] = "create" <=> pc[u] = "create"
    BY Zenon, <2>1 DEF After
  <2>9. OwnedInv'
    <3>1. ASSUME NEW i \in Ids, NEW l \in Labels, Living(i, l),
                 \E u \in Threads : pc[u] \in After /\ id[u] = i /\ label[u] = l
          PROVE  \E u \in Threads : pc'[u] \in After /\ id'[u] = i /\ label'[u] = l
      BY Zenon, <2>1, <2>8, <3>1
    <3> QED
      BY <1>a, <2>3, <2>4, <3>1 DEF OwnedInv
  <2>10. ManagedInv'
    <3>1. ASSUME NEW i \in Ids, NEW l \in Labels, Living(i, l), NEW k \in Kinds,
                 <<k, i>> \in attached'
          PROVE  Table(k)'[l] = i
      <4>1. CASE k = k0 /\ l = l0
        BY Zenon, <1>d, <2>2, <2>6, <3>1, <4>1
      <4>2. CASE k # k0 \/ l # l0
        <5>1. <<k, i>> \in attached
          BY Zenon, <2>4, <2>7, <3>1, <4>2
        <5>2. Table(k)'[l] = Table(k)[l]
          BY Zenon, <1>d, <2>2, <4>2
        <5> QED
          BY Zenon, <1>a, <3>1, <5>1, <5>2 DEF ManagedInv
      <4> QED
        BY Zenon, <4>1, <4>2
    <3> QED
      BY Zenon, <1>a, <2>3, <3>1 DEF ManagedInv
  <2>11. HeldInv'
    <3>1. ASSUME NEW u \in Threads, NEW l \in Labels, NEW i \in Ids, label[u] = l
          PROVE  /\ pc'[u] \in {"create"} \cup After /\ Living(i, l)' => pc'[u] \in After /\ id[u] = i
                 /\ pc'[u] \in After /\ id[u] = i => Living(i, l)' \/ i \in failed \/ i \in closed
      <4>1. /\ pc'[u] \in {"create"} \cup After <=> pc[u] \in {"create"} \cup After
            /\ pc'[u] \in After <=> pc[u] \in After
        BY Zenon, <2>8
      <4> QED
        BY Zenon, <1>a, <2>3, <3>1, <4>1 DEF HeldInv
    <3> QED
      BY <2>1, <3>1 DEF HeldInv
  <2>12. AttachedInv'
    <3>1. ASSUME NEW k \in Kinds, NEW l \in Labels, Table(k)'[l] # NoWindow
          PROVE  <<k, Table(k)'[l]>> \in attached'
      <4>1. CASE k = k0 /\ l = l0
        BY ZenonT(30), <1>d, <2>1, <2>2, <4>1
      <4>2. CASE k # k0 \/ l # l0
        <5>1. Table(k)'[l] = Table(k)[l]
          BY Zenon, <1>d, <2>2, <4>2
        <5> QED
          BY Zenon, <1>a, <2>1, <3>1, <5>1 DEF AttachedInv
      <4> QED
        BY Zenon, <4>1, <4>2
    <3>2. \A i \in Ids : <<"webview", i>> \in attached' => <<"window", i>> \in attached'
      BY Zenon, <1>a, <2>4, <2>5 DEF AttachedInv, Kinds
    <3> QED
      BY Zenon, <3>1, <3>2 DEF AttachedInv
  <2>13. EntriesHaveWindows'
    <3>1. ASSUME NEW k \in Kinds, NEW l \in Labels, NEW i \in Ids, i = Table(k)'[l]
          PROVE  Living(i, l)' \/ i \in failed' \/ <<k, i>> \in late'
      <4>1. CASE k = k0 /\ l = l0
        <5>1. i = i0
          BY Zenon, <1>d, <2>2, <3>1, <4>1
        <5> QED
          BY Zenon, <2>1, <2>3, <2>6, <4>1, <5>1
      <4>2. CASE k # k0 \/ l # l0
        <5>1. i = Table(k)[l]
          BY Zenon, <1>d, <2>2, <3>1, <4>2
        <5>2. late \subseteq late'
          BY Zenon, <2>1
        <5> QED
          BY Zenon, <1>e, <2>1, <2>3, <5>1, <5>2
      <4> QED
        BY Zenon, <4>1, <4>2
    <3> QED
      BY Zenon, <1>f, <3>1
  <2> QED
    BY Zenon, <2>9, <2>10, <2>11, <2>12, <2>13 DEF TablesInv
<1>5. ASSUME NEW t \in Threads, InsertWindow(t) \/ InsertWebview(t) PROVE TablesInv'
  BY Zenon, <1>4, <1>5, "window" # "webview" DEF Kinds
<1>6. ASSUME NEW l0 \in MainLabels, BuildOnMain(l0) PROVE TablesInv'
  <2>0. PICK i0 \in Ids : i0 = next_window_id
    BY <1>a, <1>6 DEF TypeOK, BuildOnMain, TakeId, Ids
  <2> DEFINE m(k) == ListenMessage(i0, k)
             w0 == [id |-> i0, label |-> l0, inner |-> TRUE, listeners |-> {}]
  <2>1. /\ l0 \in Labels /\ windows[l0] = NoWindow /\ webviews[l0] = NoWindow
        /\ UNCHANGED <<pc, label, id, closed, late>>
        /\ attached' = attached \cup {<<k, i0>> : k \in Kinds}
        /\ \/ store' = store \cup {w0} /\ failed' = failed
           \/ store' = store /\ failed' = failed \cup {i0}
    BY Zenon, <1>6, <2>0 DEF BuildOnMain, FreshId, Vacant, local
  <2>2. \A k \in Kinds : Table(k)' = [Table(k) EXCEPT ![l0] = i0] /\ Table(k)[l0] = NoWindow
    BY Zenon, <1>6, <2>0, <2>1 DEF BuildOnMain, FreshId, Table
  <2>3. \A i, l : Queued(CreateMessage(i, l))' <=> Queued(CreateMessage(i, l))
    <3>1. m("window") \in Message /\ m("webview") \in Message
      BY Zenon, Messages DEF Kinds
    <3>2. queue' = Append(Append(queue, m("window")), m("webview"))
      BY <1>b, <1>6, <2>0, <3>1, AppendedTwo DEF BuildOnMain, FreshId
    <3>3. \A i, l, k : m(k) # CreateMessage(i, l)
      BY Zenon DEF ListenMessage, CreateMessage
    <3> HIDE DEF m
    <3>4. \A p \in DOMAIN queue : p \in DOMAIN queue' /\ queue'[p] = queue[p]
      BY <1>b, <3>1, <3>2, Appended
    <3>5. \A p \in DOMAIN queue' :
            p \in DOMAIN queue \/ queue'[p] = m("window") \/ queue'[p] = m("webview")
      BY <1>b, <3>1, <3>2, Appended
    <3> QED
      BY Zenon, <3>3, <3>4, <3>5 DEF Queued, CreateMessage
  <2>4. i0 \notin closed /\ w0.id = i0 /\ w0.label = l0
    BY <1>a, <1>b, <2>0 DEF FreshInv
  <2> HIDE DEF w0, m
  <2>5. \A i \in Ids, l \in Labels :
          /\ Living(i, l)' => Living(i, l) \/ (i = i0 /\ l = l0)
          /\ Living(i, l) => Living(i, l)'
    BY Zenon, <2>1, <2>3, <2>4 DEF Living
  <2>6. \A t \in Threads : pc[t] \in {"create"} \cup After => label[t] # l0 /\ label[t] \in Labels
    BY <1>c DEF OwnLabels
  <2>7. ASSUME NEW i \in Ids, Living(i, l0) PROVE FALSE
    <3>1. \A k \in Kinds : <<k, i>> \notin attached
      BY <1>a, <1>b, <2>1, <2>2, <2>7 DEF ManagedInv
    <3>2. \/ \A k \in Kinds : <<k, i>> \in attached
          \/ \E t \in Threads : pc[t] \in After /\ id[t] = i /\ label[t] = l0
      BY ZenonT(30), <1>a, <2>1, <2>7 DEF OwnedInv
    <3>3. PICK t \in Threads : pc[t] \in After /\ label[t] = l0
      BY Zenon, <3>1, <3>2 DEF Kinds
    <3> QED
      BY Zenon, <2>6, <3>3
  <2>8. \A i \in Ids, l \in Labels : Living(i, l) => i # i0
    BY <1>b, <1>h, <2>0
  <2>9. \A i \in Ids, k \in Kinds : <<k, i>> \in attached' <=> <<k, i>> \in attached \/ i = i0
    BY Zenon, <2>1
  <2>10. OwnedInv'
    <3> SUFFICES ASSUME NEW i \in Ids, NEW l \in Labels, Living(i, l)', i # i0
                 PROVE  \/ \A k \in Kinds : <<k, i>> \in attached'
                        \/ \E t \in Threads : pc'[t] \in After /\ id'[t] = i /\ label'[t] = l
      BY <2>9 DEF OwnedInv
    <3>1. Living(i, l)
      BY Zenon, <2>5
    <3>2. \/ \A k \in Kinds : <<k, i>> \in attached
          \/ \E t \in Threads : pc[t] \in After /\ id[t] = i /\ label[t] = l
      BY Zenon, <1>a, <3>1 DEF OwnedInv
    <3> QED
      BY Zenon, <2>1, <2>9, <3>2
  <2>11. ManagedInv'
    <3>1. ASSUME NEW i \in Ids, NEW l \in Labels, Living(i, l)', NEW k \in Kinds,
                 <<k, i>> \in attached'
          PROVE  Table(k)'[l] = i
      <4>1. CASE l = l0
        BY Zenon, <1>d, <2>2, <2>5, <2>7, <3>1, <4>1
      <4>2. CASE l # l0
        BY <1>a, <1>d, <2>2, <2>5, <2>8, <2>9, <3>1, <4>2 DEF ManagedInv
      <4> QED
        BY Zenon, <4>1, <4>2
    <3>2. ASSUME NEW i \in Ids, NEW l \in Labels, Living(i, l)', NEW j \in Ids, Living(j, l)'
          PROVE  j = i
      BY <1>a, <2>5, <2>7, <3>2 DEF ManagedInv
    <3> QED
      BY Zenon, <3>1, <3>2 DEF ManagedInv
  <2>12. HeldInv'
    <3>1. ASSUME NEW t \in Threads, NEW l \in Labels, l = label[t], l # l0, NEW i \in Ids
          PROVE  Living(i, l)' <=> Living(i, l)
      BY Zenon, <2>5, <3>1
    <3>2. failed \subseteq failed'
      BY Zenon, <2>1
    <3> QED
      BY ZenonT(30), <1>a, <1>c, <2>1, <2>6, <3>1, <3>2 DEF HeldInv
  <2>13. AttachedInv'
    <3>1. ASSUME NEW k \in Kinds, NEW l \in Labels, Table(k)'[l] # NoWindow
          PROVE  <<k, Table(k)'[l]>> \in attached'
      <4>1. CASE l = l0
        BY Zenon, <1>d, <2>1, <2>2, <4>1
      <4>2. CASE l # l0
        BY Zenon, <1>a, <1>d, <2>1, <2>2, <3>1, <4>2 DEF AttachedInv
      <4> QED
        BY Zenon, <4>1, <4>2
    <3> QED
      BY Zenon, <1>a, <2>9, <3>1 DEF AttachedInv, Kinds
  <2>14. EntriesHaveWindows'
    <3>1. ASSUME NEW k \in Kinds, NEW l \in Labels, NEW i \in Ids, i = Table(k)'[l]
          PROVE  Living(i, l)' \/ i \in failed' \/ <<k, i>> \in late'
      <4>1. CASE l = l0
        <5>1. i = i0
          BY Zenon, <1>d, <2>2, <3>1, <4>1
        <5>2. Living(i0, l0)' \/ i0 \in failed'
          BY Zenon, <2>1, <2>4 DEF Living
        <5> QED
          BY Zenon, <4>1, <5>1, <5>2
      <4>2. CASE l # l0
        <5>1. i = Table(k)[l]
          BY Zenon, <1>d, <2>2, <3>1, <4>2
        <5> QED
          BY Zenon, <1>e, <2>1, <2>5, <5>1
      <4> QED
        BY Zenon, <4>1, <4>2
    <3> QED
      BY Zenon, <1>f, <3>1
  <2> QED
    BY Zenon, <2>10, <2>11, <2>12, <2>13, <2>14 DEF TablesInv
<1>7. ASSUME NEW m \in Message, queue' = Append(queue, m), m.kind # "create",
             UNCHANGED <<windows, webviews, store, pc, label, id, attached, closed, late, failed>>
      PROVE  TablesInv'
  <2>1. \A i, l : Living(i, l)' <=> Living(i, l)
    BY Zenon, <1>a, <1>7, LivingSend
  <2> QED
    BY Zenon, <1>7, <2>1, TablesFrame
<1>8. ASSUME (\E m \in Ask : AskWindow(m)) \/ Exit PROVE TablesInv'
  <2>1. PICK m \in Message : m.kind # "create" /\ queue' = Append(queue, m)
    BY Zenon, <1>8, Messages DEF Ask, AskWindow, Exit, Send
  <2>2. UNCHANGED <<windows, webviews, store, pc, label, id, attached, closed, late, failed>>
    BY Zenon, <1>8 DEF AskWindow, Exit, tables, local
  <2> QED
    BY Zenon, <1>7, <2>1, <2>2
<1>9. ASSUME HandleCreate PROVE TablesInv'
  <2> DEFINE m == Head(queue)
             n == [id |-> m.id, label |-> m.label, inner |-> TRUE, listeners |-> {}]
  <2>1. /\ queue # <<>> /\ queue' = Tail(queue) /\ m.kind = "create"
        /\ \/ store' = store \cup {n} /\ failed' = failed
           \/ store' = store /\ failed' = failed \cup {m.id}
        /\ UNCHANGED <<windows, webviews, pc, label, id, attached, closed, late>>
    BY Zenon, <1>9 DEF HandleCreate, Receive, tables, local
  <2>2. 1 \in DOMAIN queue /\ queue[1] = m /\ m \in Message
    BY <1>b, <2>1, Taken
  <2>3. /\ m.id \in Ids /\ m = CreateMessage(m.id, m.label)
        /\ Creates(1, m.id) /\ Queued(CreateMessage(m.id, m.label))
    BY Zenon, <2>1, <2>2, MessageKinds DEF Creates, Queued
  <2>4. m.id \notin closed /\ n.id = m.id /\ n.label = m.label
    BY Zenon, <1>a, <2>2, <2>3 DEF FreshInv
  <2> HIDE DEF n
  <2>5. ASSUME NEW i \in Ids, NEW l \in Labels, Living(i, l)' PROVE Living(i, l)
    BY Zenon, <1>a, <2>1, <2>3, <2>4, <2>5, QueuedReceive DEF Living
  <2>6. ASSUME NEW i \in Ids, NEW l \in Labels, Living(i, l)
        PROVE  Living(i, l)' \/ i \in failed'
    <3>1. CASE m = CreateMessage(i, l)
      <4>1. m.id = i /\ m.label = l
        BY <3>1 DEF CreateMessage
      <4> QED
        BY Zenon, <2>1, <2>4, <4>1 DEF Living
    <3>2. CASE m # CreateMessage(i, l)
      BY Zenon, <1>a, <2>1, <2>6, <3>2, QueuedReceive DEF Living
    <3> QED
      BY Zenon, <3>1, <3>2
  <2>7. failed \subseteq failed'
    BY Zenon, <2>1
  <2> QED
    BY Zenon, <2>1, <2>5, <2>6, <2>7, TablesFrame
<1>10. ASSUME \/ HandleListen \/ HandleClose \/ HandleDestroy \/ HandleRequestExit
              \/ MainStep
              \/ \E w \in store : UserCloses(w)
       PROVE  TablesInv'
  <2>1. UNCHANGED <<windows, webviews, pc, label, id, attached, closed, late, failed>>
    BY Zenon, <1>10 DEF HandleListen, HandleClose, HandleDestroy, HandleRequestExit, MainStep,
       RemoveWindow, ExitRequested, LoopDestroyed, UserCloses, tables, local, history
  <2>2. \A i \in Ids, l \in Labels : Living(i, l)' <=> Living(i, l)
    BY Zenon, <1>a, <1>10, <2>1, LivingKept
  <2> QED
    BY Zenon, <2>1, <2>2, TablesFrame
<1>11. ASSUME NEW w \in store, Destroyed(w) PROVE TablesInv'
  <2>0. PICK i0 \in Ids, l0 \in Labels : i0 = w.id /\ l0 = w.label
    BY Zenon, <1>a DEF TypeOK, Wrapper
  <2>1. /\ i0 \in native /\ closed' = closed \cup {i0}
        /\ windows' = [windows EXCEPT ![l0] = NoWindow]
        /\ webviews' = IF windows[l0] = NoWindow THEN webviews
                                                 ELSE [webviews EXCEPT ![l0] = NoWindow]
        /\ UNCHANGED <<store, queue, pc, label, id, attached, late, failed>>
    BY Zenon, <1>11, <2>0 DEF Destroyed, ForgetWindow, local
  <2>2. Living(i0, l0)
    BY Zenon, <1>a, <2>0, <2>1 DEF NativeInv, Living
  <2>3. \A p \in DOMAIN queue : ~Creates(p, i0)
    BY Zenon, <1>a, <2>0 DEF FreshInv, Stored
  <2>4. \A i \in Ids, l \in Labels : Living(i, l)' <=> Living(i, l) /\ i # i0
    <3>1. \A l \in Labels : ~Queued(CreateMessage(i0, l))
      BY <2>3 DEF Queued, Creates, CreateMessage
    <3>2. \A i \in Ids, l \in Labels :
            Queued(CreateMessage(i, l))' <=> Queued(CreateMessage(i, l))
      BY Zenon, <2>1 DEF Queued, CreateMessage
    <3> QED
      BY Zenon, <2>1, <3>1, <3>2 DEF Living
  <2>5. \A l \in Labels : Living(i0, l) => l = l0
    BY Zenon, <1>a, <2>2, OneLabel
  <2>6. \A i \in Ids : Living(i, l0) => i = i0
    BY Zenon, <1>a, <2>2 DEF ManagedInv
  <2>7. \A k \in Kinds, l \in Labels : l # l0 => Table(k)'[l] = Table(k)[l]
    BY Zenon, <1>a, <2>1 DEF TypeOK, Table
  <2>8. \A k \in Kinds, l \in Labels : Table(k)'[l] # NoWindow => Table(k)'[l] = Table(k)[l]
    BY Zenon, <1>a, <2>1 DEF TypeOK, Table
  <2>9. OwnedInv'
    <3> SUFFICES ASSUME NEW i \in Ids, NEW l \in Labels, Living(i, l)'
                 PROVE  \/ \A k \in Kinds : <<k, i>> \in attached'
                        \/ \E t \in Threads : pc'[t] \in After /\ id'[t] = i /\ label'[t] = l
      BY Zenon DEF OwnedInv
    <3>1. Living(i, l)
      BY Zenon, <2>4
    <3>2. \/ \A k \in Kinds : <<k, i>> \in attached
          \/ \E t \in Threads : pc[t] \in After /\ id[t] = i /\ label[t] = l
      BY Zenon, <1>a, <3>1 DEF OwnedInv
    <3> QED
      BY Zenon, <2>1, <3>2
  <2>10. ManagedInv'
    <3>1. ASSUME NEW i \in Ids, NEW l \in Labels, Living(i, l)', NEW k \in Kinds,
                 <<k, i>> \in attached'
          PROVE  Table(k)'[l] = i
      <4>1. Living(i, l) /\ l # l0 /\ <<k, i>> \in attached
        BY Zenon, <2>1, <2>4, <2>6, <3>1
      <4> QED
        BY Zenon, <1>a, <2>7, <4>1 DEF ManagedInv
    <3> QED
      BY Zenon, <1>a, <2>4, <3>1 DEF ManagedInv
  <2>11. HeldInv'
    <3>1. ASSUME NEW t \in Threads, NEW l \in Labels, NEW i \in Ids, label[t] = l
          PROVE  /\ pc[t] \in {"create"} \cup After /\ Living(i, l)' => pc[t] \in After /\ id[t] = i
                 /\ pc[t] \in After /\ id[t] = i => Living(i, l)' \/ i \in failed \/ i \in closed'
      BY Zenon, <1>a, <2>1, <2>4, <3>1 DEF HeldInv
    <3> QED
      BY Zenon, <2>1, <3>1 DEF HeldInv
  <2>12. AttachedInv'
    BY Zenon, <1>a, <2>1, <2>8 DEF AttachedInv
  <2>13. EntriesHaveWindows'
    <3>1. ASSUME NEW k \in Kinds, NEW l \in Labels, NEW i \in Ids, i = Table(k)'[l]
          PROVE  Living(i, l)' \/ i \in failed' \/ <<k, i>> \in late'
      <4>1. i = Table(k)[l] /\ <<k, i>> \in attached
        BY Zenon, <1>a, <1>b, <2>8, <3>1 DEF AttachedInv
      <4>2. i # i0 \/ l # l0
        <5> SUFFICES ASSUME i = i0, l = l0 PROVE FALSE
          BY Zenon
        <5>1. k = "webview" /\ windows[l0] = NoWindow
          BY Zenon, <1>a, <1>b, <2>1, <3>1 DEF TypeOK, Table, Kinds
        <5>2. <<"window", i0>> \in attached
          BY Zenon, <1>a, <4>1, <5>1 DEF AttachedInv
        <5>3. windows[l0] = i0
          BY Zenon, <1>a, <2>2, <5>2 DEF ManagedInv, Table, Kinds
        <5> QED
          BY Zenon, <1>b, <5>1, <5>3
      <4>3. Living(i, l) \/ i \in failed \/ <<k, i>> \in late
        BY Zenon, <1>e, <4>1
      <4>4. Living(i, l) => i # i0
        BY Zenon, <2>5, <4>2
      <4> QED
        BY Zenon, <2>1, <2>4, <4>3, <4>4
    <3> QED
      BY Zenon, <1>f, <3>1
  <2> QED
    BY Zenon, <2>9, <2>10, <2>11, <2>12, <2>13 DEF TablesInv
<1>12. ASSUME UNCHANGED vars PROVE TablesInv'
  <2>1. UNCHANGED <<windows, webviews, store, queue, pc, label, id, attached, closed, late, failed>>
    BY Zenon, <1>12 DEF vars, tables, runtime, local, history
  <2>2. \A i, l : Living(i, l)' <=> Living(i, l)
    BY Zenon, <2>1 DEF Living, Queued, CreateMessage
  <2> QED
    BY Zenon, <2>1, <2>2, TablesFrame
<1> QED
  BY Zenon, <1>1, <1>2, <1>3, <1>5, <1>6, <1>8, <1>9, <1>10, <1>11, <1>12 DEF Next, Build, HandleMessage

\* All that is known of the windows when builders do not share labels.
IInv == TypeInv /\ RuntimeInv /\ PlaceInv /\ TablesInv

\* IInv is an invariant of every application whose builders, on the main thread and
\* on others, use labels of their own.
LEMMA Invariance == OwnLabels /\ Spec => []IInv
<1> SUFFICES ASSUME OwnLabels PROVE Spec => []IInv
  BY Zenon
<1>1. Init => IInv
  <2> SUFFICES ASSUME Init PROVE PlaceInv /\ TablesInv
    BY Zenon, InitTypeInv, InitRuntimeInv DEF IInv
  <2>1. PlaceInv
    BY Zenon DEF Init, PlaceInv, After
  <2>2. \A i, l : ~Living(i, l)
    BY DEF Init, Living, Queued
  <2>3. \A k \in Kinds, l \in Labels : Table(k)[l] = NoWindow
    BY Zenon DEF Init, Table
  <2>4. OwnedInv /\ ManagedInv
    BY Zenon, <2>2 DEF OwnedInv, ManagedInv
  <2>5. HeldInv
    BY Zenon DEF Init, HeldInv, After
  <2>6. AttachedInv /\ EntriesHaveWindows
    BY Zenon, <2>3 DEF Init, AttachedInv, EntriesHaveWindows
  <2> QED
    BY Zenon, <2>1, <2>4, <2>5, <2>6 DEF TablesInv
<1>2. IInv /\ [Next]_vars => IInv'
  BY Zenon, TypeStep, RuntimeStep, PlaceStep, TablesStep DEF IInv
<1> QED
  BY <1>1, <1>2, PTL DEF Spec

\* error.rs: "Window label must be unique."  It is, on every screen the event loop
\* can produce, if builders use labels of their own.
THEOREM UniqueLabels == OwnLabels /\ Spec => []LabelsAreUnique
<1>1. IInv => LabelsAreUnique
  <2> SUFFICES ASSUME IInv, NEW v \in store, NEW w \in store, v.inner, w.inner,
                      v.label = w.label
               PROVE  v = w
    BY Zenon DEF LabelsAreUnique
  <2>1. v.id \in Ids /\ w.id \in Ids /\ v.label \in Labels
    BY Zenon DEF IInv, TypeInv, TypeOK, Wrapper
  <2>2. v.id \notin closed /\ w.id \notin closed
    BY Zenon DEF IInv, RuntimeInv, NativeInv
  <2>3. Living(v.id, v.label) /\ Living(w.id, v.label)
    BY Zenon, <2>2 DEF Living
  <2>4. v.id = w.id
    BY Zenon, <2>1, <2>3 DEF IInv, TablesInv, ManagedInv
  <2> QED
    BY Zenon, <2>4 DEF IInv, RuntimeInv, FreshInv
<1> QED
  BY <1>1, Invariance, PTL

\* An attached window is found by its label in the managers' tables until they are
\* told it is destroyed, if builders use labels of their own.
THEOREM OpenWindows == OwnLabels /\ Spec => []OpenWindowsAreManaged
<1>1. IInv => OpenWindowsAreManaged
  <2> SUFFICES ASSUME IInv, NEW w \in store, NEW k \in Kinds, w.id \notin closed,
                      <<k, w.id>> \in attached
               PROVE  Table(k)[w.label] = w.id
    BY Zenon DEF OpenWindowsAreManaged
  <2>1. w.id \in Ids /\ w.label \in Labels
    BY Zenon DEF IInv, TypeInv, TypeOK, Wrapper
  <2>2. Living(w.id, w.label)
    BY Zenon DEF Living
  <2> QED
    BY Zenon, <2>1, <2>2 DEF IInv, TablesInv, ManagedInv
<1> QED
  BY <1>1, Invariance, PTL

\* The managers' tables name only windows that exist or are about to, or whose
\* creation failed, or that were destroyed before they were attached, if builders use
\* labels of their own.
THEOREM Entries == OwnLabels /\ Spec => []EntriesHaveWindows
<1>1. IInv => EntriesHaveWindows
  BY Zenon DEF IInv, TablesInv
<1> QED
  BY <1>1, Invariance, PTL

-----------------------------------------------------------------------------
(* What a table holds is taken out by its own window only *)

\* The label that prepare_webview and prepare_window found vacant is still vacant
\* when attach_window and attach_webview insert it, much later.
VacantInv ==
  \A t \in Threads :
    /\ pc[t] \in {"create", "listen_window", "insert_window"} =>
         windows[label[t]] = NoWindow
    /\ pc[t] \in {"prepare", "create", "listen_window", "insert_window",
                  "listen_webview", "insert_webview"} =>
         webviews[label[t]] = NoWindow

\* Every step keeps the labels that builders hold vacant, until they fill them.
LEMMA VacantStep ==
  OwnLabels /\ TypeInv /\ VacantInv /\ [Next]_vars => VacantInv'
<1> SUFFICES ASSUME OwnLabels, TypeInv, VacantInv, [Next]_vars PROVE VacantInv'
  BY Zenon
<1> USE DEF tables, runtime, local, history
<1>a. /\ windows \in [Labels -> Ids \cup {NoWindow}]
      /\ webviews \in [Labels -> Ids \cup {NoWindow}]
      /\ store \in SUBSET Wrapper
      /\ DOMAIN pc = Threads /\ DOMAIN label = Threads
  BY Zenon DEF TypeInv, TypeOK
<1>b. \A t \in Threads : pc[t] \in {"prepare", "create"} \cup After =>
        label[t] \in MayUse[t] /\ label[t] \in Labels
  BY Zenon, LifecycleAssumption DEF TypeInv, BuildersInv
<1> DEFINE Building == {"prepare", "create"} \cup After
<1>c. \A t, u \in Threads : pc[t] \in Building /\ pc[u] \in Building /\ label[t] = label[u] => t = u
  BY Zenon, <1>b DEF OwnLabels
<1>d. /\ \A p \in {"create", "listen_window", "insert_window"} : p \in Building
      /\ \A p \in {"prepare", "create", "listen_window", "insert_window",
                   "listen_webview", "insert_webview"} : p \in Building
  BY Zenon DEF After
<1> HIDE DEF Building
\* a step that moves no builder and fills no label that one holds
<1>1. ASSUME UNCHANGED <<pc, label>>,
             \A t \in Threads : pc[t] \in Building =>
               /\ windows'[label[t]] \in {windows[label[t]], NoWindow}
               /\ webviews'[label[t]] \in {webviews[label[t]], NoWindow}
      PROVE  VacantInv'
  BY Zenon, <1>1, <1>d DEF VacantInv
<1>2. ASSUME NEW t \in Threads, PrepareWebview(t) PROVE VacantInv'
  BY Zenon, <1>2, <1>a DEF VacantInv, PrepareWebview, Goto, Vacant
<1>3. ASSUME NEW t \in Threads, PrepareWindow(t) PROVE VacantInv'
  BY Zenon, <1>3, <1>a DEF VacantInv, PrepareWindow, Goto, Leave, Vacant
<1>4. ASSUME NEW t \in Threads, CreateWindow(t) \/ AddListener(t) \/ FirstWebview(t)
      PROVE  VacantInv'
  BY Zenon, <1>4, <1>a DEF VacantInv, CreateWindow, AddListener, FirstWebview, Goto, Leave
<1>5. ASSUME NEW t \in Threads, InsertWindow(t) \/ InsertWebview(t) PROVE VacantInv'
  <2>1. /\ pc[t] \in Building /\ UNCHANGED label
        /\ \A u \in Threads : u # t => pc'[u] = pc[u]
        /\ \/ /\ pc[t] = "insert_window" /\ pc'[t] = "listen_webview" /\ webviews' = webviews
           \/ pc'[t] = "first"
    BY Zenon, <1>5, <1>a, <1>d DEF InsertWindow, InsertWebview, Goto
  <2>2. \A u \in Threads : u # t /\ pc[u] \in Building =>
          windows'[label[u]] = windows[label[u]] /\ webviews'[label[u]] = webviews[label[u]]
    <3>1. \A u \in Threads : u # t /\ pc[u] \in Building => label[u] # label[t] /\ label[u] \in Labels
      BY Zenon, <1>b, <1>c, <2>1 DEF Building
    <3> QED BY Zenon, <1>5, <1>a, <3>1 DEF InsertWindow, InsertWebview
  <2>3. \A u \in Threads : u # t =>
          /\ pc'[u] \in {"create", "listen_window", "insert_window"} =>
               windows'[label[u]] = NoWindow
          /\ pc'[u] \in {"prepare", "create", "listen_window", "insert_window",
                         "listen_webview", "insert_webview"} =>
               webviews'[label[u]] = NoWindow
    BY Zenon, <1>d, <2>1, <2>2 DEF VacantInv
  <2>4. /\ pc'[t] \notin {"create", "listen_window", "insert_window"}
        /\ pc'[t] \in {"prepare", "create", "listen_window", "insert_window",
                       "listen_webview", "insert_webview"} => webviews'[label[t]] = NoWindow
    BY Zenon, <2>1 DEF VacantInv
  <2> QED BY Zenon, <2>1, <2>3, <2>4 DEF VacantInv
<1>6. ASSUME NEW l \in MainLabels, BuildOnMain(l) PROVE VacantInv'
  <2>1. \A t \in Threads : pc[t] \in Building => label[t] # l /\ label[t] \in Labels
    BY ZenonT(40), <1>b DEF OwnLabels, Building
  <2> QED BY Zenon, <1>1, <1>6, <1>a, <2>1 DEF BuildOnMain
<1>7. ASSUME NEW w \in store, Destroyed(w) PROVE VacantInv'
  <2>1. \A l \in Labels : /\ windows'[l] \in {windows[l], NoWindow}
                          /\ webviews'[l] \in {webviews[l], NoWindow}
    BY Zenon, <1>7, <1>a DEF Destroyed, ForgetWindow, Wrapper
  <2>2. UNCHANGED <<pc, label>>
    BY Zenon, <1>7 DEF Destroyed
  <2>3. \A t \in Threads : pc[t] \in Building => label[t] \in Labels
    BY Zenon, <1>b DEF Building
  <2> QED BY Zenon, <1>1, <2>1, <2>2, <2>3
<1>8. CASE UNCHANGED <<windows, webviews, pc, label>>
  BY Zenon, <1>1, <1>8
<1>9. CASE \/ \E m \in Ask : AskWindow(m)
           \/ Exit \/ HandleMessage \/ MainStep
           \/ \E w \in store : UserCloses(w)
           \/ UNCHANGED vars
  BY Zenon, <1>8, <1>9 DEF AskWindow, Exit, HandleMessage, HandleCreate, HandleListen,
    HandleClose, HandleDestroy, HandleRequestExit, MainStep, RemoveWindow, ExitRequested,
    LoopDestroyed, UserCloses, vars
<1> QED BY Zenon, <1>2, <1>3, <1>4, <1>5, <1>6, <1>7, <1>9 DEF Next, Build

\* What one step does to a table: an entry that changes was vacant, or becomes vacant
\* because its own window is destroyed.
Kept ==
  \A k \in Kinds, l \in Labels :
    Table(k)'[l] # Table(k)[l] =>
      \/ Table(k)[l] = NoWindow
      \/ Table(k)'[l] = NoWindow /\ dying' = Table(k)[l]

\* Every step keeps the entries of windows that are not destroyed by it.
LEMMA KeptStep ==
  OwnLabels /\ IInv /\ VacantInv /\ [Next]_vars => Kept
<1> SUFFICES ASSUME OwnLabels, IInv, VacantInv, [Next]_vars PROVE Kept
  BY Zenon
<1> USE DEF tables, runtime, local, history
<1>a. /\ windows \in [Labels -> Ids \cup {NoWindow}]
      /\ webviews \in [Labels -> Ids \cup {NoWindow}]
      /\ store \in SUBSET Wrapper
  BY Zenon DEF IInv, TypeInv, TypeOK
<1>b. \A t \in Threads : pc[t] \in After => label[t] \in Labels
  BY Zenon, LifecycleAssumption DEF IInv, TypeInv, BuildersInv
<1>1. ASSUME NEW t \in Threads, InsertWindow(t) \/ InsertWebview(t) PROVE Kept
  <2>1. label[t] \in Labels
    BY Zenon, <1>1, <1>b DEF InsertWindow, InsertWebview, After
  <2> QED BY Zenon, <1>1, <1>a, <2>1 DEF InsertWindow, InsertWebview, VacantInv, Table, Kept
<1>2. ASSUME NEW l \in MainLabels, BuildOnMain(l) PROVE Kept
  BY Zenon, <1>2, <1>a DEF BuildOnMain, Vacant, Table, Kept
<1>3. ASSUME NEW w \in store, Destroyed(w) PROVE Kept
  <2>1. /\ w.id \in Ids /\ w.label \in Labels
        /\ dying' = w.id
        /\ \A k \in Kinds, l \in Labels :
             /\ l # w.label => Table(k)'[l] = Table(k)[l]
             /\ Table(k)'[l] \in {Table(k)[l], NoWindow}
    BY Zenon, <1>3, <1>a DEF Destroyed, ForgetWindow, Wrapper, Table
  <2>2. Living(w.id, w.label)
    BY Zenon, <1>3 DEF Destroyed, Living, IInv, RuntimeInv, NativeInv
  <2>3. ASSUME NEW k \in Kinds PROVE Table(k)[w.label] \in {NoWindow, w.id}
    <3>1. CASE <<k, w.id>> \in attached
      BY Zenon, <2>1, <2>2, <3>1 DEF IInv, TablesInv, ManagedInv
    <3>2. CASE <<k, w.id>> \notin attached
      <4>1. PICK t \in Threads : pc[t] \in After /\ id[t] = w.id /\ label[t] = w.label
        BY Zenon, <2>1, <2>2, <3>2 DEF IInv, TablesInv, OwnedInv
      <4>2. /\ k = "window" => pc[t] \in {"listen_window", "insert_window"}
            /\ k = "webview" => pc[t] \in {"listen_window", "insert_window",
                                           "listen_webview", "insert_webview"}
        BY Zenon, <3>2, <4>1 DEF IInv, PlaceInv, After
      <4> QED BY Zenon, <4>1, <4>2 DEF VacantInv, Table, Kinds
    <3> QED BY Zenon, <3>1, <3>2
  <2> QED BY Zenon, <2>1, <2>3 DEF Kept
<1>4. CASE UNCHANGED <<windows, webviews>>
  BY Zenon, <1>4 DEF Table, Kept
<1>5. CASE \/ \E t \in Threads : PrepareWebview(t) \/ PrepareWindow(t) \/ CreateWindow(t)
                                 \/ AddListener(t) \/ FirstWebview(t)
           \/ \E m \in Ask : AskWindow(m)
           \/ Exit \/ HandleMessage \/ MainStep
           \/ \E w \in store : UserCloses(w)
           \/ UNCHANGED vars
  <2>1. UNCHANGED <<windows, webviews>>
    BY Zenon, <1>5 DEF PrepareWebview, PrepareWindow, CreateWindow, AddListener,
      FirstWebview, AskWindow, Exit, HandleMessage, HandleCreate, HandleListen,
      HandleClose, HandleDestroy, HandleRequestExit, MainStep, RemoveWindow,
      ExitRequested, LoopDestroyed, UserCloses, vars
  <2> QED BY Zenon, <1>4, <2>1
<1> QED BY Zenon, <1>1, <1>2, <1>3, <1>5 DEF Next, Build

\* The labels that builders hold stay vacant throughout every behaviour.
LEMMA AlwaysKept == OwnLabels /\ Spec => [](IInv /\ VacantInv)
<1> SUFFICES ASSUME OwnLabels PROVE Spec => [](IInv /\ VacantInv)
  BY Zenon
<1>1. Init => VacantInv
  BY Zenon DEF Init, VacantInv
<1>2. IInv /\ VacantInv /\ [Next]_vars => VacantInv'
  BY Zenon, VacantStep DEF IInv
<1> QED BY <1>1, <1>2, Invariance, PTL DEF Spec

\* attach_window and attach_webview overwrite no entry of the managers' tables, and
\* on_window_close, which removes by label, removes the entry of the window that is
\* destroyed and no other, if builders use labels of their own.
THEOREM NotTaken == OwnLabels /\ Spec => EntriesAreNotTaken
<1> SUFFICES ASSUME OwnLabels PROVE Spec => EntriesAreNotTaken
  BY Zenon
<1>1. IInv /\ VacantInv /\ [Next]_vars => Kept
  BY Zenon, KeptStep
<1> QED BY <1>1, AlwaysKept, PTL DEF Spec, EntriesAreNotTaken, Kept

\* Between attach_webview and with_webview, the webview of the builder's window is in
\* the table, or the window has been destroyed.
FirstInv ==
  \A t \in Threads :
    pc[t] = "first" => webviews[label[t]] = id[t] \/ id[t] \in closed

\* Every step keeps FirstInv: the entry can go only with its own window.
LEMMA FirstStep ==
  OwnLabels /\ IInv /\ VacantInv /\ FirstInv /\ [Next]_vars => FirstInv'
<1> SUFFICES ASSUME OwnLabels, IInv, VacantInv, FirstInv, [Next]_vars,
                    NEW t \in Threads, pc'[t] = "first"
             PROVE  webviews'[label'[t]] = id'[t] \/ id'[t] \in closed'
  BY Zenon DEF FirstInv
<1> USE DEF tables, runtime, local, history
<1>a. /\ webviews \in [Labels -> Ids \cup {NoWindow}]
      /\ DOMAIN pc = Threads /\ DOMAIN label = Threads /\ DOMAIN id = Threads
  BY Zenon DEF IInv, TypeInv, TypeOK
<1>b. /\ \A u \in Threads : pc[u] \in After => label[u] \in Labels /\ id[u] \in Ids
      /\ NoWindow \notin Ids
  <2>1. NoWindow \notin Ids
    BY LifecycleAssumption DEF Ids
  <2> QED BY Zenon, <2>1, LifecycleAssumption DEF IInv, TypeInv, BuildersInv
<1>c. closed \subseteq closed'
  BY Zenon DEF Next, Build, PrepareWebview, PrepareWindow, CreateWindow, AddListener,
    InsertWindow, InsertWebview, FirstWebview, BuildOnMain, Destroyed, AskWindow, Exit,
    HandleMessage, HandleCreate, HandleListen, HandleClose, HandleDestroy,
    HandleRequestExit, MainStep, RemoveWindow, ExitRequested, LoopDestroyed, UserCloses,
    vars
\* the builder has just inserted its webview
<1>1. CASE InsertWebview(t)
  <2>1. label[t] \in Labels
    BY Zenon, <1>1, <1>b DEF InsertWebview, After
  <2> QED BY Zenon, <1>1, <1>a, <2>1 DEF InsertWebview
\* the builder was there already, and its entry is kept or went with its window
<1>2. CASE pc[t] = "first" /\ label'[t] = label[t] /\ id'[t] = id[t]
  <2>1. /\ label[t] \in Labels /\ id[t] \in Ids
        /\ webviews[label[t]] = id[t] \/ id[t] \in closed
    BY Zenon, <1>2, <1>b DEF FirstInv, After
  <2>2. CASE id[t] \in closed
    BY Zenon, <1>2, <1>c, <2>2
  <2>3. CASE webviews'[label[t]] = webviews[label[t]]
    BY Zenon, <1>2, <1>c, <2>1, <2>3
  <2>4. CASE webviews[label[t]] = id[t] /\ webviews'[label[t]] # webviews[label[t]]
    <3>1. webviews'[label[t]] = NoWindow /\ dying' = id[t]
      BY Zenon, KeptStep, <1>b, <2>1, <2>4 DEF Kept, Table, Kinds
    <3>2. dying' # NoWindow
      BY Zenon, <1>b, <2>1, <3>1
    <3>3. CASE \E w \in store : Destroyed(w)
      BY Zenon, <1>2, <3>1, <3>3 DEF Destroyed
    <3>4. CASE \E u \in Threads : u # t /\ (InsertWindow(u) \/ InsertWebview(u))
      <4>1. PICK u \in Threads : u # t /\ (InsertWindow(u) \/ InsertWebview(u))
        BY Zenon, <3>4
      <4>2. pc[u] \in After /\ label[u] \in Labels /\ id[u] \in Ids
        BY Zenon, <4>1, <1>b DEF InsertWindow, InsertWebview, After
      <4>3. webviews'[label[t]] \in {webviews[label[t]], id[u]}
        BY Zenon, <4>1, <4>2, <1>a, <2>1 DEF InsertWindow, InsertWebview
      <4> QED BY Zenon, <1>b, <2>1, <2>4, <3>1, <4>2, <4>3
    <3>5. CASE InsertWindow(t) \/ InsertWebview(t)
      BY Zenon, <1>2, <3>5 DEF InsertWindow, InsertWebview
    <3>6. CASE \E l \in MainLabels : BuildOnMain(l)
      <4>1. PICK l \in MainLabels : BuildOnMain(l)
        BY Zenon, <3>6
      <4>2. webviews[l] = NoWindow /\ webviews' = [webviews EXCEPT ![l] = FreshId]
        BY Zenon, <4>1 DEF BuildOnMain, Vacant
      <4>3. l # label[t]
        BY Zenon, <1>b, <2>1, <2>4, <4>2
      <4> QED BY Zenon, <1>a, <2>1, <2>4, <4>2, <4>3
    <3>7. CASE UNCHANGED webviews
      BY Zenon, <2>4, <3>7
    <3>8. CASE \/ \E u \in Threads : PrepareWebview(u) \/ PrepareWindow(u)
                    \/ CreateWindow(u) \/ AddListener(u) \/ FirstWebview(u)
               \/ \E m \in Ask : AskWindow(m)
               \/ Exit \/ HandleMessage \/ MainStep
               \/ \E w \in store : UserCloses(w)
               \/ UNCHANGED vars
      BY Zenon, <3>7, <3>8 DEF PrepareWebview, PrepareWindow, CreateWindow, AddListener,
        FirstWebview, AskWindow, Exit, HandleMessage, HandleCreate, HandleListen,
        HandleClose, HandleDestroy, HandleRequestExit, MainStep, RemoveWindow,
        ExitRequested, LoopDestroyed, UserCloses, vars
    <3> QED BY Zenon, <3>3, <3>4, <3>5, <3>6, <3>8 DEF Next, Build
  <2> QED BY Zenon, <2>1, <2>2, <2>3, <2>4
\* no other step leads to with_webview
<1>3. CASE ~InsertWebview(t)
  <2>1. pc[t] = "first" /\ label'[t] = label[t] /\ id'[t] = id[t]
    <3>1. ASSUME NEW u \in Threads, Build(u), ~InsertWebview(t)
          PROVE  pc[t] = "first" /\ label'[t] = label[t] /\ id'[t] = id[t]
      BY Zenon, <3>1, <1>a DEF Build, PrepareWebview, PrepareWindow, CreateWindow,
        AddListener, InsertWindow, InsertWebview, FirstWebview, Goto, Leave
    <3>2. CASE UNCHANGED <<pc, label, id>>
      BY Zenon, <3>2
    <3>3. CASE \/ \E l \in MainLabels : BuildOnMain(l)
               \/ \E w \in store : Destroyed(w) \/ UserCloses(w)
               \/ \E m \in Ask : AskWindow(m)
               \/ Exit \/ HandleMessage \/ MainStep
               \/ UNCHANGED vars
      BY Zenon, <3>2, <3>3 DEF BuildOnMain, Destroyed, UserCloses, AskWindow, Exit,
        HandleMessage, HandleCreate, HandleListen, HandleClose, HandleDestroy,
        HandleRequestExit, MainStep, RemoveWindow, ExitRequested, LoopDestroyed, vars
    <3> QED BY Zenon, <1>3, <3>1, <3>3 DEF Next
  <2> QED BY Zenon, <1>2, <2>1
<1> QED BY Zenon, <1>1, <1>3

\* with_webview's unwrap panics only in a builder whose own window was destroyed before
\* build returned, if builders use labels of their own.
THEOREM OnlyDestroyedPanic == OwnLabels /\ Spec => PanicsOnlyIfDestroyed
<1> SUFFICES ASSUME OwnLabels PROVE Spec => PanicsOnlyIfDestroyed
  BY Zenon
<1> DEFINE Step == \A t \in Threads :
                     pc[t] # "panicked" /\ pc'[t] = "panicked" => id[t] \in closed
<1>1. Init => FirstInv
  BY Zenon DEF Init, FirstInv
<1>2. IInv /\ VacantInv /\ FirstInv /\ [Next]_vars => FirstInv'
  BY Zenon, FirstStep
<1>3. IInv /\ FirstInv /\ [Next]_vars => Step
  <2> SUFFICES ASSUME IInv, FirstInv, [Next]_vars,
                      NEW t \in Threads, pc[t] # "panicked", pc'[t] = "panicked"
               PROVE  id[t] \in closed
    BY Zenon
  <2> USE DEF tables, runtime, local, history
  <2>1. DOMAIN pc = Threads
    BY Zenon DEF IInv, TypeInv, TypeOK
  <2>2. FirstWebview(t) /\ webviews[label[t]] = NoWindow
    <3>1. CASE UNCHANGED pc
      BY Zenon, <3>1
    <3>2. CASE \/ \E l \in MainLabels : BuildOnMain(l)
               \/ \E w \in store : Destroyed(w) \/ UserCloses(w)
               \/ \E m \in Ask : AskWindow(m)
               \/ Exit \/ HandleMessage \/ MainStep
               \/ UNCHANGED vars
      BY Zenon, <3>1, <3>2 DEF BuildOnMain, Destroyed, UserCloses, AskWindow, Exit,
        HandleMessage, HandleCreate, HandleListen, HandleClose, HandleDestroy,
        HandleRequestExit, MainStep, RemoveWindow, ExitRequested, LoopDestroyed, vars
    <3>3. ASSUME NEW u \in Threads, Build(u)
          PROVE  FirstWebview(t) /\ webviews[label[t]] = NoWindow
      BY Zenon, <3>3, <2>1 DEF Build, PrepareWebview, PrepareWindow, CreateWindow,
        AddListener, InsertWindow, InsertWebview, FirstWebview, Goto, Leave
    <3> QED BY Zenon, <3>2, <3>3 DEF Next
  <2>3. id[t] \in Ids
    BY Zenon, <2>2 DEF IInv, TypeInv, BuildersInv, FirstWebview, After
  <2>4. NoWindow \notin Ids
    BY LifecycleAssumption DEF Ids
  <2> QED BY Zenon, <2>2, <2>3, <2>4 DEF FirstInv, FirstWebview
<1> QED BY <1>1, <1>2, <1>3, AlwaysKept, PTL DEF Spec, PanicsOnlyIfDestroyed
=============================================================================
