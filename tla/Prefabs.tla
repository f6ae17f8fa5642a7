------------------------------ MODULE Prefabs -------------------------------
(***************************************************************************)
(* Prefabs, the script nodes a team shares: the table of the server, the   *)
(* slice "prefab" (src/editor/src/models/prefab.ts), the page that edits   *)
(* them (pages/prefab.tsx) and the side pane of the editor that offers     *)
(* them (pages/edit/side.tsx).                                             *)
(*                                                                         *)
(* A sync empties the slice, asks for the list and then for the code of    *)
(* each prefab; every answer adds to the slice, the last one fills the     *)
(* table of the page.  Nothing keeps two syncs apart.                      *)
(***************************************************************************)
EXTENDS Site, SequencesExt

CONSTANTS
  Prefab,       \* names of prefabs
  Code,         \* scripts
  NoCode,       \* the code of a new prefab
  Tag,
  FirstPrefabs  \* FirstPrefabs[a]: the prefabs of server a, a partial function

\* Each server starts with prefabs of its own, with their tags and code.
ASSUME PrefabsAssumption ==
  /\ DOMAIN FirstPrefabs = Addr
  /\ \A a \in Addr :
       /\ DOMAIN FirstPrefabs[a] \subseteq Prefab
       /\ \A n \in DOMAIN FirstPrefabs[a] :
            FirstPrefabs[a][n] \in [tags : SUBSET Tag, code : Code \cup {NoCode}]

VARIABLES
  prefabs,      \* prefabs[a]: name -> [tags, code]
  pmap,         \* the slice
  data,         \* rows of the table
  selectedKey,  \* the prefab an update or a removal is about; NoCode: none
  code,         \* the text in the editor of the page
  syncs,        \* syncs under way
  puts,         \* uploads, removals and changes of tags in flight
  prefabLst,    \* the names the side pane offers
  listing,      \* history: the names the server listed for the rows of the table
  synced,       \* history: the address the slice was last filled from, if it was one
  newest,       \* history: the id of the sync begun last
  stale         \* history: names whose last entry is not of the sync begun last

prefabPage == <<data, selectedKey, code>>
order == <<newest, stale>>
prefabVars == <<prefabs, pmap, prefabPage, syncs, puts, prefabLst, listing, synced, order>>

Rows(f) == {[name |-> n, tags |-> f[n].tags] : n \in DOMAIN f}
Names(S) == {e.name : e \in S}

NewSync == [all |-> {}, lst |-> {}, read |-> {}, dat |-> {}, broken |-> FALSE]
\* syncConfig of visit v
syncConfig(v) ==
  /\ pmap' = <<>> /\ synced' = remoteAddr
  /\ syncs' = PostTo(remoteAddr, syncs, NewSync, v)
  /\ newest' = FreshId(syncs) /\ stale' = {}

PrefabInit ==
  /\ prefabs = FirstPrefabs /\ pmap = <<>> /\ data = {} /\ selectedKey = NoCode /\ code = NoCode
  /\ syncs = PostTo(remoteAddr, {}, NewSync, 0)   \* initmap
  /\ puts = {} /\ prefabLst = <<>> /\ listing = {} /\ synced = remoteAddr
  /\ newest = FreshId({}) /\ stale = {}

(* reloadPrefab: the names of the slice as it is now that have all tags of *)
(* S.  Prefabs that arrive later are not offered before the next reload.   *)
reloadPrefab(S) ==
  LET some == SelectSeq(pmap, LAMBDA e : S \subseteq e.tags)
  IN  [i \in DOMAIN some |-> some[i].name]

\* Page p is opened: its state is new, and its effect runs.
PrefabsOpen(p) ==
  /\ data' = {} /\ selectedKey' = NoCode /\ code' = NoCode /\ listing' = {}
  /\ IF p = "prefab" THEN syncConfig(visit') ELSE UNCHANGED <<pmap, synced, order, syncs>>
  /\ prefabLst' = IF p = "editor" THEN reloadPrefab({}) ELSE <<>>
  /\ UNCHANGED <<prefabs, puts>>
-----------------------------------------------------------------------------
(* A sync, which is over when no answer is due. *)
Left(s) == IF s.lst = {} /\ s.read = {} THEN {} ELSE {s}

\* PrefabList
ReadList(s) ==
  /\ s.at = "asked"
  /\ syncs' = Swap(syncs, s, [s EXCEPT !.at = "listed", !.lst = Rows(prefabs[s.addr]),
                                       !.all = DOMAIN prefabs[s.addr]])
  /\ Still /\ UNCHANGED <<prefabs, pmap, prefabPage, puts, prefabLst, listing, synced, order>>

(* The answer asks for each code, at the address of the moment.  An empty  *)
(* list comes as null: the rows stay as they are.                          *)
Listed(s) ==
  /\ s.at = "listed" /\ syncs' = (syncs \ {s}) \cup Left([s EXCEPT !.at = "getting", !.addr = remoteAddr])
  /\ synced' = IF s.addr = remoteAddr THEN synced ELSE NoAddr
  /\ Still /\ UNCHANGED <<prefabs, pmap, prefabPage, puts, prefabLst, listing, order>>

\* PrefabGet; a prefab that has been removed meanwhile has no code.
ReadCode(s, e) ==
  /\ s.at = "getting" /\ e \in s.lst
  /\ LET now == prefabs[s.addr]
         got == [name |-> e.name, tags |-> e.tags,
                 code |-> IF e.name \in DOMAIN now THEN now[e.name].code ELSE NoCode]
     IN  syncs' = Swap(syncs, s, [s EXCEPT !.lst = @ \ {e}, !.read = @ \cup {got}])
  /\ Still /\ UNCHANGED <<prefabs, pmap, prefabPage, puts, prefabLst, listing, synced, order>>

\* addItem
Adds(s, g) ==
  /\ pmap' = Append(pmap, g)
  /\ stale' = IF s.id = newest THEN stale \ {g.name} ELSE stale \cup {g.name}

\* (a mistake: every answer fills the table)
EarlyCallback(s, g) ==
  LET t == [s EXCEPT !.read = @ \ {g}, !.dat = @ \cup {g}] IN
  /\ s.at = "getting" /\ g \in s.read
  /\ Adds(s, g) /\ syncs' = (syncs \ {s}) \cup Left(t)
  /\ IF s.visit = visit
     THEN data' = t.dat /\ listing' = s.all
     ELSE UNCHANGED <<data, listing>>
  /\ Still /\ UNCHANGED <<prefabs, selectedKey, code, puts, prefabLst, synced, newest>>
(* addItem, and the table when this was the last answer.  A sync that has  *)
(* lost one never gets there.                                              *)
Got(s, g) ==
  LET t == [s EXCEPT !.read = @ \ {g}, !.dat = @ \cup {g}] IN
  /\ s.at = "getting" /\ g \in s.read
  /\ Adds(s, g) /\ syncs' = (syncs \ {s}) \cup Left(t)
  /\ IF Left(t) = {} /\ ~s.broken /\ s.visit = visit
     THEN data' = t.dat /\ listing' = s.all
     ELSE UNCHANGED <<data, listing>>
  /\ Still /\ UNCHANGED <<prefabs, selectedKey, code, puts, prefabLst, synced, newest>>

LoseSync(s) ==
  /\ Loss /\ UNCHANGED <<prefabs, pmap, prefabPage, puts, prefabLst, listing, synced, order>>
  /\ \/ s.at # "getting" /\ syncs' = syncs \ {s}
     \/ \E e \in s.lst : s.at = "getting" /\
          syncs' = (syncs \ {s}) \cup Left([s EXCEPT !.lst = @ \ {e}, !.broken = TRUE])
-----------------------------------------------------------------------------
(* The page. *)

PutTo(op, n, val) == puts' = PostTo(remoteAddr, puts, [op |-> op, name |-> n, val |-> val], visit)

SelectRow(r) ==
  /\ page = "prefab" /\ r \in data /\ Click
  /\ code' = r.code /\ selectedKey' = r.name
  /\ UNCHANGED <<prefabs, pmap, data, syncs, puts, prefabLst, listing, synced, order>>

\* handleSearch takes the text searched for as the prefab selected.
handleSearch(n) ==
  /\ page = "prefab" /\ Click /\ selectedKey' = n
  /\ UNCHANGED <<prefabs, pmap, data, code, syncs, puts, prefabLst, listing, synced, order>>

EditCode(c) ==
  /\ page = "prefab" /\ Click /\ code' = c
  /\ UNCHANGED <<prefabs, pmap, data, selectedKey, syncs, puts, prefabLst, listing, synced, order>>

onHandleUpdate ==
  /\ page = "prefab" /\ selectedKey # NoCode /\ Click /\ PutTo("upload", selectedKey, code)
  /\ UNCHANGED <<prefabs, pmap, prefabPage, syncs, prefabLst, listing, synced, order>>

\* modalHandleOk: the new prefab has no code, also when the name is not new.
Add(n) ==
  /\ page = "prefab" /\ Click /\ PutTo("upload", n, NoCode)
  /\ UNCHANGED <<prefabs, pmap, prefabPage, syncs, prefabLst, listing, synced, order>>

onHandleRemove ==
  /\ page = "prefab" /\ selectedKey # NoCode /\ Click /\ PutTo("remove", selectedKey, NoCode)
  /\ UNCHANGED <<prefabs, pmap, prefabPage, syncs, prefabLst, listing, synced, order>>

updateTags(n, tags) ==
  /\ page = "prefab" /\ n \in Names(data) /\ Click /\ PutTo("tags", n, tags)
  /\ data' = {IF r.name = n THEN [r EXCEPT !.tags = tags] ELSE r : r \in data}
  /\ UNCHANGED <<prefabs, pmap, selectedKey, code, syncs, prefabLst, listing, synced, order>>

\* onSelectChange of the side pane
FilterPane(S) ==
  /\ page = "editor" /\ Click /\ prefabLst' = reloadPrefab(S)
  /\ UNCHANGED <<prefabs, pmap, prefabPage, syncs, puts, listing, synced, order>>
-----------------------------------------------------------------------------
PrefabTable(f, u) ==
  CASE u.op = "remove" -> Drop(f, u.name)
    [] u.op = "upload" -> Put(f, u.name, [tags |-> IF u.name \in DOMAIN f THEN f[u.name].tags ELSE {},
                                          code |-> u.val])
    [] u.op = "tags"   -> IF u.name \in DOMAIN f THEN Put(f, u.name, [f[u.name] EXCEPT !.tags = u.val])
                          ELSE f

Serve(u) ==
  /\ u.at = "asked" /\ puts' = Swap(puts, u, [u EXCEPT !.at = "done"])
  /\ prefabs' = [prefabs EXCEPT ![u.addr] = PrefabTable(@, u)]
  /\ Still /\ UNCHANGED <<pmap, prefabPage, syncs, prefabLst, listing, synced, order>>

\* (a mistake: the sync is left to the page, which may have been left)
SyncIfShown(u) ==
  /\ u.at = "done" /\ puts' = puts \ {u}
  /\ IF u.op = "upload" /\ u.visit = visit THEN syncConfig(visit) ELSE UNCHANGED <<pmap, synced, order, syncs>>
  /\ Still /\ UNCHANGED <<prefabs, prefabPage, prefabLst, listing>>
(* The answer.  An upload is followed by a sync.  The handler of a removal *)
(* fails at the name "props", which the page does not have, before it      *)
(* changes anything.                                                       *)
Answered(u) ==
  /\ u.at = "done" /\ puts' = puts \ {u}
  /\ IF u.op = "upload" THEN syncConfig(u.visit) ELSE UNCHANGED <<pmap, synced, order, syncs>>
  /\ Still /\ UNCHANGED <<prefabs, prefabPage, prefabLst, listing>>

LosePut(u) ==
  /\ Loss /\ puts' = puts \ {u}
  /\ UNCHANGED <<prefabs, pmap, prefabPage, syncs, prefabLst, listing, synced, order>>

PrefabNext ==
  \/ \E s \in syncs : ReadList(s) \/ Listed(s) \/ LoseSync(s)
                      \/ (\E e \in s.lst : ReadCode(s, e)) \/ (\E g \in s.read : Got(s, g))
  \/ \E r \in data : SelectRow(r)
  \/ \E n \in Prefab : handleSearch(n) \/ Add(n) \/ \E tags \in SUBSET Tag : updateTags(n, tags)
  \/ \E c \in Code : EditCode(c)
  \/ onHandleUpdate \/ onHandleRemove
  \/ \E S \in SUBSET Tag : FilterPane(S)
  \/ \E u \in puts : Serve(u) \/ Answered(u) \/ LosePut(u)
-----------------------------------------------------------------------------
(* The table of the page never mixes two syncs: it shows every prefab one  *)
(* list of the server named, each once, however syncs overlap.             *)
RowsOfOneListing ==
  Names(data) = listing /\ \A r, t \in data : r.name = t.name => r = t

(* Once all answers have come, the slice offers every prefab of the server *)
(* with the code it has there, although a sync may have emptied the slice  *)
(* while others were filling it.  And that is the code in effect, that of  *)
(* the last entry (node.ts:57-60), except for a prefab whose last answer   *)
(* was one to a sync that a newer one had overtaken.                       *)
InEffect(i) == \A j \in DOMAIN pmap : j > i => pmap[j].name # pmap[i].name
PrefabsOffered ==
  syncs = {} /\ puts = {} /\ lost = 0 /\ synced = remoteAddr /\ remoteAddr # NoAddr =>
    \A n \in DOMAIN prefabs[remoteAddr] :
      LET now == prefabs[remoteAddr][n].code IN
      /\ \E i \in DOMAIN pmap : pmap[i].name = n /\ pmap[i].code = now
      /\ n \notin stale => \A i \in DOMAIN pmap : pmap[i].name = n /\ InEffect(i) => pmap[i].code = now
=============================================================================
