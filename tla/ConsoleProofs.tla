---------------------------- MODULE ConsoleProofs ---------------------------
(***************************************************************************)
(* The console is well typed, and keeps its promises for every number of   *)
(* servers, prefabs, files, tags and reports, every list of pages that may *)
(* be opened and however long it is used.                                  *)
(*                                                                         *)
(* Types says what every call on its way looks like, of whichever page and *)
(* visit.  Each property then has an invariant of its own, beside Types:   *)
(* what the page waits for while it does not yet hold.  A page waits for   *)
(* an answer (Asking, ListDue, Filling), or for one whose handler asks     *)
(* again (Uploaded, Changed), and the steps of all other pages leave that. *)
(* LastInv follows the sync of the prefabs that was begun last.            *)
(***************************************************************************)
EXTENDS Console, FiniteSetTheorems, TLAPS

-----------------------------------------------------------------------------
(* What the state is made of. *)

\* A call with fields of its own, to a server, asked by the visit v or one before.
Call(c, own, v) ==
  DOMAIN c = own \cup {"id", "addr", "visit", "at"} /\ c.addr \in Addr /\ c.visit \in 0..v

Stored == [tags : SUBSET Tag, code : Code \cup {NoCode}]
Row    == [name : Prefab, tags : SUBSET Tag]
Item   == [name : Prefab, tags : SUBSET Tag, code : Code \cup {NoCode}]

Distinct(S) == \A x, y \in S : x.name = y.name => x = y
Apart(S, T) == \A x \in S, y \in T : x.name # y.name

\* A sync has each name once, in one of its sets; a sync that has lost no answer has all.
SyncRows(s) ==
  /\ Distinct(s.lst) /\ Distinct(s.read) /\ Distinct(s.dat)
  /\ Apart(s.lst, s.read) /\ Apart(s.lst, s.dat) /\ Apart(s.read, s.dat)
  /\ s.at = "asked" => s.read = {} /\ s.dat = {}
  /\ s.at # "asked" /\ ~s.broken => Names(s.lst) \cup Names(s.read) \cup Names(s.dat) = s.all

SyncCall(s, v) ==
  /\ Call(s, {"all", "lst", "read", "dat", "broken"}, v)
  /\ s.lst \subseteq Row /\ s.read \subseteq Item /\ s.dat \subseteq Item
PutCall(u, v) ==
  /\ Call(u, {"op", "name", "val"}, v)
  /\ u.op \in {"upload", "remove", "tags"} /\ u.name \in Prefab
  /\ u.op = "upload" => u.val \in Code \cup {NoCode}
  /\ u.op = "tags" => u.val \subseteq Tag
ListCall(l, v) == Call(l, {"tags", "lst"}, v) /\ DOMAIN l.lst \subseteq File
EditCall(e, v) ==
  /\ Call(e, {"op", "name", "val", "tags"}, v)
  /\ e.op \in {"run", "batch", "remove", "tags", "upload"} /\ e.name \in File
PollCall(c, v) ==
  /\ Call(c, {"op", "res"}, v)
  /\ c.op = "list" => c.res \subseteq File
  /\ c.op = "report" => c.res \in {{}, Report}
FormType(f) ==
  /\ DOMAIN f = {"addr", "size", "delay", "script"}
  /\ f.size \in Nat /\ f.delay \in Nat /\ f.script \in Script \cup {NoScript}
AskCall(c, v) ==
  /\ Call(c, {"op", "to", "val", "ok"}, v)
  /\ c.op \in {"system", "script", "health", "submit", "apply"} /\ c.to \in Addr /\ FormType(c.val)

SiteTypes ==
  /\ visit \in Nat /\ lost \in Nat
  /\ remoteAddr \in Addr \cup {NoAddr} /\ page \in tour.pages \cup {"none"}
PrefabTypes ==
  /\ DOMAIN prefabs = Addr
  /\ \A a \in Addr :
       /\ DOMAIN prefabs[a] \subseteq Prefab
       /\ \A n \in DOMAIN prefabs[a] : prefabs[a][n] \in Stored
  /\ pmap \in Seq(Item) /\ data \subseteq Item
  /\ selectedKey \in Prefab \cup {NoCode} /\ code \in Code \cup {NoCode} /\ synced \in Addr \cup {NoAddr}
  /\ \A s \in syncs : SyncCall(s, visit)
  /\ \A u \in puts : PutCall(u, visit)
  /\ syncs # {} => remoteAddr # NoAddr
BotTypes ==
  /\ DOMAIN files = Addr /\ DOMAIN tasks = Addr
  /\ \A a \in Addr : DOMAIN files[a] \subseteq File /\ tasks[a] \subseteq File
  /\ DOMAIN Bots \subseteq File /\ DOMAIN botLst \subseteq File /\ selectedRows \subseteq File
  /\ source \in Addr \cup {NoAddr}
  /\ \A l \in lists : ListCall(l, visit)
  /\ \A e \in edits : EditCall(e, visit)
StatusTypes ==
  /\ \A t \in timers : t.visit \in 0..visit
  /\ \A c \in polls : PollCall(c, visit)
  /\ running \subseteq File /\ reports \in {{}, Report} /\ row \in reports \cup {NoReport}
SettingsTypes ==
  /\ DOMAIN conf = Addr
  /\ \A a \in Addr : /\ DOMAIN conf[a] = Fields /\ conf[a].size \in Nat
                     /\ conf[a].delay \in Nat \ {0} /\ conf[a].script \in Script
  /\ FormType(form) /\ form.addr \in Addr \cup {NoAddr} /\ address \in Addr \cup {NoAddr}
  /\ \A c \in asks : AskCall(c, visit)

Types == SiteTypes /\ PrefabTypes /\ BotTypes /\ StatusTypes /\ SettingsTypes

-----------------------------------------------------------------------------
(* What each property needs beside itself. *)

\* No page of this visit, and none before, has a list without a table.
TableInv == TableShowsList /\ (DOMAIN Bots = {} => botLst = Nothing)

RowsInv == RowsOfOneListing /\ \A s \in syncs : SyncRows(s)

\* Sync s will offer prefab n with the code c of the server.
Brings(s, n, c) ==
  \/ s.at # "asked" /\ \E e \in s.lst : e.name = n
  \/ \E g \in s.read : g.name = n /\ g.code = c
Has(n, c) == \E k \in DOMAIN pmap : pmap[k].name = n /\ pmap[k].code = c
Coming(n, c) == \E s \in syncs : s.addr = synced /\ Brings(s, n, c)
\* An upload waits for the answer that will start a sync, or a sync for its list, or
\* every prefab is offered or will be.
Uploaded == \E u \in puts : u.op = "upload" /\ u.at = "done"
Asking == \E s \in syncs : s.at = "asked" /\ s.addr = synced
AllComing ==
  \A n \in DOMAIN prefabs[synced] :
    Has(n, prefabs[synced][n].code) \/ Coming(n, prefabs[synced][n].code)
OfferInv == lost = 0 /\ synced # NoAddr => Uploaded \/ Asking \/ AllComing

\* An item has the code of the server, if that has the prefab.
Right(g) == g.name \in DOMAIN prefabs[synced] => g.code = prefabs[synced][g.name].code
\* What the sync begun last has read is right, and so is what it has put in effect.
LastRight ==
  /\ \A i \in DOMAIN pmap : pmap[i].name \notin stale /\ InEffect(i) => Right(pmap[i])
  /\ \A s \in syncs : s.id = newest => s.addr = synced /\ \A g \in s.read : Right(g)
LastInv == IsFiniteSet(syncs) /\ (lost = 0 /\ synced # NoAddr => Uploaded \/ LastRight)

\* A removal or an upload waits for the answer that will start a list, or the lists of this
\* visit, if any is due, are those of the server, and the page has the last one.
Watched == page = "bots" /\ lost = 0 /\ ~overlapped /\ source # NoAddr
EditsHere == \A e \in edits : e.visit = visit
Changed == \E e \in edits : e.at = "done" /\ e.op \in {"remove", "upload"}
ListsTrue ==
  \A l \in lists : l.visit = visit => l.addr = source /\ (l.at = "read" => DOMAIN l.lst = DOMAIN files[source])
ListDue == (\E l \in lists : l.visit = visit) \/ DOMAIN files[source] \in {{}, DOMAIN Bots}
ListInv == Watched => EditsHere /\ (Changed \/ (ListsTrue /\ ListDue))

\* The fields that the answer to a call fills.
Of(op) == CASE op = "system" -> {"size", "delay"} [] op = "script" -> {"script"} [] OTHER -> {}
AsksHere == ~crossed => \A c \in asks : c.visit = visit
Sound == page = "config" /\ lost = 0 /\ ~crossed /\ ~unchecked /\ remoteAddr # NoAddr
\* The calls of a sync will fill what the form does not have yet.
Filling ==
  /\ \A c \in asks : /\ c.op \in {"system", "script"} /\ c.addr = remoteAddr
                     /\ c.at = "done" => \A k \in Fields : c.val[k] = conf[remoteAddr][k]
  /\ \A k \in Fields \ touched : form[k] = conf[remoteAddr][k] \/ \E c \in asks : k \in Of(c.op)
\* One call, which sends what the form has, or checks an address.
Sending ==
  \E c \in asks :
    /\ asks = {c} /\ c.op \in {"health", "submit", "apply"}
    /\ c.op # "health" => c.addr = remoteAddr
    /\ \A k \in Fields \ touched :
         /\ form[k] = conf[remoteAddr][k]
         /\ c.op # "health" /\ c.at = "asked" => c.val[k] = form[k]
FormInv == AsksHere /\ (Sound => Filling \/ Sending)

ChartInv ==
  row # NoReport =>
    /\ page = "report"
    /\ published # <<>> => published[Len(published)].of = row
    /\ published = <<>> => chart.of = row

-----------------------------------------------------------------------------
(* Calls. *)

\* Call c is the one that PostTo makes of b.
Posted(c, b, a, v) ==
  /\ DOMAIN c = DOMAIN b \cup {"id", "addr", "visit", "at"}
  /\ c.addr = a /\ c.visit = v /\ c.at = "asked"
  /\ \A x \in DOMAIN b : c[x] = b[x]

\* A call is made only to a server, and has an id of its own beside its fields.
LEMMA PostFacts ==
  ASSUME NEW a, NEW calls, NEW b, NEW v, DOMAIN b \cap {"id", "addr", "visit", "at"} = {}
  PROVE  \/ a = NoAddr /\ PostTo(a, calls, b, v) = calls
         \/ a # NoAddr /\ \E c : Posted(c, b, a, v) /\ PostTo(a, calls, b, v) = calls \cup {c}
<1>1. CASE a = NoAddr
  BY <1>1 DEF PostTo
<1>2. CASE a # NoAddr
  <2> DEFINE id == FreshId(calls)
  <2> DEFINE c == With(b, [id |-> id, addr |-> a, visit |-> v, at |-> "asked"])
  <2>1. PostTo(a, calls, b, v) = calls \cup {c}
    BY <1>2 DEF PostTo
  <2> HIDE DEF id
  <2>2. Posted(c, b, a, v)
    BY DEF Posted, With
  <2> HIDE DEF c
  <2> QED BY <1>2, <2>1, <2>2
<1> QED BY <1>1, <1>2

SyncFields == {"all", "lst", "read", "dat", "broken", "id", "addr", "visit", "at"}

\* A sync starts with nothing, and not at all without a server.
LEMMA PostSync ==
  ASSUME NEW v, NEW calls
  PROVE  \/ remoteAddr = NoAddr /\ PostTo(remoteAddr, calls, NewSync, v) = calls
         \/ remoteAddr # NoAddr /\ \E s :
              /\ DOMAIN s = SyncFields /\ s.addr = remoteAddr /\ s.visit = v /\ s.at = "asked" /\ ~s.broken
              /\ s.all = {} /\ s.lst = {} /\ s.read = {} /\ s.dat = {}
              /\ PostTo(remoteAddr, calls, NewSync, v) = calls \cup {s}
<1>1. DOMAIN NewSync = {"all", "lst", "read", "dat", "broken"}
  BY DEF NewSync
<1>2. CASE remoteAddr # NoAddr
  <2>1. PICK s : Posted(s, NewSync, remoteAddr, v) /\ PostTo(remoteAddr, calls, NewSync, v) = calls \cup {s}
    BY <1>1, <1>2, PostFacts
  <2>2. s.all = NewSync.all /\ s.lst = NewSync.lst /\ s.read = NewSync.read /\ s.dat = NewSync.dat
        /\ s.broken = NewSync.broken
    BY <2>1, <1>1 DEF Posted
  <2>3. s.addr = remoteAddr /\ s.visit = v /\ s.at = "asked"
        /\ DOMAIN s = SyncFields
    BY <2>1, <1>1 DEF Posted, SyncFields
  <2> QED BY <1>2, <2>1, <2>2, <2>3 DEF NewSync
<1> QED BY <1>1, <1>2, PostFacts

\* A call that changes a prefab.
LEMMA PostPut ==
  ASSUME SiteTypes, NEW op, NEW n, NEW val, NEW calls
  PROVE  LET b == [op |-> op, name |-> n, val |-> val] IN
         \/ remoteAddr = NoAddr /\ PostTo(remoteAddr, calls, b, visit) = calls
         \/ remoteAddr # NoAddr /\ \E u :
              /\ Call(u, {"op", "name", "val"}, visit) /\ u.op = op /\ u.name = n /\ u.val = val
              /\ u.addr = remoteAddr /\ u.visit = visit /\ u.at = "asked"
              /\ PostTo(remoteAddr, calls, b, visit) = calls \cup {u}
<1> DEFINE b == [op |-> op, name |-> n, val |-> val]
<1>1. DOMAIN b = {"op", "name", "val"} /\ DOMAIN b \cap {"id", "addr", "visit", "at"} = {}
  OBVIOUS
<1> HIDE DEF b
<1>2. CASE remoteAddr # NoAddr
  <2>1. PICK u : Posted(u, b, remoteAddr, visit) /\ PostTo(remoteAddr, calls, b, visit) = calls \cup {u}
    BY <1>1, <1>2, PostFacts
  <2>2. u.op = op /\ u.name = n /\ u.val = val
    BY <2>1, <1>1 DEF Posted, b
  <2>3. Call(u, {"op", "name", "val"}, visit) /\ u.addr = remoteAddr /\ u.visit = visit /\ u.at = "asked"
    BY <2>1, <1>1, <1>2 DEF Posted, Call, SiteTypes
  <2> QED BY <1>2, <2>1, <2>2, <2>3 DEF b
<1> QED BY <1>1, <1>2, PostFacts DEF b

\* A call for the list of the files.
LEMMA PostList ==
  ASSUME remoteAddr \in Addr \cup {NoAddr}, NEW w \in Nat, NEW S, NEW v \in 0..w, NEW calls
  PROVE  LET b == [tags |-> S, lst |-> Nothing] IN
         \/ remoteAddr = NoAddr /\ PostTo(remoteAddr, calls, b, v) = calls
         \/ remoteAddr # NoAddr /\ \E l :
              /\ Call(l, {"tags", "lst"}, w) /\ l.tags = S /\ l.lst = Nothing
              /\ l.addr = remoteAddr /\ l.visit = v /\ l.at = "asked"
              /\ PostTo(remoteAddr, calls, b, v) = calls \cup {l}
<1> DEFINE b == [tags |-> S, lst |-> Nothing]
<1>1. DOMAIN b = {"tags", "lst"} /\ DOMAIN b \cap {"id", "addr", "visit", "at"} = {}
  OBVIOUS
<1> HIDE DEF b
<1>2. CASE remoteAddr # NoAddr
  <2>1. PICK l : Posted(l, b, remoteAddr, v) /\ PostTo(remoteAddr, calls, b, v) = calls \cup {l}
    BY <1>1, <1>2, PostFacts
  <2>2. l.tags = S /\ l.lst = Nothing
    BY <2>1, <1>1 DEF Posted, b
  <2>3. Call(l, {"tags", "lst"}, w) /\ l.addr = remoteAddr /\ l.visit = v /\ l.at = "asked"
    BY <2>1, <1>1, <1>2 DEF Posted, Call
  <2> QED BY <1>2, <2>1, <2>2, <2>3 DEF b
<1> QED BY <1>1, <1>2, PostFacts DEF b

\* A call that changes or runs a file.
LEMMA PostEdit ==
  ASSUME SiteTypes, NEW a \in Addr \cup {NoAddr}, NEW op, NEW n, NEW val
  PROVE  \/ a = NoAddr /\ EditAt(a, op, n, val) = edits
         \/ a # NoAddr /\ \E e :
              /\ Call(e, {"op", "name", "val", "tags"}, visit) /\ e.op = op /\ e.name = n /\ e.val = val
              /\ e.addr = a /\ e.visit = visit /\ e.at = "asked"
              /\ EditAt(a, op, n, val) = edits \cup {e}
<1> DEFINE b == [op |-> op, name |-> n, val |-> val, tags |-> currentSelectedTags]
<1>1. /\ DOMAIN b = {"op", "name", "val", "tags"} /\ DOMAIN b \cap {"id", "addr", "visit", "at"} = {}
      /\ EditAt(a, op, n, val) = PostTo(a, edits, b, visit)
  BY DEF EditAt
<1> HIDE DEF b
<1>2. CASE a # NoAddr
  <2>1. PICK e : Posted(e, b, a, visit) /\ PostTo(a, edits, b, visit) = edits \cup {e}
    BY <1>1, <1>2, PostFacts
  <2>2. e.op = op /\ e.name = n /\ e.val = val
    BY <2>1, <1>1 DEF Posted, b
  <2>3. Call(e, {"op", "name", "val", "tags"}, visit) /\ e.addr = a /\ e.visit = visit /\ e.at = "asked"
    BY <2>1, <1>1, <1>2 DEF Posted, Call, SiteTypes
  <2> QED BY <1>1, <1>2, <2>1, <2>2, <2>3 DEF b
<1> QED BY <1>1, <1>2, PostFacts DEF b


-----------------------------------------------------------------------------
(* The page, the visit and the address. *)

\* A step that stays on the page and leaves the address.
Kept == page' = page /\ visit' = visit /\ remoteAddr' = remoteAddr /\ lost' \in {lost, lost + 1}

\* No step but that of the settings or an opening moves the page or its address.
LEMMA StillKept == Still \/ Click \/ Loss => Kept
BY DEF Still, Click, Loss, Kept, site

\* The steps of the prefabs page leave the page, the visit and the address.
LEMMA PrefabKept == PrefabNext => Kept
BY StillKept DEF PrefabNext, ReadList, Listed, ReadCode, Got, LoseSync, SelectRow, handleSearch,
  Add, updateTags, EditCode, onHandleUpdate, onHandleRemove, FilterPane, Serve, Answered, LosePut

\* So do those of the bots page ...
LEMMA BotKept == BotNext => Kept
BY StillKept DEF BotNext, ReadFiles, Refreshed, LoseList, handleSelectChange, updateBotTags, SelectRows,
  EnterRuns, UploadFile, handleBotRun, handleBotDelete, ServeEdit, EditAnswered, LoseEdit

\* ... and those of the status pages.
LEMMA StatusKept == StatusNext => Kept
BY StillKept DEF StatusNext, Tick, Polled, PollFails, PollAnswered, Crash, SelectReport, tableClick, Drawn

\* Only the settings change the address, to one the user entered.
LEMMA SettingsKept ==
  ASSUME SettingsTypes, SettingsNext
  PROVE  /\ page' = page /\ visit' = visit /\ lost' \in {lost, lost + 1}
         /\ remoteAddr' = remoteAddr \/ remoteAddr' \in Addr
<1>1. CASE \/ \E a \in Addr : TypeAddr(a) \/ modalConfigChange(a)
           \/ \E k \in {"size", "delay"} : Change(k, 2)
           \/ \E s \in Script : Change("script", s)
           \/ onApplyDriveAddr \/ onClickSubmit \/ onApplyCode \/ modalHandleCancel
  BY <1>1, StillKept DEF Kept, TypeAddr, Change, onApplyDriveAddr, onClickSubmit, onApplyCode,
    modalConfigChange, modalHandleCancel
<1>2. CASE modalHandleOk
  BY <1>2 DEF modalHandleOk, SettingsTypes
<1>3. ASSUME NEW c \in asks, ServeAsk(c) \/ LoseAsk(c)
      PROVE  Kept
  BY <1>3, StillKept DEF ServeAsk, LoseAsk
<1>4. ASSUME NEW c \in asks, AskAnswered(c)
      PROVE  /\ page' = page /\ visit' = visit /\ lost' = lost
             /\ remoteAddr' = remoteAddr \/ remoteAddr' \in Addr
  <2>1. c.to \in Addr
    BY DEF SettingsTypes, AskCall
  <2> QED BY <1>4, <2>1 DEF AskAnswered, Healthy
<1> QED BY <1>1, <1>2, <1>3, <1>4 DEF SettingsNext, Kept

-----------------------------------------------------------------------------
(* The types of the prefabs and of their calls. *)

\* The fields of a sync that goes on.
LEMMA SyncExcept ==
  ASSUME NEW s, DOMAIN s = SyncFields, NEW x, NEW y
  PROVE  /\ LET t == [s EXCEPT !.at = "listed", !.lst = x, !.all = y]
            IN  /\ DOMAIN t = SyncFields /\ t.at = "listed" /\ t.lst = x /\ t.all = y /\ t.read = s.read
                /\ t.dat = s.dat /\ t.broken = s.broken /\ t.addr = s.addr /\ t.visit = s.visit /\ t.id = s.id
         /\ LET t == [s EXCEPT !.at = "getting", !.addr = x]
            IN  /\ DOMAIN t = SyncFields /\ t.at = "getting" /\ t.lst = s.lst /\ t.all = s.all /\ t.read = s.read
                /\ t.dat = s.dat /\ t.broken = s.broken /\ t.addr = x /\ t.visit = s.visit /\ t.id = s.id
         /\ LET t == [s EXCEPT !.lst = x, !.read = y]
            IN  /\ DOMAIN t = SyncFields /\ t.at = s.at /\ t.lst = x /\ t.all = s.all /\ t.read = y
                /\ t.dat = s.dat /\ t.broken = s.broken /\ t.addr = s.addr /\ t.visit = s.visit /\ t.id = s.id
         /\ LET t == [s EXCEPT !.read = x, !.dat = y]
            IN  /\ DOMAIN t = SyncFields /\ t.at = s.at /\ t.lst = s.lst /\ t.all = s.all /\ t.read = x
                /\ t.dat = y /\ t.broken = s.broken /\ t.addr = s.addr /\ t.visit = s.visit /\ t.id = s.id
         /\ LET t == [s EXCEPT !.lst = x, !.broken = TRUE]
            IN  /\ DOMAIN t = SyncFields /\ t.at = s.at /\ t.lst = x /\ t.all = s.all /\ t.read = s.read
                /\ t.dat = s.dat /\ t.broken /\ t.addr = s.addr /\ t.visit = s.visit
BY DEF SyncFields

\* What a step leaves of the prefabs' state when it does not touch the set T.
OtherPrefabs ==
  /\ DOMAIN prefabs = Addr
  /\ \A a \in Addr :
       /\ DOMAIN prefabs[a] \subseteq Prefab
       /\ \A n \in DOMAIN prefabs[a] : prefabs[a][n] \in Stored
  /\ pmap \in Seq(Item) /\ data \subseteq Item
  /\ selectedKey \in Prefab \cup {NoCode} /\ code \in Code \cup {NoCode} /\ synced \in Addr \cup {NoAddr}
SyncTypes == (\A s \in syncs : SyncCall(s, visit)) /\ (syncs # {} => remoteAddr # NoAddr)
PutTypes == \A u \in puts : PutCall(u, visit)

\* The types of the prefabs, one part per kind of call.
LEMMA PrefabParts == PrefabTypes <=> OtherPrefabs /\ SyncTypes /\ PutTypes
BY DEF PrefabTypes, OtherPrefabs, SyncTypes, PutTypes

\* The answer to a list has a row for each prefab of the server.
LEMMA RowsType ==
  ASSUME OtherPrefabs, NEW a \in Addr
  PROVE  Rows(prefabs[a]) \subseteq Row
BY DEF OtherPrefabs, Rows, Row, Stored

\* A sync that runs is well typed.
LEMMA SyncDomain ==
  ASSUME PrefabTypes, NEW s \in syncs
  PROVE  SyncCall(s, visit) /\ DOMAIN s = SyncFields /\ s.addr \in Addr /\ s.visit \in 0..visit
BY DEF PrefabTypes, SyncCall, Call, SyncFields

\* What each step of a sync makes of it.
LEMMA ReadListIs ==
  ASSUME PrefabTypes, NEW s \in syncs, ReadList(s)
  PROVE  \E t : /\ DOMAIN t = SyncFields /\ t.at = "listed" /\ t.lst = Rows(prefabs[s.addr])
                /\ t.all = DOMAIN prefabs[s.addr] /\ t.read = s.read /\ t.dat = s.dat
                /\ t.broken = s.broken /\ t.addr = s.addr /\ t.visit = s.visit /\ t.id = s.id
                /\ syncs' = (syncs \ {s}) \cup {t}
<1> DEFINE t == [s EXCEPT !.at = "listed", !.lst = Rows(prefabs[s.addr]), !.all = DOMAIN prefabs[s.addr]]
<1>1. syncs' = (syncs \ {s}) \cup {t}
  BY DEF ReadList, Swap
<1>2. /\ DOMAIN t = SyncFields /\ t.at = "listed" /\ t.lst = Rows(prefabs[s.addr])
      /\ t.all = DOMAIN prefabs[s.addr] /\ t.read = s.read /\ t.dat = s.dat
      /\ t.broken = s.broken /\ t.addr = s.addr /\ t.visit = s.visit /\ t.id = s.id
  BY SyncDomain, SyncExcept
<1> HIDE DEF t
<1> QED BY <1>1, <1>2

\* The list is here: the sync asks for the codes, of the address of now.
LEMMA ListedIs ==
  ASSUME PrefabTypes, NEW s \in syncs, Listed(s)
  PROVE  \E t : /\ DOMAIN t = SyncFields /\ t.at = "getting" /\ t.lst = s.lst /\ t.all = s.all
                /\ t.read = s.read /\ t.dat = s.dat /\ t.broken = s.broken
                /\ t.addr = remoteAddr /\ t.visit = s.visit /\ t.id = s.id
                /\ syncs' = (syncs \ {s}) \cup Left(t)
<1> DEFINE t == [s EXCEPT !.at = "getting", !.addr = remoteAddr]
<1>1. syncs' = (syncs \ {s}) \cup Left(t)
  BY DEF Listed
<1>2. /\ DOMAIN t = SyncFields /\ t.at = "getting" /\ t.lst = s.lst /\ t.all = s.all
      /\ t.read = s.read /\ t.dat = s.dat /\ t.broken = s.broken
      /\ t.addr = remoteAddr /\ t.visit = s.visit /\ t.id = s.id
  BY SyncDomain, SyncExcept
<1> HIDE DEF t
<1> QED BY <1>1, <1>2

\* The server reads one code, the one it has now if it still has the prefab.
LEMMA ReadCodeIs ==
  ASSUME PrefabTypes, NEW s \in syncs, NEW e \in s.lst, ReadCode(s, e)
  PROVE  \E t, g :
           /\ g \in Item /\ g.name = e.name
           /\ e.name \in DOMAIN prefabs[s.addr] => g.code = prefabs[s.addr][e.name].code
           /\ DOMAIN t = SyncFields /\ t.at = "getting" /\ t.lst = s.lst \ {e} /\ t.all = s.all
           /\ t.read = s.read \cup {g} /\ t.dat = s.dat /\ t.broken = s.broken
           /\ t.addr = s.addr /\ t.visit = s.visit /\ t.id = s.id
           /\ syncs' = (syncs \ {s}) \cup {t}
<1> DEFINE now == prefabs[s.addr]
           c == IF e.name \in DOMAIN now THEN now[e.name].code ELSE NoCode
           g == [name |-> e.name, tags |-> e.tags, code |-> c]
           t == [s EXCEPT !.lst = s.lst \ {e}, !.read = s.read \cup {g}]
<1>1. syncs' = (syncs \ {s}) \cup {t} /\ s.at = "getting"
  BY DEF ReadCode, Swap
<1>2. e \in Row /\ s.addr \in Addr
  BY SyncDomain DEF SyncCall
<1>3. c \in Code \cup {NoCode}
  BY <1>2, PrefabParts DEF OtherPrefabs, Stored
<1>4. e.name \in DOMAIN now => c = now[e.name].code
  OBVIOUS
<1> HIDE DEF c
<1>5. g \in Item /\ g.name = e.name /\ g.code = c
  BY <1>2, <1>3 DEF Row, Item
<1> HIDE DEF g
<1>6. /\ DOMAIN t = SyncFields /\ t.at = s.at /\ t.lst = s.lst \ {e} /\ t.all = s.all
      /\ t.read = s.read \cup {g} /\ t.dat = s.dat /\ t.broken = s.broken
      /\ t.addr = s.addr /\ t.visit = s.visit /\ t.id = s.id
  BY SyncDomain, SyncExcept
<1> HIDE DEF t
<1> QED BY <1>1, <1>4, <1>5, <1>6

\* A code is here; the last one hands everything to the page of its visit.
LEMMA GotIs ==
  ASSUME PrefabTypes, NEW s \in syncs, NEW g \in s.read, Got(s, g)
  PROVE  \E t : /\ DOMAIN t = SyncFields /\ t.at = "getting" /\ t.lst = s.lst /\ t.all = s.all
                /\ t.read = s.read \ {g} /\ t.dat = s.dat \cup {g} /\ t.broken = s.broken
                /\ t.addr = s.addr /\ t.visit = s.visit /\ t.id = s.id
                /\ syncs' = (syncs \ {s}) \cup Left(t)
                /\ IF Left(t) = {} /\ ~s.broken /\ s.visit = visit
                   THEN data' = t.dat /\ listing' = s.all
                   ELSE UNCHANGED <<data, listing>>
<1> DEFINE t == [s EXCEPT !.read = s.read \ {g}, !.dat = s.dat \cup {g}]
<1>1. /\ s.at = "getting" /\ syncs' = (syncs \ {s}) \cup Left(t)
      /\ IF Left(t) = {} /\ ~s.broken /\ s.visit = visit
         THEN data' = t.dat /\ listing' = s.all
         ELSE UNCHANGED <<data, listing>>
  BY DEF Got
<1>2. /\ DOMAIN t = SyncFields /\ t.at = s.at /\ t.lst = s.lst /\ t.all = s.all
      /\ t.read = s.read \ {g} /\ t.dat = s.dat \cup {g} /\ t.broken = s.broken
      /\ t.addr = s.addr /\ t.visit = s.visit /\ t.id = s.id
  BY SyncDomain, SyncExcept
<1> HIDE DEF t
<1> QED BY <1>1, <1>2

\* A list that is lost ends its sync, a code that is lost breaks it.
LEMMA LoseSyncIs ==
  ASSUME PrefabTypes, NEW s \in syncs, LoseSync(s)
  PROVE  \/ s.at # "getting" /\ syncs' = syncs \ {s}
         \/ s.at = "getting" /\ \E e \in s.lst : \E t :
              /\ DOMAIN t = SyncFields /\ t.at = "getting" /\ t.lst = s.lst \ {e} /\ t.all = s.all
              /\ t.read = s.read /\ t.dat = s.dat /\ t.broken
              /\ t.addr = s.addr /\ t.visit = s.visit
              /\ syncs' = (syncs \ {s}) \cup Left(t)
<1>1. CASE s.at # "getting"
  BY <1>1 DEF LoseSync
<1>2. CASE s.at = "getting"
  <2>1. PICK e \in s.lst : syncs' = (syncs \ {s}) \cup Left([s EXCEPT !.lst = s.lst \ {e}, !.broken = TRUE])
    BY <1>2 DEF LoseSync
  <2> DEFINE t == [s EXCEPT !.lst = s.lst \ {e}, !.broken = TRUE]
  <2>2. /\ DOMAIN t = SyncFields /\ t.at = s.at /\ t.lst = s.lst \ {e} /\ t.all = s.all
        /\ t.read = s.read /\ t.dat = s.dat /\ t.broken
        /\ t.addr = s.addr /\ t.visit = s.visit
    BY SyncDomain, SyncExcept
  <2>3. syncs' = (syncs \ {s}) \cup Left(t)
    BY <2>1
  <2> HIDE DEF t
  <2> QED BY <1>2, <2>2, <2>3
<1> QED BY <1>1, <1>2

\* A sync empties the slice and asks the address of now for the list.
LEMMA SyncConfigIs ==
  ASSUME NEW v, syncConfig(v)
  PROVE  /\ pmap' = <<>> /\ synced' = remoteAddr /\ newest' = FreshId(syncs) /\ stale' = {}
         /\ \/ remoteAddr = NoAddr /\ syncs' = syncs
            \/ remoteAddr # NoAddr /\ \E s :
                 /\ DOMAIN s = SyncFields /\ s.addr = remoteAddr /\ s.visit = v /\ s.at = "asked"
                 /\ ~s.broken /\ s.all = {} /\ s.lst = {} /\ s.read = {} /\ s.dat = {}
                 /\ syncs' = syncs \cup {s}
<1>1. pmap' = <<>> /\ synced' = remoteAddr /\ syncs' = PostTo(remoteAddr, syncs, NewSync, v)
      /\ newest' = FreshId(syncs) /\ stale' = {}
  BY DEF syncConfig
<1>2. CASE remoteAddr # NoAddr
  <2>1. PICK s : /\ DOMAIN s = SyncFields /\ s.addr = remoteAddr /\ s.visit = v /\ s.at = "asked"
                 /\ ~s.broken /\ s.all = {} /\ s.lst = {} /\ s.read = {} /\ s.dat = {}
                 /\ PostTo(remoteAddr, syncs, NewSync, v) = syncs \cup {s}
    BY SMTT(20), <1>2, PostSync
  <2> QED BY <1>1, <1>2, <2>1
<1> QED BY <1>1, <1>2, PostSync

\* A step of a sync replaces it by one of the same visit with rows and items, or ends it.
LEMMA SyncReplaced ==
  ASSUME SiteTypes, PrefabTypes, Kept, NEW s \in syncs, NEW t, NEW T \in SUBSET {t},
         syncs' = (syncs \ {s}) \cup T,
         DOMAIN t = SyncFields, t.addr \in Addr, t.visit = s.visit,
         t.lst \subseteq Row, t.read \subseteq Item, t.dat \subseteq Item
  PROVE  SyncTypes'
<1>1. SyncCall(t, visit)
  BY SyncDomain DEF SyncCall, Call, SyncFields
<1> QED BY <1>1 DEF SyncTypes, PrefabTypes, Kept

\* A sync goes on or is over.
LEMMA LeftIn == \A t : Left(t) \in SUBSET {t}
BY DEF Left

\* Every step of a sync keeps the types.
LEMMA SyncStepTypes ==
  ASSUME SiteTypes, PrefabTypes, NEW s \in syncs,
         \/ ReadList(s) \/ Listed(s) \/ LoseSync(s)
         \/ (\E e \in s.lst : ReadCode(s, e)) \/ (\E g \in s.read : Got(s, g))
  PROVE  PrefabTypes'
<1>0. Kept
  BY PrefabKept DEF PrefabNext
<1>1. /\ s.lst \subseteq Row /\ s.read \subseteq Item /\ s.dat \subseteq Item
      /\ s.addr \in Addr /\ remoteAddr \in Addr
  BY SyncDomain DEF SyncCall, PrefabTypes, SiteTypes
<1>2. OtherPrefabs /\ PutTypes
  BY PrefabParts
<1>3. PutTypes'
  BY <1>0, <1>2 DEF PutTypes, Kept, ReadList, Listed, LoseSync, ReadCode, Got
<1>4. CASE ReadList(s)
  <2>1. PICK t : /\ DOMAIN t = SyncFields /\ t.lst = Rows(prefabs[s.addr]) /\ t.read = s.read /\ t.dat = s.dat
                 /\ t.addr = s.addr /\ t.visit = s.visit /\ syncs' = (syncs \ {s}) \cup {t}
    BY <1>4, ReadListIs
  <2>2. t.lst \subseteq Row
    BY <1>1, <1>2, <2>1, RowsType
  <2>3. SyncTypes'
    BY <1>0, <1>1, <2>1, <2>2, SyncReplaced
  <2>4. OtherPrefabs'
    BY <1>2, <1>4 DEF ReadList, OtherPrefabs, prefabPage
  <2> QED BY <1>3, <2>3, <2>4, PrefabParts, PTL
<1>5. CASE Listed(s)
  <2>1. PICK t : /\ DOMAIN t = SyncFields /\ t.lst = s.lst /\ t.read = s.read /\ t.dat = s.dat
                 /\ t.addr = remoteAddr /\ t.visit = s.visit /\ syncs' = (syncs \ {s}) \cup Left(t)
    BY <1>5, ListedIs
  <2>2. SyncTypes'
    BY <1>0, <1>1, <2>1, LeftIn, SyncReplaced
  <2>3. OtherPrefabs'
    BY <1>2, <1>5 DEF Listed, OtherPrefabs, prefabPage
  <2> QED BY <1>3, <2>2, <2>3, PrefabParts, PTL
<1>6. ASSUME NEW e \in s.lst, ReadCode(s, e)
      PROVE  PrefabTypes'
  <2>1. PICK t, g : /\ g \in Item /\ DOMAIN t = SyncFields /\ t.lst = s.lst \ {e}
                    /\ t.read = s.read \cup {g} /\ t.dat = s.dat
                    /\ t.addr = s.addr /\ t.visit = s.visit /\ syncs' = (syncs \ {s}) \cup {t}
    BY <1>6, ReadCodeIs
  <2>2. t.lst \subseteq Row /\ t.read \subseteq Item
    BY <1>1, <2>1
  <2>3. SyncTypes'
    BY <1>0, <1>1, <2>1, <2>2, SyncReplaced
  <2>4. OtherPrefabs'
    BY <1>2, <1>6 DEF ReadCode, OtherPrefabs, prefabPage
  <2> QED BY <1>3, <2>3, <2>4, PrefabParts, PTL
<1>7. ASSUME NEW g \in s.read, Got(s, g)
      PROVE  PrefabTypes'
  <2>1. PICK t : /\ DOMAIN t = SyncFields /\ t.lst = s.lst /\ t.read = s.read \ {g}
                 /\ t.dat = s.dat \cup {g} /\ t.addr = s.addr /\ t.visit = s.visit
                 /\ syncs' = (syncs \ {s}) \cup Left(t) /\ data' \in {t.dat, data}
    BY <1>7, GotIs
  <2>2. t.read \subseteq Item /\ t.dat \subseteq Item
    BY <1>1, <2>1
  <2>3. SyncTypes'
    BY <1>0, <1>1, <2>1, <2>2, LeftIn, SyncReplaced
  <2>4. g \in Item /\ data \subseteq Item /\ pmap \in Seq(Item)
    BY <1>1, <1>2 DEF OtherPrefabs
  <2>5. data' \subseteq Item /\ pmap' \in Seq(Item)
    <3>1. data' \subseteq Item
      BY <2>1, <2>2, <2>4
    <3>2. pmap' = Append(pmap, g)
      BY <1>7 DEF Got, Adds
    <3>3. Append(pmap, g) \in Seq(Item)
      BY <2>4
    <3> QED BY <3>1, <3>2, <3>3
  <2>6. OtherPrefabs'
    BY <1>2, <1>7, <2>5 DEF Got, OtherPrefabs
  <2> QED BY <1>3, <2>3, <2>6, PrefabParts, PTL
<1>8. CASE LoseSync(s)
  <2>1. OtherPrefabs'
    BY <1>2, <1>8 DEF LoseSync, OtherPrefabs, prefabPage
  <2>2. CASE syncs' = syncs \ {s}
    <3>1. SyncTypes'
      BY <1>0, <2>2, PrefabParts DEF SyncTypes, Kept
    <3> QED BY <1>3, <2>1, <3>1, PrefabParts, PTL
  <2>3. CASE syncs' # syncs \ {s}
    <3>0. PICK e \in s.lst : \E t :
           /\ DOMAIN t = SyncFields /\ t.lst = s.lst \ {e}
           /\ t.read = s.read /\ t.dat = s.dat
           /\ t.addr = s.addr /\ t.visit = s.visit /\ syncs' = (syncs \ {s}) \cup Left(t)
      BY <1>8, <2>3, LoseSyncIs
    <3>1. PICK t :
           /\ DOMAIN t = SyncFields /\ t.lst = s.lst \ {e}
           /\ t.read = s.read /\ t.dat = s.dat
           /\ t.addr = s.addr /\ t.visit = s.visit /\ syncs' = (syncs \ {s}) \cup Left(t)
      BY <3>0
    <3>2. t.lst \subseteq Row
      BY <1>1, <3>1
    <3>3. SyncTypes'
      BY <1>0, <1>1, <3>1, <3>2, LeftIn, SyncReplaced
    <3> QED BY <1>3, <2>1, <3>3, PrefabParts, PTL
  <2> QED BY <2>2, <2>3
<1> QED BY <1>4, <1>5, <1>6, <1>7, <1>8

\* A new call that changes a prefab is well typed.
LEMMA PutToTypes ==
  ASSUME SiteTypes, PutTypes, NEW op \in {"upload", "remove", "tags"}, NEW n \in Prefab, NEW val,
         op = "upload" => val \in Code \cup {NoCode}, op = "tags" => val \subseteq Tag,
         PutTo(op, n, val), visit' = visit
  PROVE  PutTypes'
<1>1. CASE remoteAddr # NoAddr
  <2>1. PICK u : /\ Call(u, {"op", "name", "val"}, visit) /\ u.op = op /\ u.name = n /\ u.val = val
                 /\ PostTo(remoteAddr, puts, [op |-> op, name |-> n, val |-> val], visit) = puts \cup {u}
    BY <1>1, PostPut
  <2>2. puts' = puts \cup {u} /\ PutCall(u, visit)
    BY <2>1 DEF PutTo, PutCall
  <2> QED BY <2>2 DEF PutTypes
<1>2. CASE remoteAddr = NoAddr
  BY <1>2 DEF PutTo, PostTo, PutTypes
<1> QED BY <1>1, <1>2

\* The clicks of the prefabs page keep the types.
LEMMA ClickTypes ==
  ASSUME SiteTypes, PrefabTypes,
         \/ \E r \in data : SelectRow(r)
         \/ \E n \in Prefab : handleSearch(n) \/ Add(n) \/ \E tags \in SUBSET Tag : updateTags(n, tags)
         \/ \E c \in Code : EditCode(c)
         \/ onHandleUpdate \/ onHandleRemove \/ \E S \in SUBSET Tag : FilterPane(S)
  PROVE  PrefabTypes'
<1>0. Kept
  BY PrefabKept DEF PrefabNext
<1>1. OtherPrefabs /\ SyncTypes /\ PutTypes
  BY PrefabParts
<1>2. SyncTypes'
  BY <1>0, <1>1 DEF SyncTypes, Kept, SelectRow, handleSearch, Add, updateTags, EditCode, onHandleUpdate,
    onHandleRemove, FilterPane
<1>3. ASSUME \/ \E r \in data : SelectRow(r)
             \/ \E n \in Prefab : handleSearch(n)
             \/ \E c \in Code : EditCode(c)
             \/ \E S \in SUBSET Tag : FilterPane(S)
      PROVE  PutTypes' /\ OtherPrefabs'
  <2>1. PutTypes'
    BY <1>0, <1>1, <1>3 DEF PutTypes, Kept, SelectRow, handleSearch, EditCode, FilterPane
  <2>2. \A r \in data : r.name \in Prefab /\ r.code \in Code \cup {NoCode}
    BY <1>1 DEF OtherPrefabs, Item
  <2>3. UNCHANGED <<prefabs, pmap, data, synced>>
    BY <1>3 DEF SelectRow, handleSearch, EditCode, FilterPane, prefabPage
  <2>4. selectedKey' \in Prefab \cup {NoCode} /\ code' \in Code \cup {NoCode}
    BY <1>1, <1>3, <2>2 DEF OtherPrefabs, SelectRow, handleSearch, EditCode, FilterPane, prefabPage
  <2> QED BY <1>1, <2>1, <2>3, <2>4 DEF OtherPrefabs
<1>4. ASSUME onHandleUpdate \/ onHandleRemove \/ \E n \in Prefab : Add(n)
      PROVE  PutTypes' /\ OtherPrefabs'
  <2>1. OtherPrefabs'
    BY <1>1, <1>4 DEF OtherPrefabs, onHandleUpdate, onHandleRemove, Add, prefabPage
  <2>2. selectedKey \in Prefab \cup {NoCode} /\ code \in Code \cup {NoCode}
    BY <1>1 DEF OtherPrefabs
  <2>3. \E op \in {"upload", "remove"}, n \in Prefab, val \in Code \cup {NoCode} : PutTo(op, n, val)
    BY <1>4, <2>2 DEF onHandleUpdate, onHandleRemove, Add
  <2> QED BY <1>0, <1>1, <2>1, <2>3, PutToTypes DEF Kept
<1>5. ASSUME NEW n \in Prefab, NEW tags \in SUBSET Tag, updateTags(n, tags)
      PROVE  PutTypes' /\ OtherPrefabs'
  <2>1. PutTypes'
    BY <1>0, <1>1, <1>5, PutToTypes DEF updateTags, Kept
  <2>2. ASSUME NEW r \in Item PROVE [r EXCEPT !.tags = tags] \in Item
    BY DEF Item
  <2>3. data' \subseteq Item
    BY <1>1, <1>5, <2>2 DEF updateTags, OtherPrefabs
  <2> QED BY <1>1, <1>5, <2>1, <2>3 DEF updateTags, OtherPrefabs
<1>6. PutTypes' /\ OtherPrefabs'
  BY <1>3, <1>4, <1>5
<1> QED BY <1>2, <1>6, PrefabParts, PTL

\* The fields of a call that the server has served.
LEMMA PutExcept ==
  ASSUME NEW u, NEW v, PutCall(u, v)
  PROVE  LET w == [u EXCEPT !.at = "done"]
         IN  /\ PutCall(w, v) /\ w.at = "done" /\ w.op = u.op /\ w.name = u.name /\ w.val = u.val
             /\ w.addr = u.addr /\ w.visit = u.visit
BY DEF PutCall, Call

\* What a table has after an entry is put or dropped.
LEMMA PutFacts ==
  ASSUME NEW f, NEW n, NEW v
  PROVE  /\ DOMAIN Put(f, n, v) = DOMAIN f \cup {n} /\ Put(f, n, v)[n] = v
         /\ \A m \in DOMAIN f : m # n => Put(f, n, v)[m] = f[m]
         /\ DOMAIN Drop(f, n) = DOMAIN f \ {n}
         /\ \A m \in DOMAIN Drop(f, n) : Drop(f, n)[m] = f[m]
BY DEF Put, Drop

\* What the server makes of its prefabs.
GoodTable(g, f, keeps) ==
  /\ DOMAIN g \subseteq Prefab /\ \A n \in DOMAIN g : g[n] \in Stored
  /\ keeps => DOMAIN g \subseteq DOMAIN f /\ \A n \in DOMAIN g : g[n].code = f[n].code

\* An entry put keeps a table of prefabs one.
LEMMA GoodPut ==
  ASSUME NEW f, GoodTable(f, f, TRUE), NEW n \in Prefab, NEW w \in Stored, NEW keeps \in BOOLEAN,
         keeps => n \in DOMAIN f /\ w.code = f[n].code
  PROVE  GoodTable(Put(f, n, w), f, keeps)
<1> DEFINE g == Put(f, n, w)
<1>1. DOMAIN g = DOMAIN f \cup {n} /\ g[n] = w /\ \A m \in DOMAIN f : m # n => g[m] = f[m]
  BY DEF Put
<1> HIDE DEF g
<1>2. GoodTable(g, f, keeps)
  BY <1>1 DEF GoodTable
<1> QED BY <1>2 DEF g

\* So does every change the server makes; only an upload changes a code.
LEMMA PrefabTableFacts ==
  ASSUME NEW f, NEW u, NEW v, PutCall(u, v), GoodTable(f, f, TRUE)
  PROVE  GoodTable(PrefabTable(f, u), f, u.op # "upload")
<1>0. u.op \in {"upload", "remove", "tags"} /\ u.name \in Prefab
  BY DEF PutCall
<1>1. CASE u.op = "remove"
  <2> DEFINE g == Drop(f, u.name)
  <2>1. DOMAIN g = DOMAIN f \ {u.name} /\ \A m \in DOMAIN g : g[m] = f[m]
    BY PutFacts
  <2> HIDE DEF g
  <2>2. GoodTable(g, f, TRUE)
    BY <2>1 DEF GoodTable
  <2>3. PrefabTable(f, u) = g
    BY <1>1 DEF PrefabTable, g
  <2> QED BY <1>1, <2>2, <2>3
<1>2. CASE u.op = "upload"
  <2> DEFINE w == [tags |-> IF u.name \in DOMAIN f THEN f[u.name].tags ELSE {}, code |-> u.val]
  <2>1. w \in Stored
    BY <1>2 DEF Stored, PutCall, GoodTable
  <2>2. PrefabTable(f, u) = Put(f, u.name, w)
    BY <1>2 DEF PrefabTable
  <2> HIDE DEF w
  <2> QED BY <1>0, <1>2, <2>1, <2>2, GoodPut
<1>3. CASE u.op = "tags" /\ u.name \in DOMAIN f
  <2> DEFINE w == [f[u.name] EXCEPT !.tags = u.val]
  <2>1. w \in Stored /\ w.code = f[u.name].code
    BY <1>3 DEF Stored, PutCall, GoodTable
  <2>2. PrefabTable(f, u) = Put(f, u.name, w)
    BY <1>3 DEF PrefabTable
  <2> HIDE DEF w
  <2> QED BY <1>0, <1>3, <2>1, <2>2, GoodPut
<1>4. CASE u.op = "tags" /\ u.name \notin DOMAIN f
  BY <1>4 DEF PrefabTable, GoodTable
<1> QED BY <1>0, <1>1, <1>2, <1>3, <1>4

\* A new sync is well typed.
LEMMA SyncConfigTypes ==
  ASSUME SiteTypes, PrefabTypes, NEW v \in 0..visit', syncConfig(v), visit' \in Nat, visit <= visit',
         remoteAddr' = remoteAddr
  PROVE  SyncTypes' /\ pmap' \in Seq(Item) /\ synced' \in Addr \cup {NoAddr}
<1>1. pmap' = <<>> /\ synced' = remoteAddr
  BY SyncConfigIs
<1>2. \A s \in syncs : SyncCall(s, visit')
  BY DEF PrefabTypes, SyncCall, Call, SiteTypes
<1>3. SyncTypes'
  <2>1. CASE remoteAddr = NoAddr
    <3>1. syncs' = syncs
      BY <2>1, SyncConfigIs
    <3> QED BY <1>2, <3>1 DEF SyncTypes, PrefabTypes
  <2>2. CASE remoteAddr # NoAddr
    <3>1. PICK s : /\ DOMAIN s = SyncFields /\ s.addr = remoteAddr /\ s.visit = v
                   /\ s.lst = {} /\ s.read = {} /\ s.dat = {} /\ syncs' = syncs \cup {s}
      BY <2>2, SyncConfigIs
    <3>2. SyncCall(s, visit')
      BY <2>2, <3>1 DEF SyncCall, Call, SyncFields, SiteTypes
    <3> QED BY <1>2, <2>2, <3>1, <3>2 DEF SyncTypes
  <2> QED BY <2>1, <2>2
<1>4. <<>> \in Seq(Item)
  OBVIOUS
<1> QED BY <1>1, <1>3, <1>4 DEF SiteTypes

\* The answers to the changes of prefabs keep the types.
LEMMA PutStepTypes ==
  ASSUME SiteTypes, PrefabTypes, NEW u \in puts, Serve(u) \/ Answered(u) \/ LosePut(u)
  PROVE  PrefabTypes'
<1>0. Kept
  BY PrefabKept DEF PrefabNext
<1>1. OtherPrefabs /\ SyncTypes /\ PutTypes /\ PutCall(u, visit) /\ u.addr \in Addr /\ u.visit \in 0..visit
  BY PrefabParts DEF PutTypes, PutCall, Call
<1>2. CASE Serve(u)
  <2>1. SyncTypes'
    BY <1>0, <1>1, <1>2 DEF SyncTypes, Serve, Kept
  <2>2. PutTypes'
    BY <1>0, <1>1, <1>2, PutExcept DEF PutTypes, Serve, Swap, Kept
  <2>3. prefabs' = [prefabs EXCEPT ![u.addr] = PrefabTable(prefabs[u.addr], u)]
    BY <1>2 DEF Serve
  <2>4. /\ DOMAIN prefabs' = Addr
        /\ \A a \in Addr : prefabs'[a] = IF a = u.addr THEN PrefabTable(prefabs[a], u) ELSE prefabs[a]
    BY <1>1, <2>3 DEF OtherPrefabs
  <2>5. \A a \in Addr : /\ DOMAIN prefabs'[a] \subseteq Prefab
                         /\ \A n \in DOMAIN prefabs'[a] : prefabs'[a][n] \in Stored
    <3>1. \A a \in Addr : GoodTable(prefabs[a], prefabs[a], TRUE)
      BY <1>1 DEF OtherPrefabs, GoodTable
    <3>2. GoodTable(PrefabTable(prefabs[u.addr], u), prefabs[u.addr], u.op # "upload")
      BY <1>1, <3>1, PrefabTableFacts
    <3> QED BY <2>4, <3>1, <3>2 DEF GoodTable
  <2>6. OtherPrefabs'
    BY <1>1, <1>2, <2>4, <2>5 DEF OtherPrefabs, Serve, prefabPage
  <2> QED BY <2>1, <2>2, <2>6, PrefabParts, PTL
<1>3. CASE Answered(u)
  <2>1. PutTypes'
    BY <1>0, <1>1, <1>3 DEF PutTypes, Answered, Kept
  <2>2. CASE u.op = "upload"
    <3>1. SyncTypes' /\ pmap' \in Seq(Item) /\ synced' \in Addr \cup {NoAddr}
      BY <1>0, <1>1, <1>3, <2>2, SyncConfigTypes DEF Answered, Kept, SiteTypes
    <3>2. OtherPrefabs'
      BY <1>1, <1>3, <3>1 DEF Answered, OtherPrefabs, prefabPage
    <3> QED BY <2>1, <3>1, <3>2, PrefabParts, PTL
  <2>3. CASE u.op # "upload"
    <3>1. OtherPrefabs'
      BY <1>1, <1>3, <2>3 DEF Answered, OtherPrefabs, prefabPage
    <3>2. SyncTypes'
      BY <1>0, <1>1, <1>3, <2>3 DEF Answered, SyncTypes, Kept
    <3> QED BY <2>1, <3>1, <3>2, PrefabParts, PTL
  <2> QED BY <2>2, <2>3
<1>4. CASE LosePut(u)
  <2>1. PutTypes' /\ SyncTypes'
    BY <1>0, <1>1, <1>4 DEF PutTypes, SyncTypes, LosePut, Kept
  <2>2. OtherPrefabs'
    BY <1>1, <1>4 DEF LosePut, OtherPrefabs, prefabPage
  <2> QED BY <2>1, <2>2, PrefabParts, PTL
<1> QED BY <1>2, <1>3, <1>4

\* Every step of the prefabs page keeps the types of the prefabs.
LEMMA PrefabStepTypes == SiteTypes /\ PrefabTypes /\ PrefabNext => PrefabTypes'
BY SyncStepTypes, ClickTypes, PutStepTypes DEF PrefabNext

\* The other modules leave the types of the prefabs, as a change of address does.
LEMMA PrefabsLeft ==
  ASSUME SiteTypes, PrefabTypes, UNCHANGED prefabVars, visit' = visit,
         remoteAddr' = remoteAddr \/ remoteAddr' \in Addr
  PROVE  PrefabTypes'
<1>1. NoAddr \notin Addr
  BY SiteAssumption
<1> QED BY <1>1 DEF PrefabTypes, prefabVars, prefabPage

\* A page that opens may start a sync, of its own visit.
LEMMA PrefabsOpenTypes ==
  ASSUME SiteTypes, PrefabTypes, NEW p, PrefabsOpen(p), visit' = visit + 1, remoteAddr' = remoteAddr
  PROVE  PrefabTypes'
<1>1. OtherPrefabs /\ SyncTypes /\ PutTypes
  BY PrefabParts
<1>2. visit' \in Nat /\ visit <= visit' /\ visit \in Nat /\ visit' \in 0..visit'
  BY DEF SiteTypes
<1>3. PutTypes'
  BY <1>1, <1>2 DEF PutTypes, PutCall, Call, PrefabsOpen
<1>4. SyncTypes' /\ pmap' \in Seq(Item) /\ synced' \in Addr \cup {NoAddr}
  <2>1. CASE p = "prefab"
    BY <1>2, <2>1, SyncConfigTypes DEF PrefabsOpen
  <2>2. CASE p # "prefab"
    <3>1. UNCHANGED <<pmap, synced, syncs>>
      BY <2>2 DEF PrefabsOpen
    <3>2. SyncTypes'
      BY <1>1, <1>2, <3>1 DEF SyncTypes, SyncCall, Call
    <3> QED BY <1>1, <3>1, <3>2 DEF OtherPrefabs
  <2> QED BY <2>1, <2>2
<1>5. OtherPrefabs'
  BY <1>1, <1>4 DEF OtherPrefabs, PrefabsOpen
<1> QED BY <1>3, <1>4, <1>5, PrefabParts, PTL

\* The prefabs start well typed.
LEMMA PrefabsInitTypes == SiteInit /\ PrefabInit => PrefabTypes
<1> SUFFICES ASSUME SiteInit, PrefabInit PROVE PrefabTypes
  OBVIOUS
<1>1. OtherPrefabs
  <2>1. <<>> \in Seq(Item)
    OBVIOUS
  <2> QED BY <2>1, PrefabsAssumption, SiteAssumption DEF OtherPrefabs, PrefabInit, SiteInit, Stored
<1>2. SyncTypes
  <2>1. visit = 0 /\ remoteAddr \in Addr \cup {NoAddr} /\ syncs = PostTo(remoteAddr, {}, NewSync, 0)
    BY SiteAssumption DEF SiteInit, PrefabInit
  <2>2. CASE remoteAddr = NoAddr
    BY <2>1, <2>2, PostSync DEF SyncTypes
  <2>3. CASE remoteAddr # NoAddr
    <3>0. PICK none, v : none = {} /\ v = 0
      OBVIOUS
    <3>1. PICK s : /\ DOMAIN s = SyncFields /\ s.addr = remoteAddr /\ s.visit = v
                   /\ s.lst = {} /\ s.read = {} /\ s.dat = {}
                   /\ PostTo(remoteAddr, none, NewSync, v) = none \cup {s}
      BY <2>3, PostSync
    <3>2. SyncCall(s, 0)
      BY <2>1, <2>3, <3>0, <3>1 DEF SyncCall, Call, SyncFields
    <3> QED BY <2>1, <2>3, <3>0, <3>1, <3>2 DEF SyncTypes
  <2> QED BY <2>2, <2>3
<1>3. PutTypes
  BY DEF PutTypes, PrefabInit
<1> QED BY <1>1, <1>2, <1>3, PrefabParts

-----------------------------------------------------------------------------
(* The types of the files and of their calls. *)

OtherFiles ==
  /\ DOMAIN files = Addr /\ DOMAIN tasks = Addr
  /\ \A a \in Addr : DOMAIN files[a] \subseteq File /\ tasks[a] \subseteq File
  /\ DOMAIN Bots \subseteq File /\ DOMAIN botLst \subseteq File /\ selectedRows \subseteq File
  /\ source \in Addr \cup {NoAddr}
ListTypes == \A l \in lists : ListCall(l, visit)
EditTypes == \A e \in edits : EditCall(e, visit)

\* The types of the files, one part per kind of call.
LEMMA BotParts == BotTypes <=> OtherFiles /\ ListTypes /\ EditTypes
BY DEF BotTypes, OtherFiles, ListTypes, EditTypes

\* The filter shows files of the list only.
LEMMA ShownFacts ==
  ASSUME NEW bots, NEW S
  PROVE  DOMAIN Shown(bots, S) \subseteq DOMAIN bots
BY DEF Shown

\* The fields of a list that the server has read.
LEMMA ListExcept ==
  ASSUME NEW l, DOMAIN l = {"tags", "lst", "id", "addr", "visit", "at"}, NEW x
  PROVE  LET m == [l EXCEPT !.at = "read", !.lst = x]
         IN  /\ DOMAIN m = {"tags", "lst", "id", "addr", "visit", "at"} /\ m.at = "read" /\ m.lst = x
             /\ m.tags = l.tags /\ m.addr = l.addr /\ m.visit = l.visit
OBVIOUS

\* The fields of an edit that the server has served.
LEMMA EditExcept ==
  ASSUME NEW e, NEW v, EditCall(e, v)
  PROVE  LET d == [e EXCEPT !.at = "done"]
         IN  /\ EditCall(d, v) /\ d.at = "done" /\ d.op = e.op /\ d.name = e.name /\ d.tags = e.tags
             /\ d.addr = e.addr /\ d.visit = e.visit
BY DEF EditCall, Call

\* The server reads the files it has now.
LEMMA ReadFilesIs ==
  ASSUME BotTypes, NEW l \in lists, ReadFiles(l)
  PROVE  \E m : /\ ListCall(m, visit) /\ m.at = "read" /\ m.lst = files[l.addr]
                /\ m.tags = l.tags /\ m.addr = l.addr /\ m.visit = l.visit
                /\ lists' = (lists \ {l}) \cup {m}
<1> DEFINE m == [l EXCEPT !.at = "read", !.lst = files[l.addr]]
<1>1. lists' = (lists \ {l}) \cup {m}
  BY DEF ReadFiles, Swap
<1>2. ListCall(l, visit) /\ DOMAIN l = {"tags", "lst", "id", "addr", "visit", "at"}
  BY DEF BotTypes, ListCall, Call
<1>3. /\ DOMAIN m = {"tags", "lst", "id", "addr", "visit", "at"} /\ m.at = "read" /\ m.lst = files[l.addr]
      /\ m.tags = l.tags /\ m.addr = l.addr /\ m.visit = l.visit
  BY <1>2, ListExcept
<1> HIDE DEF m
<1>4. ListCall(m, visit)
  BY <1>2, <1>3 DEF ListCall, Call, BotTypes
<1> QED BY <1>1, <1>3, <1>4

\* The new list of a refresh.
LEMMA RefreshIs ==
  ASSUME remoteAddr \in Addr \cup {NoAddr}, NEW w \in Nat, NEW v \in 0..w, NEW S,
         NEW shown \in BOOLEAN, refreshBotList(v, S, shown)
  PROVE  /\ \/ remoteAddr = NoAddr /\ lists' = lists
            \/ remoteAddr # NoAddr /\ \E l :
                 /\ ListCall(l, w) /\ l.tags = S /\ l.addr = remoteAddr /\ l.visit = v
                 /\ l.at = "asked" /\ lists' = lists \cup {l}
         /\ shown => source' = remoteAddr
         /\ ~shown => UNCHANGED <<overlapped, source>>
<1>1. /\ lists' = PostTo(remoteAddr, lists, [tags |-> S, lst |-> Nothing], v)
      /\ shown => source' = remoteAddr
      /\ ~shown => UNCHANGED <<overlapped, source>>
  BY DEF refreshBotList
<1>2. CASE remoteAddr # NoAddr
  <2>1. PICK l : /\ Call(l, {"tags", "lst"}, w) /\ l.tags = S /\ l.lst = Nothing
                 /\ l.addr = remoteAddr /\ l.visit = v /\ l.at = "asked"
                 /\ PostTo(remoteAddr, lists, [tags |-> S, lst |-> Nothing], v) = lists \cup {l}
    BY <1>2, PostList
  <2>2. ListCall(l, w)
    BY <2>1 DEF ListCall, Nothing
  <2> QED BY <1>1, <1>2, <2>1, <2>2
<1>3. CASE remoteAddr = NoAddr
  BY <1>1, <1>3, PostList
<1> QED BY <1>2, <1>3

\* A refresh keeps the types.
LEMMA RefreshTypes ==
  ASSUME SiteTypes, BotTypes, NEW v \in 0..visit, NEW S, NEW shown \in BOOLEAN, refreshBotList(v, S, shown),
         visit' = visit
  PROVE  ListTypes' /\ source' \in Addr \cup {NoAddr}
<1>0. visit \in Nat /\ remoteAddr \in Addr \cup {NoAddr} /\ source \in Addr \cup {NoAddr}
  BY DEF SiteTypes, BotTypes
<1>1. ListTypes'
  BY <1>0, RefreshIs DEF ListTypes, BotTypes
<1>2. source' \in Addr \cup {NoAddr}
  BY <1>0, RefreshIs
<1> QED BY <1>1, <1>2

\* A call of the page.
LEMMA EditIs ==
  ASSUME SiteTypes, BotTypes, NEW a \in Addr \cup {NoAddr},
         NEW op \in {"run", "batch", "remove", "tags", "upload"}, NEW n \in File, NEW val
  PROVE  \A e \in EditAt(a, op, n, val) \ edits :
           EditCall(e, visit) /\ e.visit = visit /\ e.at = "asked" /\ e.op = op
<1>1. CASE a # NoAddr
  <2>1. PICK e : /\ Call(e, {"op", "name", "val", "tags"}, visit) /\ e.op = op /\ e.name = n
                 /\ e.visit = visit /\ e.at = "asked" /\ EditAt(a, op, n, val) = edits \cup {e}
    BY <1>1, PostEdit
  <2>2. EditCall(e, visit)
    BY <2>1 DEF EditCall
  <2> QED BY <2>1, <2>2
<1>2. CASE a = NoAddr
  BY <1>2, PostEdit
<1> QED BY <1>1, <1>2

\* The calls there are stay, the new ones are of this visit.
MoreEdits ==
  /\ edits \subseteq edits'
  /\ \A e \in edits' \ edits : EditCall(e, visit) /\ e.visit = visit /\ e.at = "asked"

\* No call made takes another one away.
LEMMA PostKeeps ==
  ASSUME NEW a, NEW calls, NEW b, NEW v
  PROVE  calls \subseteq PostTo(a, calls, b, v)
BY DEF PostTo

\* The clicks of the bots page add edits of this visit and take none away.
LEMMA ClickEdits ==
  ASSUME SiteTypes, BotTypes,
         \/ handleBotRun \/ handleBotDelete
         \/ \E n \in File : UploadFile(n) \/ \E S \in SUBSET FileTag : updateBotTags(n, S)
  PROVE  MoreEdits
<1>1. remoteAddr \in Addr \cup {NoAddr} /\ source \in Addr \cup {NoAddr} /\ selectedRows \subseteq File
  BY DEF SiteTypes, BotTypes
<1>2. CASE handleBotRun
  <2> DEFINE op(n) == IF n \in runs THEN "batch" ELSE "run"
  <2>1. edits' = edits \cup UNION {Edit(op(n), n, {}) : n \in selectedRows}
    BY <1>2 DEF handleBotRun, OfEachRow
  <2>2. \A n \in selectedRows : op(n) \in {"run", "batch", "remove", "tags", "upload"}
    OBVIOUS
  <2> HIDE DEF op
  <2>3. \A n \in selectedRows : \A e \in Edit(op(n), n, {}) \ edits :
          EditCall(e, visit) /\ e.visit = visit /\ e.at = "asked"
    BY <1>1, <2>2, EditIs DEF Edit
  <2> QED BY <2>1, <2>3 DEF MoreEdits
<1>3. CASE handleBotDelete
  <2>1. edits' = edits \cup UNION {Edit("remove", n, {}) : n \in selectedRows}
    BY <1>3 DEF handleBotDelete, OfEachRow
  <2>2. \A n \in selectedRows : \A e \in Edit("remove", n, {}) \ edits :
          EditCall(e, visit) /\ e.visit = visit /\ e.at = "asked"
    BY <1>1, EditIs DEF Edit
  <2> QED BY <2>1, <2>2 DEF MoreEdits
<1>4. ASSUME NEW n \in File, UploadFile(n)
      PROVE  MoreEdits
  <2>1. PICK a \in Addr \cup {NoAddr} : edits' = EditAt(a, "upload", n, {})
    BY <1>1, <1>4 DEF UploadFile
  <2>2. edits \subseteq edits'
    BY <2>1, PostKeeps DEF EditAt
  <2> QED BY <2>1, <2>2, EditIs DEF MoreEdits
<1>5. ASSUME NEW n \in File, NEW S \in SUBSET FileTag, updateBotTags(n, S)
      PROVE  MoreEdits
  <2>1. edits' = EditAt(remoteAddr, "tags", n, S)
    BY <1>5 DEF updateBotTags, Edit
  <2>2. edits \subseteq edits'
    BY <2>1, PostKeeps DEF EditAt
  <2> QED BY SMTT(20), <1>1, <2>1, <2>2, EditIs DEF MoreEdits
<1> QED BY <1>2, <1>3, <1>4, <1>5

\* Only a removal and an upload change which files a server has.
LEMMA FileTableFacts ==
  ASSUME NEW f, DOMAIN f \subseteq File, NEW e, NEW v, EditCall(e, v)
  PROVE  /\ DOMAIN FileTable(f, e) \subseteq File
         /\ e.op \notin {"remove", "upload"} => DOMAIN FileTable(f, e) = DOMAIN f
<1>1. e.op \in {"run", "batch", "remove", "tags", "upload"} /\ e.name \in File
  BY DEF EditCall
<1>2. CASE e.op = "remove"
  BY <1>2 DEF FileTable, Drop
<1>3. CASE e.op = "upload"
  BY <1>1, <1>3 DEF FileTable, Put
<1>4. CASE e.op = "tags"
  <2>1. CASE e.name \in DOMAIN f
    <3>1. FileTable(f, e) = Put(f, e.name, e.val)
      BY <1>4, <2>1 DEF FileTable
    <3> QED BY <1>1, <2>1, <3>1 DEF Put
  <2>2. CASE e.name \notin DOMAIN f
    BY <1>4, <2>2 DEF FileTable
  <2> QED BY <2>1, <2>2
<1>5. CASE e.op \in {"run", "batch"}
  BY <1>5 DEF FileTable
<1> QED BY <1>1, <1>2, <1>3, <1>4, <1>5

\* The steps of a list keep the types.
LEMMA ListStepTypes ==
  ASSUME SiteTypes, BotTypes, NEW l \in lists, ReadFiles(l) \/ Refreshed(l) \/ LoseList(l)
  PROVE  BotTypes'
<1>0. Kept
  BY BotKept DEF BotNext
<1>1. OtherFiles /\ ListTypes /\ EditTypes
  BY BotParts
<1>2. EditTypes'
  BY <1>0, <1>1 DEF EditTypes, Kept, ReadFiles, Refreshed, LoseList
<1>3. ListTypes'
  <2>1. CASE ReadFiles(l)
    <3>1. PICK m : ListCall(m, visit) /\ lists' = (lists \ {l}) \cup {m}
      BY <2>1, ReadFilesIs
    <3> QED BY <1>0, <1>1, <3>1 DEF ListTypes, Kept
  <2>2. CASE Refreshed(l) \/ LoseList(l)
    BY <1>0, <1>1, <2>2 DEF ListTypes, Kept, Refreshed, LoseList
  <2> QED BY <2>1, <2>2
<1>4. OtherFiles'
  <2>1. CASE ReadFiles(l) \/ LoseList(l)
    BY <1>1, <2>1 DEF OtherFiles, ReadFiles, LoseList, botPage
  <2>2. CASE Refreshed(l)
    <3>1. DOMAIN l.lst \subseteq File
      BY <1>1 DEF ListTypes, ListCall
    <3>2. DOMAIN Bots' \subseteq File /\ DOMAIN botLst' \subseteq File
      <4>1. CASE l.visit = visit /\ DOMAIN l.lst # {}
        <5>1. Bots' = l.lst /\ botLst' = Shown(l.lst, l.tags)
          BY <2>2, <4>1 DEF Refreshed, fillBotList
        <5> QED BY <3>1, <5>1, ShownFacts
      <4>2. CASE ~(l.visit = visit /\ DOMAIN l.lst # {})
        BY <1>1, <2>2, <4>2 DEF Refreshed, OtherFiles
      <4> QED BY <4>1, <4>2
    <3> QED BY <1>1, <2>2, <3>2 DEF OtherFiles, Refreshed
  <2> QED BY <2>1, <2>2
<1> QED BY <1>2, <1>3, <1>4, BotParts, PTL

\* The clicks of the bots page keep the types.
LEMMA BotClickTypes ==
  ASSUME SiteTypes, BotTypes,
         \/ \E S \in SUBSET FileTag : handleSelectChange(S) \/ \E n \in File : updateBotTags(n, S)
         \/ \E ns \in SUBSET File : SelectRows(ns)
         \/ \E n \in File : EnterRuns(n) \/ UploadFile(n)
         \/ handleBotRun \/ handleBotDelete
  PROVE  BotTypes'
<1>0. Kept
  BY BotKept DEF BotNext
<1>1. OtherFiles /\ ListTypes /\ EditTypes
  BY BotParts
<1>2. ListTypes' /\ UNCHANGED <<files, tasks, source>>
  BY <1>0, <1>1 DEF ListTypes, Kept, handleSelectChange, updateBotTags, SelectRows, EnterRuns, UploadFile,
    handleBotRun, handleBotDelete
<1>3. EditTypes'
  <2>1. CASE UNCHANGED edits
    BY <1>0, <1>1, <2>1 DEF EditTypes, Kept
  <2>2. CASE edits' # edits
    <3>1. MoreEdits
      BY <2>2, ClickEdits DEF handleSelectChange, SelectRows, EnterRuns
    <3> QED BY <1>0, <1>1, <3>1 DEF MoreEdits, EditTypes, Kept
  <2> QED BY <2>1, <2>2
<1>4. DOMAIN Bots' \subseteq File /\ DOMAIN botLst' \subseteq File /\ selectedRows' \subseteq File
  <2>1. ASSUME NEW S \in SUBSET FileTag, handleSelectChange(S)
        PROVE  DOMAIN Bots' \subseteq File /\ DOMAIN botLst' \subseteq File /\ selectedRows' \subseteq File
    <3>1. Bots' = Bots /\ botLst' \in {botLst, Shown(Bots, S)} /\ selectedRows' = selectedRows
      BY <2>1 DEF handleSelectChange, fillBotList
    <3> QED BY <1>1, <3>1, ShownFacts DEF OtherFiles
  <2>2. ASSUME NEW S \in SUBSET FileTag, NEW n \in File, updateBotTags(n, S)
        PROVE  DOMAIN Bots' \subseteq File /\ DOMAIN botLst' \subseteq File /\ selectedRows' \subseteq File
    <3>1. /\ Bots' = Put(Bots, n, S) /\ botLst' \in {botLst, Shown(Bots', currentSelectedTags)}
          /\ selectedRows' = selectedRows
      BY <2>2 DEF updateBotTags, fillBotList
    <3>2. DOMAIN Bots' \subseteq File
      BY <1>1, <3>1 DEF OtherFiles, Put
    <3> QED BY <1>1, <3>1, <3>2, ShownFacts DEF OtherFiles
  <2>3. CASE \/ \E ns \in SUBSET File : SelectRows(ns)
             \/ \E n \in File : EnterRuns(n) \/ UploadFile(n)
             \/ handleBotRun \/ handleBotDelete
    BY <1>1, <2>3 DEF OtherFiles, SelectRows, EnterRuns, UploadFile, handleBotRun, handleBotDelete, botPage
  <2> QED BY <2>1, <2>2, <2>3
<1>5. OtherFiles'
  BY <1>1, <1>2, <1>4 DEF OtherFiles
<1> QED BY <1>2, <1>3, <1>5, BotParts, PTL

\* The answers to edits keep the types.
LEMMA EditStepTypes ==
  ASSUME SiteTypes, BotTypes, NEW e \in edits, ServeEdit(e) \/ EditAnswered(e) \/ LoseEdit(e)
  PROVE  BotTypes'
<1>0. Kept
  BY BotKept DEF BotNext
<1>1. OtherFiles /\ ListTypes /\ EditTypes /\ EditCall(e, visit) /\ e.addr \in Addr /\ e.visit \in 0..visit
  BY BotParts DEF EditTypes, EditCall, Call
<1>2. CASE ServeEdit(e)
  <2>1. ListTypes'
    BY <1>0, <1>1, <1>2 DEF ListTypes, ServeEdit, Kept
  <2>2. EditTypes'
    BY <1>0, <1>1, <1>2, EditExcept DEF EditTypes, ServeEdit, Swap, Kept
  <2>3. files' = [files EXCEPT ![e.addr] = FileTable(files[e.addr], e)]
    BY <1>2 DEF ServeEdit
  <2>4. /\ DOMAIN files' = Addr
        /\ \A a \in Addr : files'[a] = IF a = e.addr THEN FileTable(files[a], e) ELSE files[a]
    BY <1>1, <2>3 DEF OtherFiles
  <2>5. \A a \in Addr : DOMAIN files'[a] \subseteq File
    BY <1>1, <2>4, FileTableFacts DEF OtherFiles
  <2>6. e.name \in File
    BY <1>1 DEF EditCall
  <2>7. tasks' \in {tasks, [tasks EXCEPT ![e.addr] = tasks[e.addr] \cup {e.name}]}
    BY <1>2 DEF ServeEdit
  <2>8. DOMAIN tasks' = Addr /\ \A a \in Addr : tasks'[a] \subseteq File
    BY <1>1, <2>6, <2>7 DEF OtherFiles
  <2>9. OtherFiles'
    BY <1>1, <1>2, <2>4, <2>5, <2>8 DEF OtherFiles, ServeEdit, botPage
  <2> QED BY <2>1, <2>2, <2>9, BotParts, PTL
<1>3. CASE EditAnswered(e)
  <2>1. EditTypes'
    BY <1>0, <1>1, <1>3 DEF EditTypes, EditAnswered, Kept
  <2>2. ListTypes' /\ source' \in Addr \cup {NoAddr}
    <3>1. CASE e.op = "remove"
      <4>1. refreshBotList(e.visit, e.tags, e.visit = visit)
        BY <1>3, <3>1 DEF EditAnswered
      <4> QED BY <1>0, <1>1, <4>1, RefreshTypes DEF Kept
    <3>2. CASE e.op = "upload" /\ e.visit = visit
      <4>1. refreshBotList(visit, {}, TRUE)
        BY <1>3, <3>2 DEF EditAnswered
      <4>2. visit \in 0..visit
        BY DEF SiteTypes
      <4> QED BY <1>0, <4>1, <4>2, RefreshTypes DEF Kept
    <3>3. CASE e.op # "remove" /\ ~(e.op = "upload" /\ e.visit = visit)
      <4>1. UNCHANGED <<lists, source>>
        BY <1>3, <3>3 DEF EditAnswered
      <4> QED BY <1>0, <1>1, <4>1 DEF ListTypes, OtherFiles, Kept
    <3> QED BY <3>1, <3>2, <3>3
  <2>3. OtherFiles'
    BY <1>1, <1>3, <2>2 DEF EditAnswered, OtherFiles, botPage
  <2> QED BY <2>1, <2>2, <2>3, BotParts, PTL
<1>4. CASE LoseEdit(e)
  <2>1. EditTypes' /\ ListTypes'
    BY <1>0, <1>1, <1>4 DEF EditTypes, ListTypes, LoseEdit, Kept
  <2>2. OtherFiles'
    BY <1>1, <1>4 DEF LoseEdit, OtherFiles, botPage
  <2> QED BY <2>1, <2>2, BotParts, PTL
<1> QED BY <1>2, <1>3, <1>4

\* Every step of the bots page keeps the types of the files.
LEMMA BotStepTypes == SiteTypes /\ BotTypes /\ BotNext => BotTypes'
BY ListStepTypes, BotClickTypes, EditStepTypes DEF BotNext

\* The other pages leave the types of the files.
LEMMA BotsLeft ==
  ASSUME SiteTypes, BotTypes, UNCHANGED botVars, visit' = visit
  PROVE  BotTypes'
BY DEF BotTypes, botVars, botPage

\* The bots page opens with a list of its own visit and forgets the former table.
LEMMA BotsOpenTypes ==
  ASSUME SiteTypes, BotTypes, NEW p, BotsOpen(p), visit' = visit + 1, remoteAddr' = remoteAddr
  PROVE  BotTypes'
<1>1. OtherFiles /\ ListTypes /\ EditTypes
  BY BotParts
<1>2. visit \in Nat /\ visit' \in 0..visit' /\ remoteAddr \in Addr \cup {NoAddr}
  BY DEF SiteTypes
<1>3. EditTypes'
  BY <1>1, <1>2 DEF EditTypes, EditCall, Call, BotsOpen
<1>4. \A l \in lists : ListCall(l, visit')
  BY <1>1, <1>2 DEF ListTypes, ListCall, Call
<1>5. ListTypes' /\ source' \in Addr \cup {NoAddr}
  <2>1. CASE p = "bots"
    <3>1. PICK none, w : none = {} /\ w = visit'
      OBVIOUS
    <3>2. lists' = PostTo(remoteAddr, lists, [tags |-> none, lst |-> Nothing], w) /\ source' = remoteAddr
      BY <2>1, <3>1 DEF BotsOpen, refreshBotList
    <3>3. w \in Nat /\ w \in 0..w
      BY <1>2, <3>1
    <3>4. \A l : Call(l, {"tags", "lst"}, w) /\ l.lst = Nothing => ListCall(l, w)
      BY DEF ListCall, Nothing
    <3>5. \A l \in lists' \ lists : ListCall(l, w)
      BY <1>2, <3>2, <3>3, <3>4, PostList
    <3> QED BY <1>2, <1>4, <3>1, <3>2, <3>5 DEF ListTypes
  <2>2. CASE p # "bots"
    BY <1>4, <2>2 DEF BotsOpen, ListTypes
  <2> QED BY <2>1, <2>2
<1>6. OtherFiles'
  BY <1>1, <1>5 DEF OtherFiles, BotsOpen, Nothing
<1> QED BY <1>3, <1>5, <1>6, BotParts, PTL

\* The files start well typed.
LEMMA BotInitTypes == BotInit => BotTypes
BY FilesAssumption DEF BotInit, BotTypes, Nothing

-----------------------------------------------------------------------------
(* The types of the status pages. *)

\* A poll that is made is well typed.
LEMMA PollTypes ==
  ASSUME remoteAddr \in Addr \cup {NoAddr}, NEW w \in Nat, NEW op, NEW v \in 0..w, NEW calls
  PROVE  \A c \in PostTo(remoteAddr, calls, [op |-> op, res |-> {}], v) \ calls : PollCall(c, w)
<1> DEFINE b == [op |-> op, res |-> {}]
<1>1. DOMAIN b = {"op", "res"} /\ DOMAIN b \cap {"id", "addr", "visit", "at"} = {} /\ b.res = {}
  OBVIOUS
<1> HIDE DEF b
<1>0. DOMAIN b \cap {"id", "addr", "visit", "at"} = {}
  BY <1>1
<1>2. CASE remoteAddr # NoAddr
  <2>0. \E c : Posted(c, b, remoteAddr, v) /\ PostTo(remoteAddr, calls, b, v) = calls \cup {c}
    BY <1>0, <1>2, PostFacts
  <2>1. PICK c : Posted(c, b, remoteAddr, v) /\ PostTo(remoteAddr, calls, b, v) = calls \cup {c}
    BY <2>0
  <2>2. c.res = {} /\ Call(c, {"op", "res"}, w)
    BY <2>1, <1>1, <1>2 DEF Posted, Call
  <2>3. PollCall(c, w)
    BY <2>2 DEF PollCall
  <2> QED BY <2>1, <2>3 DEF b
<1>3. CASE remoteAddr = NoAddr
  <2>1. PostTo(remoteAddr, calls, b, v) = calls
    BY <1>1, <1>3, PostFacts
  <2> QED BY <2>1 DEF b
<1> QED BY <1>2, <1>3

\* The fields of a poll that the server has served.
LEMMA PollExcept ==
  ASSUME NEW c, DOMAIN c = {"op", "res", "id", "addr", "visit", "at"}, NEW x
  PROVE  LET d == [c EXCEPT !.at = "answered", !.res = x]
         IN  /\ DOMAIN d = {"op", "res", "id", "addr", "visit", "at"} /\ d.at = "answered" /\ d.res = x
             /\ d.op = c.op /\ d.addr = c.addr /\ d.visit = c.visit
OBVIOUS

\* A poll for running bots brings files, one for a report brings the report.
LEMMA ResultsTypes ==
  ASSUME BotTypes, NEW c, NEW v, PollCall(c, v), NEW res \in Results(c)
  PROVE  /\ c.op = "list" => res \subseteq File
         /\ c.op = "report" => res = Report
<1>1. c.addr \in Addr
  BY DEF PollCall, Call
<1>2. c.op = "list" => res = tasks[c.addr]
  BY DEF Results
<1>3. c.op = "report" => res = Report
  BY DEF Results
<1> QED BY <1>1, <1>2, <1>3 DEF BotTypes

\* A poll that the server has served is well typed.
LEMMA PolledIs ==
  ASSUME BotTypes, NEW c, NEW v, PollCall(c, v), NEW res \in Results(c)
  PROVE  PollCall([c EXCEPT !.at = "answered", !.res = res], v)
<1> DEFINE d == [c EXCEPT !.at = "answered", !.res = res]
<1>1. DOMAIN c = {"op", "res", "id", "addr", "visit", "at"} /\ c.addr \in Addr /\ c.visit \in 0..v
  BY DEF PollCall, Call
<1>2. /\ DOMAIN d = {"op", "res", "id", "addr", "visit", "at"} /\ d.res = res
      /\ d.op = c.op /\ d.addr = c.addr /\ d.visit = c.visit
  BY <1>1, PollExcept
<1> HIDE DEF d
<1>3. PollCall(d, v)
  BY <1>1, <1>2, ResultsTypes DEF PollCall, Call
<1> QED BY <1>3 DEF d

PollsTypes == \A c \in polls : PollCall(c, visit)
TimerTypes == \A t \in timers : t.visit \in 0..visit
RowTypes == running \subseteq File /\ reports \in {{}, Report} /\ row \in reports \cup {NoReport}

\* The types of the status pages: polls, timers and what is shown.
LEMMA StatusParts == StatusTypes <=> PollsTypes /\ TimerTypes /\ RowTypes
BY DEF StatusTypes, PollsTypes, TimerTypes, RowTypes

\* A tick keeps the types.
LEMMA TickTypes ==
  ASSUME SiteTypes, StatusTypes, NEW t \in timers, Tick(t)
  PROVE  StatusTypes'
<1>0. Kept
  BY StillKept DEF Tick
<1>1. PollsTypes /\ TimerTypes /\ RowTypes /\ t.visit \in 0..visit
  BY StatusParts DEF TimerTypes
<1>2. visit \in Nat /\ remoteAddr \in Addr \cup {NoAddr}
  BY DEF SiteTypes
<1>3. PICK op : polls' = PostTo(remoteAddr, polls, [op |-> op, res |-> {}], t.visit)
  BY DEF Tick, Poll
<1>4. PollsTypes'
  BY <1>0, <1>1, <1>2, <1>3, PollTypes DEF PollsTypes, Kept
<1>5. TimerTypes' /\ RowTypes'
  BY <1>0, <1>1 DEF TimerTypes, RowTypes, Tick, Kept
<1> QED BY <1>4, <1>5, StatusParts, PTL

\* The steps of a poll keep the types.
LEMMA PolledTypes ==
  ASSUME SiteTypes, BotTypes, StatusTypes, NEW c \in polls, Polled(c) \/ PollFails(c) \/ PollAnswered(c)
  PROVE  StatusTypes'
<1>0. Kept
  BY StillKept DEF Polled, PollFails, PollAnswered
<1>1. PollsTypes /\ TimerTypes /\ RowTypes /\ PollCall(c, visit)
  BY StatusParts DEF PollsTypes
<1>2. PollsTypes'
  <2>1. CASE Polled(c)
    <3>1. PICK res \in Results(c) : polls' = (polls \ {c}) \cup {[c EXCEPT !.at = "answered", !.res = res]}
      BY <2>1 DEF Polled, Swap
    <3>2. PollCall([c EXCEPT !.at = "answered", !.res = res], visit)
      BY <1>1, PolledIs
    <3> QED BY <1>0, <1>1, <3>1, <3>2 DEF PollsTypes, Kept
  <2>2. CASE PollFails(c) \/ PollAnswered(c)
    BY <1>0, <1>1, <2>2 DEF PollsTypes, PollFails, PollAnswered, Kept
  <2> QED BY <2>1, <2>2
<1>3. TimerTypes'
  BY <1>0, <1>1 DEF TimerTypes, Polled, PollFails, PollAnswered, Kept
<1>4. RowTypes'
  <2>1. CASE Polled(c) \/ PollFails(c)
    BY <1>1, <2>1 DEF RowTypes, Polled, PollFails, statusPage
  <2>2. CASE PollAnswered(c)
    <3>1. /\ running' = running \/ (c.op = "list" /\ running' = c.res)
          /\ reports' = reports \/ (c.op = "report" /\ c.res # {} /\ reports' = c.res)
          /\ row' = row
      BY <2>2 DEF PollAnswered
    <3> QED BY <1>1, <3>1 DEF RowTypes, PollCall
  <2> QED BY <2>1, <2>2
<1> QED BY <1>2, <1>3, <1>4, StatusParts, PTL

\* Every step of the status pages keeps their types.
LEMMA StatusStepTypes ==
  ASSUME SiteTypes, BotTypes, StatusTypes, StatusNext
  PROVE  StatusTypes'
<1>1. PollsTypes /\ TimerTypes /\ RowTypes
  BY StatusParts
<1>2. ASSUME \/ \E a \in Addr : Crash(a)
             \/ \E r \in Report : SelectReport(r)
             \/ \E ty \in Charts : tableClick(ty)
             \/ Drawn
      PROVE  StatusTypes'
  <2>0. Kept
    BY <1>2, StatusKept DEF StatusNext
  <2>1. PollsTypes' /\ TimerTypes'
    BY <1>1, <1>2, <2>0 DEF PollsTypes, TimerTypes, Kept, Crash, SelectReport, tableClick, Drawn
  <2>2. running' = running /\ reports' = reports /\ row' \in {row} \cup reports
    BY <1>2 DEF Crash, SelectReport, tableClick, Drawn, statusPage
  <2>3. RowTypes'
    BY <1>1, <2>2 DEF RowTypes
  <2> QED BY <2>1, <2>3, StatusParts, PTL
<1> QED BY <1>2, TickTypes, PolledTypes DEF StatusNext

\* The other pages leave them.
LEMMA StatusLeft ==
  ASSUME StatusTypes, UNCHANGED statusVars, visit' = visit
  PROVE  StatusTypes'
BY DEF StatusTypes, statusVars, statusPage

\* A page that opens starts timers of its own visit.
LEMMA StatusOpenTypes ==
  ASSUME SiteTypes, StatusTypes, NEW p, StatusOpen(p), visit' = visit + 1
  PROVE  StatusTypes'
<1>1. PollsTypes /\ TimerTypes /\ RowTypes
  BY StatusParts
<1>2. visit \in Nat /\ visit' \in 0..visit' /\ remoteAddr \in Addr \cup {NoAddr}
  BY DEF SiteTypes
<1>3. \A c \in polls : PollCall(c, visit')
  BY <1>1, <1>2 DEF PollsTypes, PollCall, Call
<1>4. PollsTypes'
  <2>1. PICK w : w = visit'
    OBVIOUS
  <2>2. w \in Nat /\ w \in 0..w
    BY <1>2, <2>1
  <2>3. \/ \E op : polls' = PostTo(remoteAddr, polls, [op |-> op, res |-> {}], w)
        \/ polls' = polls
    BY <2>1 DEF StatusOpen, Poll
  <2>4. \A c \in polls' \ polls : PollCall(c, w)
    BY <1>2, <2>2, <2>3, PollTypes
  <2> QED BY <1>3, <2>1, <2>4 DEF PollsTypes
<1>5. TimerTypes'
  <2>1. \A t \in timers' : t \in timers \/ t.visit = visit'
    BY DEF StatusOpen, Stop
  <2> QED BY <1>1, <1>2, <2>1 DEF TimerTypes
<1>6. RowTypes'
  BY DEF StatusOpen, RowTypes
<1> QED BY <1>4, <1>5, <1>6, StatusParts, PTL

\* The status pages start well typed.
LEMMA StatusInitTypes == StatusInit => StatusTypes
BY DEF StatusInit, StatusTypes

-----------------------------------------------------------------------------
(* The types of the settings. *)

Ops == {"system", "script", "health", "submit", "apply"}
ConfType(f) ==
  DOMAIN f = Fields /\ f.size \in Nat /\ f.delay \in Nat \ {0} /\ f.script \in Script
ConfTypes == DOMAIN conf = Addr /\ \A a \in Addr : ConfType(conf[a])
FormTypes == FormType(form) /\ form.addr \in Addr \cup {NoAddr} /\ address \in Addr \cup {NoAddr}
AsksTypes == \A c \in asks : AskCall(c, visit)

\* The types of the settings, one part for servers, form and calls.
LEMMA SettingsParts == SettingsTypes <=> ConfTypes /\ FormTypes /\ AsksTypes
BY DEF SettingsTypes, ConfTypes, ConfType, FormTypes, AsksTypes

\* A call of the settings carries its value to the address it is for.
LEMMA AskIs ==
  ASSUME NEW a \in Addr \cup {NoAddr}, NEW w \in Nat, NEW v \in 0..w, NEW op \in Ops, NEW val,
         FormType(val), NEW calls
  PROVE  \/ a = NoAddr /\ PostTo(a, calls, NewAsk(op, a, val), v) = calls
         \/ a # NoAddr /\ \E c :
              /\ AskCall(c, w) /\ c.op = op /\ c.addr = a /\ c.visit = v /\ c.at = "asked" /\ c.val = val
              /\ c.to = a /\ PostTo(a, calls, NewAsk(op, a, val), v) = calls \cup {c}
<1> DEFINE b == NewAsk(op, a, val)
<1>1. /\ DOMAIN b = {"op", "to", "val", "ok"} /\ DOMAIN b \cap {"id", "addr", "visit", "at"} = {}
      /\ b.op = op /\ b.to = a /\ b.val = val
  BY DEF NewAsk
<1> HIDE DEF b
<1>2. DOMAIN b \cap {"id", "addr", "visit", "at"} = {}
  BY <1>1
<1>3. CASE a # NoAddr
  <2>0. \E c : Posted(c, b, a, v) /\ PostTo(a, calls, b, v) = calls \cup {c}
    BY <1>2, <1>3, PostFacts
  <2>1. PICK c : Posted(c, b, a, v) /\ PostTo(a, calls, b, v) = calls \cup {c}
    BY <2>0
  <2>2. c.op = op /\ c.to = a /\ c.val = val
    BY <2>1, <1>1 DEF Posted
  <2>3. Call(c, {"op", "to", "val", "ok"}, w) /\ c.addr = a /\ c.visit = v /\ c.at = "asked"
    BY <2>1, <1>1, <1>3 DEF Posted, Call
  <2>4. AskCall(c, w)
    BY <1>3, <2>2, <2>3 DEF AskCall, Ops
  <2> QED BY <1>3, <2>1, <2>2, <2>3, <2>4 DEF b
<1>4. CASE a = NoAddr
  <2>1. PostTo(a, calls, b, v) = calls
    BY <1>2, <1>4, PostFacts
  <2> QED BY <1>4, <2>1 DEF b
<1> QED BY <1>3, <1>4

\* A new form has the address it is for.
LEMMA NewFormType ==
  ASSUME NEW a
  PROVE  FormType(NewForm(a)) /\ NewForm(a).addr = a
BY DEF FormType, NewForm

\* A sync asks for the numbers and for the script.
LEMMA SyncFormIs ==
  ASSUME NEW a \in Addr \cup {NoAddr}, NEW w \in Nat, NEW v \in 0..w, NEW calls
  PROVE  \/ a = NoAddr /\ syncForm(a, calls, v) = calls
         \/ a # NoAddr /\ \E c, d :
              /\ AskCall(c, w) /\ c.op = "system" /\ c.addr = a /\ c.visit = v /\ c.at = "asked"
              /\ AskCall(d, w) /\ d.op = "script" /\ d.addr = a /\ d.visit = v /\ d.at = "asked"
              /\ syncForm(a, calls, v) = calls \cup {c, d}
<1> DEFINE val == NewForm(a)
<1> DEFINE one == PostTo(a, calls, NewAsk("system", a, val), v)
<1>0. FormType(val) /\ "system" \in Ops /\ "script" \in Ops
  BY NewFormType DEF Ops
<1>1. syncForm(a, calls, v) = PostTo(a, one, NewAsk("script", a, val), v)
  BY DEF syncForm
<1> HIDE DEF val
<1>2. \/ a = NoAddr /\ one = calls
      \/ a # NoAddr /\ \E c :
           /\ AskCall(c, w) /\ c.op = "system" /\ c.addr = a /\ c.visit = v /\ c.at = "asked"
           /\ one = calls \cup {c}
  BY SMTT(20), <1>0, AskIs
<1> HIDE DEF one
<1>3. \/ a = NoAddr /\ syncForm(a, calls, v) = one
      \/ a # NoAddr /\ \E d :
           /\ AskCall(d, w) /\ d.op = "script" /\ d.addr = a /\ d.visit = v /\ d.at = "asked"
           /\ syncForm(a, calls, v) = one \cup {d}
  BY <1>0, <1>1, AskIs
<1>4. CASE a # NoAddr
  <2>1. PICK c : /\ AskCall(c, w) /\ c.op = "system" /\ c.addr = a /\ c.visit = v /\ c.at = "asked"
                 /\ one = calls \cup {c}
    BY <1>2, <1>4
  <2>2. PICK d : /\ AskCall(d, w) /\ d.op = "script" /\ d.addr = a /\ d.visit = v /\ d.at = "asked"
                 /\ syncForm(a, calls, v) = one \cup {d}
    BY <1>3, <1>4
  <2>3. syncForm(a, calls, v) = calls \cup {c, d}
    BY <2>1, <2>2
  <2> QED BY <1>4, <2>1, <2>2, <2>3
<1>5. CASE a = NoAddr
  BY <1>2, <1>3, <1>5
<1> QED BY <1>4, <1>5

\* What the server stores keeps its configuration one.
LEMMA ConfiguredTypes ==
  ASSUME NEW old, ConfType(old), NEW c, FormType(c.val)
  PROVE  ConfType(Configured(old, c))
<1>1. CASE c.op = "submit"
  <2> DEFINE size == IF c.val.size = 0 THEN old.size ELSE c.val.size
  <2> DEFINE delay == IF c.val.delay = 0 THEN old.delay ELSE c.val.delay
  <2>1. Configured(old, c) = [old EXCEPT !.size = size, !.delay = delay]
    BY <1>1 DEF Configured
  <2>2. size \in Nat /\ delay \in Nat \ {0}
    BY DEF ConfType, FormType
  <2> HIDE DEF size, delay
  <2> QED BY <2>1, <2>2 DEF ConfType, Fields
<1>2. CASE c.op = "apply"
  <2> DEFINE text == c.val.script
  <2>1. Configured(old, c) = old \/ (text # NoScript /\ Configured(old, c) = [old EXCEPT !.script = text])
    BY <1>2 DEF Configured
  <2>2. text \in Script \cup {NoScript}
    BY DEF FormType
  <2> HIDE DEF text
  <2> QED BY <2>1, <2>2 DEF ConfType, Fields
<1>3. CASE c.op \notin {"submit", "apply"}
  BY <1>3 DEF Configured
<1> QED BY <1>1, <1>2, <1>3

\* The values of an answer are those of the server.
LEMMA WithConf ==
  ASSUME NEW f, ConfType(f), NEW g, FormType(g)
  PROVE  /\ FormType(With(f, g))
         /\ \A k \in Fields : With(f, g)[k] = f[k]
<1> DEFINE h == With(f, g)
<1>1. DOMAIN f = {"size", "delay", "script"} /\ DOMAIN g = {"addr", "size", "delay", "script"}
  BY DEF ConfType, FormType, Fields
<1>2. DOMAIN h = {"addr", "size", "delay", "script"} /\ \A k \in {"size", "delay", "script"} : h[k] = f[k]
  BY <1>1 DEF With
<1> HIDE DEF h
<1>3. h.size = f.size /\ h.delay = f.delay /\ h.script = f.script
  BY <1>2
<1>4. FormType(h)
  BY <1>2, <1>3 DEF FormType, ConfType
<1> QED BY <1>2, <1>4 DEF h, Fields

\* The fields of a call that the server has served.
LEMMA AskExcept ==
  ASSUME NEW c, DOMAIN c = {"op", "to", "val", "ok", "id", "addr", "visit", "at"}, NEW ok, NEW x
  PROVE  LET d == [c EXCEPT !.at = "done", !.ok = ok, !.val = x]
         IN  /\ DOMAIN d = {"op", "to", "val", "ok", "id", "addr", "visit", "at"} /\ d.at = "done" /\ d.val = x
             /\ d.op = c.op /\ d.to = c.to /\ d.addr = c.addr /\ d.visit = c.visit
OBVIOUS

\* The call that the server has served.
LEMMA ServedIs ==
  ASSUME SettingsTypes, NEW c \in asks, ServeAsk(c)
  PROVE  \E d : /\ AskCall(d, visit) /\ d.at = "done" /\ d.op = c.op /\ d.to = c.to /\ d.addr = c.addr
                /\ d.visit = c.visit /\ \A k \in Fields : d.val[k] = conf[c.addr][k]
                /\ asks' = (asks \ {c}) \cup {d}
<1> DEFINE x == With(conf[c.addr], c.val)
<1>1. PICK ok : asks' = (asks \ {c}) \cup {[c EXCEPT !.at = "done", !.ok = ok, !.val = x]}
  BY DEF ServeAsk, Swap
<1>2. AskCall(c, visit) /\ c.addr \in Addr /\ ConfType(conf[c.addr]) /\ FormType(c.val)
  BY SettingsParts DEF AsksTypes, AskCall, Call, ConfTypes
<1>3. FormType(x) /\ \A k \in Fields : x[k] = conf[c.addr][k]
  BY <1>2, WithConf
<1> HIDE DEF x
<1> DEFINE d == [c EXCEPT !.at = "done", !.ok = ok, !.val = x]
<1>4. DOMAIN c = {"op", "to", "val", "ok", "id", "addr", "visit", "at"}
  BY <1>2 DEF AskCall, Call
<1>5. /\ DOMAIN d = {"op", "to", "val", "ok", "id", "addr", "visit", "at"} /\ d.at = "done" /\ d.val = x
      /\ d.op = c.op /\ d.to = c.to /\ d.addr = c.addr /\ d.visit = c.visit
  BY <1>4, AskExcept
<1>6. asks' = (asks \ {c}) \cup {d}
  BY <1>1
<1> HIDE DEF d
<1>7. AskCall(d, visit)
  BY <1>2, <1>3, <1>5 DEF AskCall, Call
<1> QED BY <1>3, <1>5, <1>6, <1>7

\* What a call of the page adds.
LEMMA PageAsks ==
  ASSUME SiteTypes, SettingsTypes, onApplyDriveAddr \/ onClickSubmit \/ onApplyCode
  PROVE  \/ remoteAddr = NoAddr /\ asks' = asks
         \/ \E c : /\ AskCall(c, visit) /\ c.visit = visit /\ c.at = "asked"
                   /\ c.op = "health" \/ (c.op \in {"submit", "apply"} /\ c.addr = remoteAddr /\ c.val = form)
                   /\ asks' = asks \cup {c}
<1>1. FormTypes /\ visit \in Nat /\ visit \in 0..visit /\ remoteAddr \in Addr \cup {NoAddr}
  BY SettingsParts DEF SiteTypes
<1>2. ASSUME NEW op \in Ops, NEW a \in Addr \cup {NoAddr}, NEW val, FormType(val),
             asks' = PostTo(a, asks, NewAsk(op, a, val), visit)
      PROVE  \/ a = NoAddr /\ asks' = asks
             \/ \E c : /\ AskCall(c, visit) /\ c.visit = visit /\ c.at = "asked"
                       /\ c.op = op /\ c.addr = a /\ c.val = val /\ asks' = asks \cup {c}
  BY <1>1, <1>2, AskIs
<1>3. "health" \in Ops /\ "submit" \in Ops /\ "apply" \in Ops
  BY DEF Ops
<1>4. CASE onApplyDriveAddr
  <2>1. /\ asks' = PostTo(form.addr, asks, NewAsk("health", form.addr, NewForm(form.addr)), visit)
        /\ form.addr # NoAddr
    BY <1>4 DEF onApplyDriveAddr, Ask
  <2>2. FormType(NewForm(form.addr)) /\ form.addr \in Addr \cup {NoAddr}
    BY <1>1, NewFormType DEF FormTypes
  <2> QED BY <1>2, <1>3, <2>1, <2>2
<1>5. CASE onClickSubmit
  <2>1. asks' = PostTo(remoteAddr, asks, NewAsk("submit", remoteAddr, form), visit) /\ FormType(form)
    BY <1>1, <1>5 DEF onClickSubmit, Ask, FormTypes
  <2> QED BY <1>1, <1>2, <1>3, <2>1
<1>6. CASE onApplyCode
  <2>1. asks' = PostTo(remoteAddr, asks, NewAsk("apply", remoteAddr, form), visit) /\ FormType(form)
    BY <1>1, <1>6 DEF onApplyCode, Ask, FormTypes
  <2> QED BY <1>1, <1>2, <1>3, <2>1
<1> QED BY <1>4, <1>5, <1>6

\* The clicks and changes of the settings keep their types.
LEMMA PageTypes ==
  ASSUME SiteTypes, SettingsTypes,
         \/ \E a \in Addr : TypeAddr(a) \/ modalConfigChange(a)
         \/ \E k \in {"size", "delay"} : Change(k, 2)
         \/ \E s \in Script : Change("script", s)
         \/ onApplyDriveAddr \/ onClickSubmit \/ onApplyCode
         \/ modalHandleOk \/ modalHandleCancel
  PROVE  SettingsTypes'
<1>0. visit' = visit
  BY SettingsKept DEF SettingsNext
<1>1. ConfTypes /\ FormTypes /\ AsksTypes
  BY SettingsParts
<1>2. ConfTypes'
  BY <1>1 DEF ConfTypes, TypeAddr, modalConfigChange, Change, onApplyDriveAddr, onClickSubmit, onApplyCode,
    modalHandleOk, modalHandleCancel
<1>3. AsksTypes'
  <2>1. CASE asks' = asks
    BY <1>0, <1>1, <2>1 DEF AsksTypes
  <2>2. CASE onApplyDriveAddr \/ onClickSubmit \/ onApplyCode
    BY <1>0, <1>1, <2>2, PageAsks DEF AsksTypes
  <2> QED BY <2>1, <2>2 DEF TypeAddr, modalConfigChange, Change, modalHandleOk, modalHandleCancel
<1>4. FormTypes'
  <2>1. ASSUME NEW a \in Addr, TypeAddr(a)
        PROVE  FormTypes'
    <3>1. form' = [form EXCEPT !.addr = a] /\ address' = address
      BY <2>1 DEF TypeAddr
    <3> QED BY <1>1, <3>1 DEF FormTypes, FormType
  <2>2. ASSUME NEW k \in {"size", "delay", "script"}, NEW val,
               val \in IF k = "script" THEN Script ELSE Nat, Change(k, val)
        PROVE  FormTypes'
    <3>1. form' = [form EXCEPT ![k] = val] /\ address' = address
      BY <2>2 DEF Change
    <3> QED BY <1>1, <2>2, <3>1 DEF FormTypes, FormType
  <2>3. CASE \/ \E a \in Addr : modalConfigChange(a)
             \/ onApplyDriveAddr \/ onClickSubmit \/ onApplyCode \/ modalHandleOk \/ modalHandleCancel
    BY <1>1, <2>3 DEF FormTypes, modalConfigChange, onApplyDriveAddr, onClickSubmit, onApplyCode,
      modalHandleOk, modalHandleCancel
  <2> QED BY <2>1, <2>2, <2>3
<1> QED BY <1>2, <1>3, <1>4, SettingsParts, PTL

\* The steps of a call keep the types.
LEMMA AskStepTypes ==
  ASSUME SiteTypes, SettingsTypes, NEW c \in asks, ServeAsk(c) \/ AskAnswered(c) \/ LoseAsk(c)
  PROVE  SettingsTypes'
<1>0. visit' = visit
  BY SettingsKept DEF SettingsNext
<1>1. ConfTypes /\ FormTypes /\ AsksTypes /\ AskCall(c, visit)
  BY SettingsParts DEF AsksTypes
<1>2. c.addr \in Addr /\ c.to \in Addr /\ c.visit \in 0..visit /\ FormType(c.val) /\ visit \in Nat
  BY <1>1 DEF AskCall, Call, SiteTypes
<1>3. ConfTypes'
  <2>1. CASE ServeAsk(c)
    <3> DEFINE new == Configured(conf[c.addr], c)
    <3>1. conf' = [conf EXCEPT ![c.addr] = new]
      BY <2>1 DEF ServeAsk
    <3>2. ConfType(new)
      BY <1>1, <1>2, ConfiguredTypes DEF ConfTypes
    <3> HIDE DEF new
    <3> QED BY <1>1, <1>2, <3>1, <3>2 DEF ConfTypes
  <2>2. CASE AskAnswered(c) \/ LoseAsk(c)
    BY <1>1, <2>2 DEF ConfTypes, AskAnswered, LoseAsk
  <2> QED BY <2>1, <2>2
<1>4. AsksTypes'
  <2>1. CASE ServeAsk(c)
    BY <1>0, <1>1, <2>1, ServedIs DEF AsksTypes
  <2>2. CASE AskAnswered(c) /\ asks' = asks \ {c}
    BY <1>0, <1>1, <2>2 DEF AsksTypes
  <2>3. CASE AskAnswered(c) /\ asks' # asks \ {c}
    <3>1. asks' = syncForm(c.to, asks \ {c}, c.visit)
      BY <2>3 DEF AskAnswered, Healthy
    <3>2. \A d \in asks' : d \in asks \/ AskCall(d, visit)
      BY <1>2, <3>1, SyncFormIs
    <3> QED BY <1>0, <1>1, <3>2 DEF AsksTypes
  <2>4. CASE LoseAsk(c)
    BY <1>0, <1>1, <2>4 DEF AsksTypes, LoseAsk
  <2> QED BY <2>1, <2>2, <2>3, <2>4
<1>5. FormTypes'
  <2>1. CASE ServeAsk(c) \/ LoseAsk(c)
    BY <1>1, <2>1 DEF FormTypes, ServeAsk, LoseAsk
  <2>2. CASE AskAnswered(c)
    <3>1. PICK ks \in SUBSET {"size", "delay", "script"} :
            form' = form \/ form' = [k \in DOMAIN form |-> IF k \in ks THEN c.val[k] ELSE form[k]]
      BY <2>2 DEF AskAnswered, Fill
    <3>2. address' = address
      BY <2>2 DEF AskAnswered
    <3> QED BY <1>1, <1>2, <3>1, <3>2 DEF FormTypes, FormType
  <2> QED BY <2>1, <2>2
<1> QED BY <1>3, <1>4, <1>5, SettingsParts, PTL

\* Every step of the settings keeps their types.
LEMMA SettingsStepTypes == SiteTypes /\ SettingsTypes /\ SettingsNext => SettingsTypes'
BY PageTypes, AskStepTypes DEF SettingsNext

\* The other pages leave them.
LEMMA SettingsLeft ==
  ASSUME SettingsTypes, UNCHANGED settingsVars, visit' = visit
  PROVE  SettingsTypes'
BY DEF SettingsTypes, settingsVars

\* The settings open with a new form and a sync of their own visit.
LEMMA SettingsOpenTypes ==
  ASSUME SiteTypes, SettingsTypes, NEW p, SettingsOpen(p), visit' = visit + 1
  PROVE  SettingsTypes'
<1>1. ConfTypes /\ FormTypes /\ AsksTypes
  BY SettingsParts
<1>2. visit \in Nat /\ visit' \in Nat /\ visit' \in 0..visit' /\ remoteAddr \in Addr \cup {NoAddr}
  BY DEF SiteTypes
<1>3. \A c \in asks : AskCall(c, visit')
  BY <1>1, <1>2 DEF AsksTypes, AskCall, Call
<1>4. AsksTypes'
  <2>1. PICK w : w = visit'
    OBVIOUS
  <2>2. w \in Nat /\ w \in 0..w
    BY <1>2, <2>1
  <2>3. asks' = syncForm(remoteAddr, asks, w) \/ asks' = asks
    BY <2>1 DEF SettingsOpen
  <2>4. \A c \in asks' : c \in asks \/ AskCall(c, w)
    BY <1>2, <2>2, <2>3, SyncFormIs
  <2> QED BY <1>3, <2>1, <2>4 DEF AsksTypes
<1>5. ConfTypes'
  BY <1>1 DEF ConfTypes, SettingsOpen
<1>6. FormTypes'
  BY <1>1, <1>2, NewFormType DEF FormTypes, SettingsOpen
<1> QED BY <1>4, <1>5, <1>6, SettingsParts, PTL

\* The settings start well typed.
LEMMA SettingsInitTypes == SettingsInit => SettingsTypes
BY ConfAssumption, NewFormType DEF SettingsInit, SettingsTypes, Fields

-----------------------------------------------------------------------------
(* The types of the whole console. *)

\* The console starts well typed.
LEMMA TypesInit == Init => Types
<1> SUFFICES ASSUME Init PROVE Types
  OBVIOUS
<1>1. SiteTypes
  BY SiteAssumption DEF Init, SiteInit, SiteTypes
<1> QED BY <1>1, PrefabsInitTypes, BotInitTypes, StatusInitTypes, SettingsInitTypes DEF Init, Types

\* The steps of the pages.
PageStep ==
  \/ PrefabNext   /\ UNCHANGED <<botVars, statusVars, settingsVars>>
  \/ BotNext      /\ UNCHANGED <<prefabVars, statusVars, settingsVars>>
  \/ StatusNext   /\ UNCHANGED <<prefabVars, botVars, settingsVars>>
  \/ SettingsNext /\ UNCHANGED <<prefabVars, botVars, statusVars>>

\* A step opens a page or is one of the page shown or of a call on its way.
LEMMA Steps ==
  ASSUME Types, [Next]_vars
  PROVE  \/ UNCHANGED vars
         \/ \E p \in tour.pages : Goto(p) /\ tour' = tour
         \/ PageStep /\ tour' = tour
BY DEF Next, Step, PageStep

\* What a step of a page leaves of the visit.
LEMMA PageKept ==
  ASSUME Types, PageStep, tour' = tour
  PROVE  /\ page' = page /\ visit' = visit /\ lost' \in {lost, lost + 1}
         /\ remoteAddr' = remoteAddr \/ remoteAddr' \in Addr
         /\ ~SettingsNext => remoteAddr' = remoteAddr
         /\ SiteTypes'
<1>1. CASE ~SettingsNext
  <2>1. Kept
    BY <1>1, PrefabKept, BotKept, StatusKept DEF PageStep
  <2> QED BY <1>1, <2>1 DEF Kept, Types, SiteTypes
<1>2. CASE SettingsNext
  <2>1. /\ page' = page /\ visit' = visit /\ lost' \in {lost, lost + 1}
        /\ remoteAddr' = remoteAddr \/ remoteAddr' \in Addr
    BY <1>2, SettingsKept DEF Types
  <2> QED BY <1>2, <2>1 DEF Types, SiteTypes
<1> QED BY <1>1, <1>2

\* Opening a page keeps the types of all pages.
LEMMA OpenTypes ==
  ASSUME Types, NEW p \in tour.pages, Goto(p), tour' = tour
  PROVE  Types'
<1>1. visit' = visit + 1 /\ remoteAddr' = remoteAddr /\ lost' = lost /\ page' = p
  BY DEF Goto
<1>2. SiteTypes'
  BY <1>1 DEF Types, SiteTypes
<1> QED BY <1>1, <1>2, PrefabsOpenTypes, BotsOpenTypes, StatusOpenTypes, SettingsOpenTypes DEF Goto, Types

\* A step of one page keeps the types of all.
LEMMA PageTypesKept ==
  ASSUME Types, PageStep, tour' = tour
  PROVE  Types'
<1>1. SiteTypes' /\ visit' = visit /\ (remoteAddr' = remoteAddr \/ remoteAddr' \in Addr)
  BY PageKept
<1>2. PrefabTypes'
  BY <1>1, PrefabStepTypes, PrefabsLeft DEF Types, PageStep
<1>3. BotTypes'
  BY <1>1, BotStepTypes, BotsLeft DEF Types, PageStep
<1>4. StatusTypes'
  BY <1>1, StatusStepTypes, StatusLeft DEF Types, PageStep
<1>5. SettingsTypes'
  BY <1>1, SettingsStepTypes, SettingsLeft DEF Types, PageStep
<1> QED BY <1>1, <1>2, <1>3, <1>4, <1>5 DEF Types

\* Every step keeps the types.
LEMMA TypesStep == Types /\ [Next]_vars => Types'
<1> SUFFICES ASSUME Types, [Next]_vars PROVE Types'
  OBVIOUS
<1>1. CASE UNCHANGED vars
  <2>1. SiteTypes' /\ visit' = visit /\ remoteAddr' = remoteAddr
    BY <1>1 DEF vars, site, Types, SiteTypes
  <2> QED BY <1>1, <2>1, PrefabsLeft, BotsLeft, StatusLeft, SettingsLeft DEF vars, Types
<1> QED BY <1>1, Steps, OpenTypes, PageTypesKept

\* The types hold in every state; the invariants below start from here.
LEMMA TypesAlways == Spec => []Types
BY TypesInit, TypesStep, PTL DEF Spec

\* They say more than the type invariant of the runs.
LEMMA TypesOK == Types => TypeOK
<1> SUFFICES ASSUME Types PROVE TypeOK
  OBVIOUS
<1>0. visit \in Nat
  BY DEF Types, SiteTypes
<1>1. Calls(syncs) /\ Calls(puts)
  BY <1>0 DEF Types, PrefabTypes, SyncCall, PutCall, Call, Calls
<1>2. Calls(lists) /\ Calls(edits)
  BY <1>0 DEF Types, BotTypes, ListCall, EditCall, Call, Calls
<1>3. Calls(polls)
  BY <1>0 DEF Types, StatusTypes, PollCall, Call, Calls
<1>4. Calls(asks)
  BY <1>0 DEF Types, SettingsTypes, AskCall, Call, Calls
<1>5. \A r \in data : r.name \in Prefab /\ r.code \in Code \cup {NoCode} /\ r.tags \subseteq Tag
  BY DEF Types, PrefabTypes, Item
<1>6. \A i \in DOMAIN pmap : pmap[i].name \in Prefab
  <2>1. pmap \in Seq(Item)
    BY DEF Types, PrefabTypes
  <2>2. \A i \in DOMAIN pmap : pmap[i] \in Item
    BY <2>1
  <2> QED BY <2>2 DEF Item
<1>7. \A a \in Addr : conf[a].script \in Script /\ conf[a].delay > 0
  BY DEF Types, SettingsTypes
<1>8. page \in tour.pages \cup {"none"} /\ remoteAddr \in Addr \cup {NoAddr}
  BY DEF Types, SiteTypes
<1>9. /\ DOMAIN botLst \subseteq File /\ selectedRows \subseteq File
      /\ running \subseteq File /\ reports \subseteq Report /\ row \in reports \cup {NoReport}
  BY DEF Types, BotTypes, StatusTypes
<1> QED BY <1>1, <1>2, <1>3, <1>4, <1>5, <1>6, <1>7, <1>8, <1>9 DEF TypeOK

(* Every state of the console is well typed, whatever servers, files and   *)
(* tours there are.                                                        *)
THEOREM ConsoleTypeCorrect == Spec => []TypeOK
BY TypesAlways, TypesOK, PTL

-----------------------------------------------------------------------------
(* The charts. *)

\* What the steps of the other pages leave.
LEMMA StatusOnly ==
  ASSUME PageStep
  PROVE  UNCHANGED statusVars \/ StatusNext
BY DEF PageStep

Message == [of : Report, ty : Charts, visit : Nat]
Messages == published \in Seq(Message)

\* A click on a row publishes the data of that row last.
LEMMA ClickRowFacts ==
  ASSUME Types, Messages, NEW r \in Report \cup {NoReport}, NEW ty \in Charts, clickRow(r, ty)
  PROVE  /\ Messages'
         /\ r # NoReport => published' # <<>> /\ published'[Len(published')].of = r
         /\ r = NoReport => published' = published
<1>1. CASE r = NoReport
  BY <1>1 DEF clickRow, Messages
<1>2. CASE r # NoReport
  <2> DEFINE m == [of |-> r, ty |-> ty, visit |-> visit]
  <2>1. m \in Message /\ m.of = r
    BY <1>2 DEF Message, Types, SiteTypes
  <2>2. published' = Append(published, m)
    BY <1>2 DEF clickRow
  <2> HIDE DEF m
  <2> QED BY <1>2, <2>1, <2>2 DEF Messages
<1> QED BY <1>1, <1>2

\* Messages come in order, and the last one is of the row selected.
LEMMA ChartStep == Types /\ Messages /\ ChartInv /\ [Next]_vars => Messages' /\ ChartInv'
<1> SUFFICES ASSUME Types, Messages, ChartInv, [Next]_vars PROVE Messages' /\ ChartInv'
  OBVIOUS
<1>0. row \in Report \cup {NoReport}
  BY DEF Types, StatusTypes
<1>1. CASE UNCHANGED <<page, row, published, chart>>
  BY <1>1 DEF Messages, ChartInv
<1>2. ASSUME NEW p, Goto(p) PROVE Messages' /\ ChartInv'
  BY <1>2 DEF Goto, StatusOpen, Messages, ChartInv
<1>3. CASE PageStep /\ tour' = tour
  <2>0. page' = page
    BY <1>3, PageKept
  <2>1. CASE UNCHANGED <<row, published, chart>>
    BY <1>1, <2>0, <2>1
  <2>2. ASSUME NEW r \in Report, SelectReport(r) PROVE Messages' /\ ChartInv'
    <3>1. row' = r /\ chart' = chart /\ page = "report"
      BY <2>2 DEF SelectReport
    <3>2. CASE r = row
      BY <2>0, <2>2, <3>1, <3>2 DEF SelectReport, Messages, ChartInv
    <3>3. CASE r # row
      <4>1. clickRow(r, "avg_request_time_ms") /\ "avg_request_time_ms" \in Charts
        BY <2>2, <3>3 DEF SelectReport, Charts
      <4>2. /\ Messages'
            /\ r # NoReport => published' # <<>> /\ published'[Len(published')].of = r
        BY <4>1, ClickRowFacts
      <4> QED BY <2>0, <3>1, <4>2 DEF ChartInv
    <3> QED BY <3>2, <3>3
  <2>3. ASSUME NEW ty \in Charts, tableClick(ty) PROVE Messages' /\ ChartInv'
    <3>1. clickRow(row, ty) /\ row' = row /\ chart' = chart
      BY <2>3 DEF tableClick, statusPage
    <3>2. /\ Messages'
          /\ row # NoReport => published' # <<>> /\ published'[Len(published')].of = row
          /\ row = NoReport => published' = published
      BY <1>0, <3>1, ClickRowFacts
    <3> QED BY <2>0, <3>1, <3>2 DEF ChartInv
  <2>4. CASE Drawn
    <3>1. published # <<>> /\ published' = Tail(published) /\ row' = row
      BY <2>4 DEF Drawn
    <3>2. Messages' /\ Len(published) \in Nat \ {0} /\ Len(published') = Len(published) - 1
      BY <3>1 DEF Messages
    <3>3. CASE Len(published) = 1
      <4>1. published' = <<>> /\ Head(published) = published[Len(published)]
        BY <3>1, <3>2, <3>3 DEF Messages
      <4>2. page = "report" => chart'.of = Head(published).of
        BY <2>4 DEF Drawn
      <4> QED BY <2>0, <3>1, <3>2, <4>1, <4>2 DEF ChartInv
    <3>4. CASE Len(published) # 1
      <4>1. published' # <<>> /\ published'[Len(published')] = published[Len(published)]
        BY <3>1, <3>2, <3>4 DEF Messages
      <4> QED BY <2>0, <3>1, <3>2, <4>1 DEF ChartInv
    <3> QED BY <3>3, <3>4
  <2>5. UNCHANGED <<row, published, chart>> \/ Drawn \/ (\E r \in Report : SelectReport(r))
        \/ (\E ty \in Charts : tableClick(ty))
    BY <1>3, StatusOnly DEF statusVars, statusPage, StatusNext, Tick, Polled, PollFails, PollAnswered, Crash
  <2> QED BY <2>1, <2>2, <2>3, <2>4, <2>5
<1>4. UNCHANGED vars => UNCHANGED <<page, row, published, chart>>
  BY DEF vars, site, statusVars, statusPage
<1> QED BY <1>1, <1>2, <1>3, <1>4, Steps

(* Once all messages have come the charts show the report that is selected *)
(* (report.tsx, chart_tree.tsx), however many clicks and visits there were *)
(* before the first of them was drawn.                                     *)
THEOREM ChartsCorrect == Spec => []ChartOfRow
<1>1. Init => Messages /\ ChartInv
  BY DEF Init, StatusInit, Messages, ChartInv
<1>2. ChartInv => ChartOfRow
  BY DEF ChartInv, ChartOfRow
<1> QED BY <1>1, <1>2, ChartStep, TypesAlways, PTL DEF Spec

-----------------------------------------------------------------------------
(* The table of the files. *)

\* Only the bots page changes its files.
LEMMA BotsOnly ==
  ASSUME PageStep
  PROVE  UNCHANGED botVars \/ BotNext
BY DEF PageStep

\* Of no files the filter shows none.
LEMMA NothingShown ==
  ASSUME NEW bots, DOMAIN bots = {}, NEW S
  PROVE  Shown(bots, S) = Nothing
BY DEF Shown, Nothing

\* The table is made anew with the list or the tags it depends on.
LEMMA TableStep == Types /\ TableInv /\ [Next]_vars => TableInv'
<1> SUFFICES ASSUME Types, TableInv, [Next]_vars PROVE TableInv'
  OBVIOUS
<1>1. CASE UNCHANGED <<Bots, botLst, currentSelectedTags, outdated>>
  BY <1>1 DEF TableInv, TableShowsList
<1>2. ASSUME NEW p, Goto(p) PROVE TableInv'
  <2>1. Bots' = Nothing /\ botLst' = Nothing
    BY <1>2 DEF Goto, BotsOpen
  <2>2. DOMAIN Nothing = {}
    BY DEF Nothing
  <2>3. Shown(Nothing, currentSelectedTags') = Nothing
    BY <2>2, NothingShown
  <2> QED BY <2>1, <2>3 DEF TableInv, TableShowsList
<1>3. CASE PageStep /\ tour' = tour
  <2>1. ASSUME NEW l \in lists, Refreshed(l) PROVE TableInv'
    <3>1. CASE l.visit = visit /\ DOMAIN l.lst # {}
      <4>1. /\ Bots' = l.lst /\ botLst' = Shown(l.lst, l.tags) /\ outdated' = (l.tags # currentSelectedTags)
            /\ currentSelectedTags' = currentSelectedTags
        BY <2>1, <3>1 DEF Refreshed, fillBotList
      <4> QED BY <3>1, <4>1 DEF TableInv, TableShowsList
    <3>2. CASE ~(l.visit = visit /\ DOMAIN l.lst # {})
      BY <1>1, <2>1, <3>2 DEF Refreshed
    <3> QED BY <3>1, <3>2
  <2>2. ASSUME NEW S \in SUBSET FileTag, handleSelectChange(S) PROVE TableInv'
    <3>1. /\ Bots' = Bots /\ currentSelectedTags' = S
          /\ botLst' = IF DOMAIN Bots = {} THEN botLst ELSE Shown(Bots, S)
      BY <2>2 DEF handleSelectChange, fillBotList
    <3>2. DOMAIN Bots = {} => Shown(Bots, S) = Nothing
      BY NothingShown
    <3> QED BY <3>1, <3>2 DEF TableInv, TableShowsList
  <2>3. ASSUME NEW S \in SUBSET FileTag, NEW n \in File, updateBotTags(n, S) PROVE TableInv'
    <3>1. Bots' = Put(Bots, n, S) /\ fillBotList(Bots', currentSelectedTags)
          /\ currentSelectedTags' = currentSelectedTags
      BY <2>3 DEF updateBotTags
    <3>2. n \in DOMAIN Bots'
      BY <3>1 DEF Put
    <3>3. botLst' = Shown(Bots', currentSelectedTags)
      BY <3>1, <3>2 DEF fillBotList
    <3> QED BY <3>1, <3>2, <3>3 DEF TableInv, TableShowsList
  <2>4. \/ \E l \in lists : Refreshed(l)
        \/ \E S \in SUBSET FileTag : handleSelectChange(S) \/ \E n \in File : updateBotTags(n, S)
        \/ UNCHANGED <<Bots, botLst, currentSelectedTags, outdated>>
    BY <1>3, BotsOnly DEF botVars, botPage, BotNext, ReadFiles, LoseList, SelectRows, EnterRuns, UploadFile,
      handleBotRun, handleBotDelete, ServeEdit, EditAnswered, LoseEdit
  <2> QED BY <1>1, <2>1, <2>2, <2>3, <2>4
<1>4. UNCHANGED vars => UNCHANGED <<Bots, botLst, currentSelectedTags, outdated>>
  BY DEF vars, botVars, botPage
<1> QED BY <1>1, <1>2, <1>3, <1>4, Steps

(* The table of the bots page shows what of its list has the tags selected *)
(* (bots.tsx), but after an answer that came with tags selected earlier.   *)
THEOREM TableCorrect == Spec => []TableShowsList
<1>1. Init => TableInv
  <2>1. DOMAIN Nothing = {}
    BY DEF Nothing
  <2>2. Shown(Nothing, {}) = Nothing
    BY <2>1, NothingShown
  <2> QED BY <2>2 DEF Init, BotInit, TableInv, TableShowsList
<1>2. TableInv => TableShowsList
  BY DEF TableInv
<1> QED BY <1>1, <1>2, TableStep, TypesAlways, PTL DEF Spec

-----------------------------------------------------------------------------
(* The table of the prefabs. *)

\* Only the prefabs page changes the prefabs.
LEMMA PrefabsOnly ==
  ASSUME PageStep
  PROVE  UNCHANGED prefabVars \/ PrefabNext
BY DEF PageStep

\* The answer to a list has each name once.
LEMMA RowsFacts ==
  ASSUME NEW f
  PROVE  Distinct(Rows(f)) /\ Names(Rows(f)) = DOMAIN f
<1>1. Distinct(Rows(f))
  BY DEF Distinct, Rows
<1>2. ASSUME NEW n \in DOMAIN f PROVE n \in Names(Rows(f))
  <2>1. [name |-> n, tags |-> f[n].tags] \in Rows(f) /\ [name |-> n, tags |-> f[n].tags].name = n
    BY DEF Rows
  <2> QED BY <2>1 DEF Names
<1>3. ASSUME NEW e \in Rows(f) PROVE e.name \in DOMAIN f
  BY DEF Rows
<1> QED BY <1>1, <1>2, <1>3 DEF Names


SyncsRows == \A s \in syncs : SyncRows(s)

\* An entry goes from one set to another under its name.
LEMMA Moved ==
  ASSUME NEW A, NEW B, NEW C, NEW e \in A, NEW g, g.name = e.name,
         Distinct(A), Distinct(B), Distinct(C), Apart(A, B), Apart(A, C), Apart(B, C)
  PROVE  /\ Distinct(A \ {e}) /\ Distinct(B \cup {g})
         /\ Apart(A \ {e}, B \cup {g}) /\ Apart(A \ {e}, C) /\ Apart(B \cup {g}, C)
<1>1. Distinct(A \ {e})
  BY DEF Distinct
<1>2. Distinct(B \cup {g})
  BY DEF Distinct, Apart
<1>3. Apart(A \ {e}, B \cup {g})
  BY DEF Distinct, Apart
<1>4. Apart(A \ {e}, C) /\ Apart(B \cup {g}, C)
  BY DEF Apart
<1> QED BY <1>1, <1>2, <1>3, <1>4

\* It does not matter which of two sets comes first.
LEMMA ApartBoth == \A A, B : Apart(A, B) => Apart(B, A)
BY DEF Apart

\* Each step of a sync keeps its names apart.
LEMMA SyncRowsStep ==
  ASSUME Types, SyncsRows, NEW s \in syncs,
         \/ ReadList(s) \/ Listed(s) \/ LoseSync(s)
         \/ (\E e \in s.lst : ReadCode(s, e)) \/ (\E g \in s.read : Got(s, g))
  PROVE  SyncsRows'
<1>0. SyncRows(s) /\ PrefabTypes
  BY DEF SyncsRows, Types
<1>1. ASSUME NEW t, SyncRows(t), syncs' \subseteq (syncs \ {s}) \cup {t}
      PROVE  SyncsRows'
  BY <1>1 DEF SyncsRows
<1>2. CASE ReadList(s)
  <2>1. PICK t : /\ t.at = "listed" /\ t.lst = Rows(prefabs[s.addr])
                 /\ t.all = DOMAIN prefabs[s.addr] /\ t.read = s.read /\ t.dat = s.dat
                 /\ syncs' = (syncs \ {s}) \cup {t}
    BY <1>0, <1>2, ReadListIs
  <2>2. s.read = {} /\ s.dat = {}
    BY <1>0, <1>2 DEF ReadList, SyncRows
  <2>3. Distinct(t.lst) /\ Names(t.lst) = t.all
    BY <2>1, RowsFacts
  <2>4. Names(t.read) = {} /\ Names(t.dat) = {}
    BY <2>1, <2>2 DEF Names
  <2>5. SyncRows(t)
    BY <2>1, <2>2, <2>3, <2>4 DEF SyncRows, Distinct, Apart
  <2> QED BY <1>1, <2>1, <2>5
<1>3. CASE Listed(s)
  <2>1. PICK t : /\ t.at = "getting" /\ t.lst = s.lst /\ t.all = s.all
                 /\ t.read = s.read /\ t.dat = s.dat /\ t.broken = s.broken
                 /\ syncs' = (syncs \ {s}) \cup Left(t)
    BY <1>0, <1>3, ListedIs
  <2>2. s.at # "asked"
    BY <1>3 DEF Listed
  <2>3. SyncRows(t)
    BY <1>0, <2>1, <2>2 DEF SyncRows
  <2> QED BY <1>1, <2>1, <2>3, LeftIn
<1>4. ASSUME NEW e \in s.lst, ReadCode(s, e)
      PROVE  SyncsRows'
  <2>1. PICK t, g : /\ g.name = e.name /\ t.at = "getting" /\ t.lst = s.lst \ {e} /\ t.all = s.all
                    /\ t.read = s.read \cup {g} /\ t.dat = s.dat /\ t.broken = s.broken
                    /\ syncs' = (syncs \ {s}) \cup {t}
    BY <1>0, <1>4, ReadCodeIs
  <2>2. s.at # "asked"
    BY <1>4 DEF ReadCode
  <2>3. Names(t.lst) \cup Names(t.read) \cup Names(t.dat) = Names(s.lst) \cup Names(s.read) \cup Names(s.dat)
    <3>1. Names(t.lst) \subseteq Names(s.lst) /\ Names(s.lst) \subseteq Names(t.lst) \cup {e.name}
      BY <2>1 DEF Names
    <3>2. Names(t.read) = Names(s.read) \cup {e.name} /\ e.name \in Names(s.lst)
      BY <2>1 DEF Names
    <3> QED BY <2>1, <3>1, <3>2
  <2>4. SyncRows(t)
    <3>1. /\ Distinct(s.lst) /\ Distinct(s.read) /\ Distinct(s.dat)
          /\ Apart(s.lst, s.read) /\ Apart(s.lst, s.dat) /\ Apart(s.read, s.dat)
          /\ ~s.broken => Names(s.lst) \cup Names(s.read) \cup Names(s.dat) = s.all
      BY <1>0, <2>2 DEF SyncRows
    <3>2. /\ Distinct(t.lst) /\ Distinct(t.read) /\ Distinct(t.dat)
          /\ Apart(t.lst, t.read) /\ Apart(t.lst, t.dat) /\ Apart(t.read, t.dat)
      <4>1. g.name = e.name
        BY <2>1
      <4>2. /\ Distinct(s.lst \ {e}) /\ Distinct(s.read \cup {g}) /\ Apart(s.lst \ {e}, s.read \cup {g})
            /\ Apart(s.lst \ {e}, s.dat) /\ Apart(s.read \cup {g}, s.dat)
        BY <3>1, <4>1, Moved
      <4> QED BY <2>1, <3>1, <4>2
    <3> QED BY <2>1, <2>3, <3>1, <3>2 DEF SyncRows
  <2> QED BY <1>1, <2>1, <2>4
<1>5. ASSUME NEW g \in s.read, Got(s, g)
      PROVE  SyncsRows'
  <2>1. PICK t : /\ t.at = "getting" /\ t.lst = s.lst /\ t.all = s.all
                 /\ t.read = s.read \ {g} /\ t.dat = s.dat \cup {g} /\ t.broken = s.broken
                 /\ syncs' = (syncs \ {s}) \cup Left(t)
    BY <1>0, <1>5, GotIs
  <2>2. s.at # "asked"
    BY <1>5 DEF Got
  <2>3. Names(t.lst) \cup Names(t.read) \cup Names(t.dat) = Names(s.lst) \cup Names(s.read) \cup Names(s.dat)
    <3>1. Names(t.read) \subseteq Names(s.read) /\ Names(s.read) \subseteq Names(t.read) \cup {g.name}
      BY <2>1 DEF Names
    <3>2. Names(t.dat) = Names(s.dat) \cup {g.name} /\ g.name \in Names(s.read)
      BY <2>1 DEF Names
    <3> QED BY <2>1, <3>1, <3>2
  <2>4. SyncRows(t)
    <3>1. /\ Distinct(s.lst) /\ Distinct(s.read) /\ Distinct(s.dat)
          /\ Apart(s.read, s.lst) /\ Apart(s.dat, s.lst) /\ Apart(s.read, s.dat)
          /\ ~s.broken => Names(s.lst) \cup Names(s.read) \cup Names(s.dat) = s.all
      BY <1>0, <2>2, ApartBoth DEF SyncRows
    <3>2. /\ Distinct(t.lst) /\ Distinct(t.read) /\ Distinct(t.dat)
          /\ Apart(t.read, t.dat) /\ Apart(t.read, t.lst) /\ Apart(t.dat, t.lst)
      <4>1. /\ Distinct(s.read \ {g}) /\ Distinct(s.dat \cup {g}) /\ Apart(s.read \ {g}, s.dat \cup {g})
            /\ Apart(s.read \ {g}, s.lst) /\ Apart(s.dat \cup {g}, s.lst)
        BY <3>1, Moved
      <4> QED BY <2>1, <3>1, <4>1
    <3> QED BY <2>1, <2>3, <3>1, <3>2, ApartBoth DEF SyncRows
  <2> QED BY <1>1, <2>1, <2>4, LeftIn
<1>6. CASE LoseSync(s)
  <2>1. CASE syncs' = syncs \ {s}
    BY <2>1 DEF SyncsRows
  <2>2. CASE syncs' # syncs \ {s}
    <3>0. PICK e \in s.lst : \E t :
           /\ t.at = "getting" /\ t.lst = s.lst \ {e} /\ t.read = s.read /\ t.dat = s.dat /\ t.broken
           /\ syncs' = (syncs \ {s}) \cup Left(t)
      BY <1>0, <1>6, <2>2, LoseSyncIs
    <3>1. PICK t :
           /\ t.at = "getting" /\ t.lst = s.lst \ {e} /\ t.read = s.read /\ t.dat = s.dat /\ t.broken
           /\ syncs' = (syncs \ {s}) \cup Left(t)
      BY <3>0
    <3>2. SyncRows(t)
      BY <1>0, <3>1 DEF SyncRows, Distinct, Apart
    <3> QED BY <1>1, <3>1, <3>2, LeftIn
  <2> QED BY <2>1, <2>2
<1> QED BY <1>2, <1>3, <1>4, <1>5, <1>6

\* A new sync has no rows.
LEMMA NewSyncRows ==
  ASSUME SyncsRows, NEW v, syncConfig(v)
  PROVE  SyncsRows'
<1>1. CASE remoteAddr = NoAddr
  BY <1>1, SyncConfigIs DEF SyncsRows
<1>2. CASE remoteAddr # NoAddr
  <2>1. PICK s : /\ s.at = "asked" /\ s.lst = {} /\ s.read = {} /\ s.dat = {} /\ syncs' = syncs \cup {s}
    BY <1>2, SyncConfigIs
  <2>2. SyncRows(s)
    BY <2>1 DEF SyncRows, Distinct, Apart
  <2> QED BY <2>1, <2>2 DEF SyncsRows
<1> QED BY <1>1, <1>2

\* The last answer brings all rows of its list.
LEMMA GotRows ==
  ASSUME Types, SyncsRows, RowsOfOneListing, NEW s \in syncs, NEW g \in s.read, Got(s, g)
  PROVE  RowsOfOneListing'
<1>0. SyncRows(s) /\ PrefabTypes
  BY DEF SyncsRows, Types
<1>1. PICK t : /\ t.lst = s.lst /\ t.read = s.read \ {g} /\ t.dat = s.dat \cup {g}
               /\ IF Left(t) = {} /\ ~s.broken /\ s.visit = visit
                  THEN data' = t.dat /\ listing' = s.all
                  ELSE UNCHANGED <<data, listing>>
  BY <1>0, GotIs
<1>2. CASE Left(t) = {} /\ ~s.broken /\ s.visit = visit
  <2>1. s.lst = {} /\ s.read = {g}
    BY <1>1, <1>2 DEF Left
  <2>2. s.at # "asked"
    BY DEF Got
  <2>3. Names(s.lst) \cup Names(s.read) \cup Names(s.dat) = s.all
    BY <1>0, <1>2, <2>2 DEF SyncRows
  <2>4. Names(t.dat) = s.all
    BY <1>1, <2>1, <2>3 DEF Names
  <2>5. Distinct(t.dat)
    BY <1>0, <1>1 DEF SyncRows, Distinct, Apart
  <2> QED BY <1>1, <1>2, <2>4, <2>5 DEF RowsOfOneListing, Distinct
<1>3. CASE ~(Left(t) = {} /\ ~s.broken /\ s.visit = visit)
  BY <1>1, <1>3 DEF RowsOfOneListing
<1> QED BY <1>2, <1>3

\* A change of tags keeps the rows.
LEMMA TagRows ==
  ASSUME Types, RowsOfOneListing, NEW n, NEW tags, updateTags(n, tags)
  PROVE  RowsOfOneListing'
<1> DEFINE new(r) == IF r.name = n THEN [r EXCEPT !.tags = tags] ELSE r
<1>1. data' = {new(r) : r \in data} /\ listing' = listing
  BY DEF updateTags
<1>2. ASSUME NEW r \in data PROVE new(r).name = r.name
  BY DEF Types, PrefabTypes, Item
<1> HIDE DEF new
<1>3. Names(data') = Names(data)
  BY <1>1, <1>2 DEF Names
<1>4. \A r, t \in data' : r.name = t.name => r = t
  BY <1>1, <1>2 DEF RowsOfOneListing
<1> QED BY <1>1, <1>3, <1>4 DEF RowsOfOneListing

\* Every step keeps each name once, in one set of its sync.
LEMMA RowsStep == Types /\ RowsInv /\ [Next]_vars => RowsInv'
<1> SUFFICES ASSUME Types, RowsInv, [Next]_vars PROVE RowsOfOneListing' /\ SyncsRows'
  BY DEF RowsInv, SyncsRows
<1>0. RowsOfOneListing /\ SyncsRows
  BY DEF RowsInv, SyncsRows
<1>1. CASE UNCHANGED <<data, listing, syncs>>
  BY <1>0, <1>1 DEF RowsOfOneListing, SyncsRows
<1>2. ASSUME NEW p, Goto(p) PROVE RowsOfOneListing' /\ SyncsRows'
  <2>1. data' = {} /\ listing' = {} /\ ((\E v : syncConfig(v)) \/ syncs' = syncs)
    BY <1>2 DEF Goto, PrefabsOpen
  <2>2. RowsOfOneListing'
    BY <2>1 DEF RowsOfOneListing, Names
  <2>3. SyncsRows'
    BY <1>0, <2>1, NewSyncRows DEF SyncsRows
  <2> QED BY <2>2, <2>3
<1>3. CASE PageStep /\ tour' = tour
  <2>1. ASSUME NEW s \in syncs,
               \/ ReadList(s) \/ Listed(s) \/ LoseSync(s)
               \/ (\E e \in s.lst : ReadCode(s, e)) \/ (\E g \in s.read : Got(s, g))
        PROVE  RowsOfOneListing' /\ SyncsRows'
    <3>1. SyncsRows'
      BY <1>0, <2>1, SyncRowsStep
    <3>2. UNCHANGED <<data, listing>> \/ \E g \in s.read : Got(s, g)
      BY <2>1 DEF ReadList, Listed, LoseSync, ReadCode, prefabPage
    <3>3. RowsOfOneListing'
      BY <1>0, <3>2, GotRows DEF RowsOfOneListing
    <3> QED BY <3>1, <3>3
  <2>2. ASSUME NEW n \in Prefab, NEW tags \in SUBSET Tag, updateTags(n, tags)
        PROVE  RowsOfOneListing' /\ SyncsRows'
    BY <1>0, <2>2, TagRows DEF SyncsRows, updateTags
  <2>3. ASSUME NEW u \in puts, Answered(u)
        PROVE  RowsOfOneListing' /\ SyncsRows'
    <3>1. UNCHANGED <<data, listing>> /\ ((\E v : syncConfig(v)) \/ syncs' = syncs)
      BY <2>3 DEF Answered, prefabPage
    <3> QED BY <1>0, <3>1, NewSyncRows DEF SyncsRows, RowsOfOneListing
  <2>4. \/ UNCHANGED <<data, listing, syncs>>
        \/ \E s \in syncs : ReadList(s) \/ Listed(s) \/ LoseSync(s)
                            \/ (\E e \in s.lst : ReadCode(s, e)) \/ (\E g \in s.read : Got(s, g))
        \/ \E n \in Prefab, tags \in SUBSET Tag : updateTags(n, tags)
        \/ \E u \in puts : Answered(u)
    BY <1>3, PrefabsOnly DEF prefabVars, prefabPage, PrefabNext, SelectRow, handleSearch, Add, EditCode,
      onHandleUpdate, onHandleRemove, FilterPane, Serve, LosePut
  <2> QED BY <1>1, <2>1, <2>2, <2>3, <2>4
<1>4. UNCHANGED vars => UNCHANGED <<data, listing, syncs>>
  BY DEF vars, prefabVars, prefabPage
<1> QED BY <1>1, <1>2, <1>3, <1>4, Steps

(* The table of the prefabs (prefab.tsx) shows every prefab that one list  *)
(* of the server named, each once, however many syncs overlap and whatever *)
(* of them is lost.                                                        *)
THEOREM RowsCorrect == Spec => []RowsOfOneListing
<1>1. Init => RowsInv
  <2> SUFFICES ASSUME Init PROVE RowsInv
    OBVIOUS
  <2>1. RowsOfOneListing
    BY DEF Init, PrefabInit, RowsOfOneListing, Names
  <2>2. syncs = PostTo(remoteAddr, {}, NewSync, 0)
    BY DEF Init, PrefabInit
  <2>3. \A s \in syncs : SyncRows(s)
    <3>1. PICK none, v : none = {} /\ v = 0
      OBVIOUS
    <3>2. CASE remoteAddr = NoAddr
      BY <2>2, <3>1, <3>2, PostSync
    <3>3. CASE remoteAddr # NoAddr
      <4>1. PICK s : /\ s.at = "asked" /\ s.lst = {} /\ s.read = {} /\ s.dat = {}
                     /\ PostTo(remoteAddr, none, NewSync, v) = none \cup {s}
        BY <3>3, PostSync
      <4>2. SyncRows(s)
        BY <4>1 DEF SyncRows, Distinct, Apart
      <4> QED BY <2>2, <3>1, <4>1, <4>2
    <3> QED BY <3>2, <3>3
  <2> QED BY <2>1, <2>3 DEF RowsInv
<1>2. RowsInv => RowsOfOneListing
  BY DEF RowsInv
<1> QED BY <1>1, <1>2, RowsStep, TypesAlways, PTL DEF Spec

-----------------------------------------------------------------------------
(* Answers that come too late. *)

\* A step that takes away no call but c, which is of the visit shown, takes no late one.
LEMMA NotLate ==
  ASSUME NEW S, NEW T, \A c \in S : c \in T \/ c.visit = visit
  PROVE  ~Late(S, T)
BY DEF Late

PrefabSilent == UNCHANGED <<prefabPage, prefabLst>>
\* A late answer to the prefabs page leaves the table shown.
LEMMA PrefabsSilent ==
  ASSUME PrefabNext, Late(syncs, syncs') \/ Late(puts, puts')
  PROVE  PrefabSilent
<1>1. ASSUME NEW s \in syncs, NEW g \in s.read, Got(s, g)
      PROVE  PrefabSilent
  <2>1. CASE s.visit = visit
    <3>1. puts' = puts /\ \A r \in syncs : r \in syncs' \/ r = s
      BY <1>1 DEF Got
    <3> QED BY <2>1, <3>1, NotLate
  <2>2. CASE s.visit # visit
    BY <1>1, <2>2 DEF Got, PrefabSilent, prefabPage
  <2> QED BY <2>1, <2>2
<1>2. ASSUME \/ \E r \in data : SelectRow(r)
             \/ \E n \in Prefab : handleSearch(n) \/ Add(n) \/ \E tags \in SUBSET Tag : updateTags(n, tags)
             \/ \E c \in Code : EditCode(c)
             \/ onHandleUpdate \/ onHandleRemove
             \/ \E S \in SUBSET Tag : FilterPane(S)
      PROVE  PrefabSilent
  <2>1. syncs' = syncs /\ puts \subseteq puts'
    BY <1>2, PostKeeps DEF SelectRow, handleSearch, Add, updateTags, EditCode, onHandleUpdate, onHandleRemove,
      FilterPane, PutTo
  <2> QED BY <2>1, NotLate
<1>3. ASSUME \/ \E s \in syncs : ReadList(s) \/ Listed(s) \/ LoseSync(s) \/ \E e \in s.lst : ReadCode(s, e)
             \/ \E u \in puts : Serve(u) \/ Answered(u) \/ LosePut(u)
      PROVE  PrefabSilent
  BY <1>3 DEF PrefabSilent, ReadList, Listed, LoseSync, ReadCode, Serve, Answered, LosePut
<1> QED BY <1>1, <1>2, <1>3 DEF PrefabNext

\* A late answer to the bots page leaves the page shown.
LEMMA BotsSilent ==
  ASSUME Types, BotNext, Late(lists, lists') \/ Late(edits, edits')
  PROVE  UNCHANGED botPage
<1>1. ASSUME NEW l \in lists, Refreshed(l)
      PROVE  UNCHANGED botPage
  <2>1. CASE l.visit = visit
    <3>1. edits' = edits /\ \A r \in lists : r \in lists' \/ r = l
      BY <1>1 DEF Refreshed
    <3> QED BY <2>1, <3>1, NotLate
  <2>2. CASE l.visit # visit
    BY <1>1, <2>2 DEF Refreshed, botPage
  <2> QED BY <2>1, <2>2
<1>2. ASSUME \/ \E S \in SUBSET FileTag : handleSelectChange(S)
             \/ \E ns \in SUBSET File : SelectRows(ns)
             \/ \E n \in File : EnterRuns(n)
      PROVE  UNCHANGED botPage
  <2>1. lists' = lists /\ edits' = edits
    BY <1>2 DEF handleSelectChange, SelectRows, EnterRuns
  <2> QED BY <2>1, NotLate
<1>3. ASSUME NEW n \in File, NEW S \in SUBSET FileTag, updateBotTags(n, S)
      PROVE  UNCHANGED botPage
  <2>1. lists' = lists /\ edits \subseteq edits'
    BY <1>3, PostKeeps DEF updateBotTags, Edit, EditAt
  <2> QED BY <2>1, NotLate
<1>4. ASSUME \/ \E n \in File : UploadFile(n)
             \/ handleBotRun \/ handleBotDelete
             \/ \E l \in lists : ReadFiles(l) \/ LoseList(l)
             \/ \E e \in edits : ServeEdit(e) \/ EditAnswered(e) \/ LoseEdit(e)
      PROVE  UNCHANGED botPage
  BY <1>4 DEF UploadFile, handleBotRun, handleBotDelete, ReadFiles, LoseList, ServeEdit, EditAnswered, LoseEdit
<1> QED BY <1>1, <1>2, <1>3, <1>4 DEF BotNext

StatusSilent == UNCHANGED <<statusPage, heartColor>>
\* A late answer to a poll leaves the page shown.
LEMMA StatusesSilent ==
  ASSUME StatusNext, Late(polls, polls')
  PROVE  StatusSilent
<1>1. ASSUME NEW c \in polls, PollAnswered(c)
      PROVE  StatusSilent
  <2>1. CASE c.visit = visit
    <3>1. \A r \in polls : r \in polls' \/ r = c
      BY <1>1 DEF PollAnswered
    <3> QED BY <2>1, <3>1, NotLate
  <2>2. CASE c.visit # visit
    BY <1>1, <2>2 DEF PollAnswered, Ping, StatusSilent, statusPage
  <2> QED BY <2>1, <2>2
<1>2. ASSUME \/ \E t \in timers : Tick(t)
             \/ \E a \in Addr : Crash(a)
             \/ \E r \in Report : SelectReport(r)
             \/ \E ty \in Charts : tableClick(ty)
             \/ Drawn
      PROVE  StatusSilent
  <2>1. polls \subseteq polls'
    BY <1>2 DEF Tick, Crash, SelectReport, tableClick, Drawn
  <2> QED BY <2>1, NotLate
<1>3. ASSUME NEW c \in polls, Polled(c) \/ PollFails(c)
      PROVE  StatusSilent
  BY <1>3 DEF Polled, PollFails, StatusSilent
<1> QED BY <1>1, <1>2, <1>3 DEF StatusNext

\* A late answer to the settings leaves the form shown.
LEMMA FormSilent ==
  ASSUME SettingsNext, Late(asks, asks')
  PROVE  UNCHANGED form
<1>1. ASSUME NEW c \in asks, AskAnswered(c)
      PROVE  UNCHANGED form
  <2>1. CASE c.visit = visit
    <3>1. asks \ {c} \subseteq asks'
      BY <1>1, PostKeeps DEF AskAnswered, Healthy, syncForm
    <3> QED BY <2>1, <3>1, NotLate
  <2>2. CASE c.visit # visit
    BY <1>1, <2>2 DEF AskAnswered, Fill
  <2> QED BY <2>1, <2>2
<1>2. ASSUME \/ \E a \in Addr : TypeAddr(a)
             \/ \E k \in {"size", "delay"} : Change(k, 2)
             \/ \E s \in Script : Change("script", s)
      PROVE  UNCHANGED form
  <2>1. asks' = asks
    BY <1>2 DEF TypeAddr, Change
  <2> QED BY <2>1, NotLate
<1>3. ASSUME \/ \E a \in Addr : modalConfigChange(a)
             \/ onApplyDriveAddr \/ onClickSubmit \/ onApplyCode \/ modalHandleOk \/ modalHandleCancel
             \/ \E c \in asks : ServeAsk(c) \/ LoseAsk(c)
      PROVE  UNCHANGED form
  BY <1>3 DEF modalConfigChange, onApplyDriveAddr, onClickSubmit, onApplyCode, modalHandleOk,
    modalHandleCancel, ServeAsk, LoseAsk
<1> QED BY <1>1, <1>2, <1>3 DEF SettingsNext

Silent == UNCHANGED <<prefabPage, prefabLst, botPage, statusPage, heartColor, form>>

\* No late answer changes what is shown, of whichever page it is.
LEMMA LateStep ==
  ASSUME Types, [Next]_vars, visit' = visit, SomeLate
  PROVE  Silent
<1>1. CASE UNCHANGED vars
  BY <1>1 DEF vars, prefabVars, botVars, statusVars, settingsVars, Silent
<1>2. ASSUME NEW p, Goto(p) PROVE FALSE
  <2>1. visit' = visit + 1 /\ visit \in Nat
    BY <1>2 DEF Goto, Types, SiteTypes
  <2> QED BY <2>1
<1>3. CASE PageStep
  <2>1. UNCHANGED prefabVars => PrefabSilent /\ ~Late(syncs, syncs') /\ ~Late(puts, puts')
    BY NotLate DEF prefabVars, PrefabSilent
  <2>2. UNCHANGED botVars => UNCHANGED botPage /\ ~Late(lists, lists') /\ ~Late(edits, edits')
    BY NotLate DEF botVars
  <2>3. UNCHANGED statusVars => StatusSilent /\ ~Late(polls, polls')
    BY NotLate DEF statusVars, StatusSilent
  <2>4. UNCHANGED settingsVars => UNCHANGED form /\ ~Late(asks, asks')
    BY NotLate DEF settingsVars
  <2>5. CASE PrefabNext /\ UNCHANGED <<botVars, statusVars, settingsVars>>
    BY <2>2, <2>3, <2>4, <2>5, PrefabsSilent DEF SomeLate, Silent, PrefabSilent, StatusSilent
  <2>6. CASE BotNext /\ UNCHANGED <<prefabVars, statusVars, settingsVars>>
    BY <2>1, <2>3, <2>4, <2>6, BotsSilent DEF SomeLate, Silent, PrefabSilent, StatusSilent
  <2>7. CASE StatusNext /\ UNCHANGED <<prefabVars, botVars, settingsVars>>
    BY <2>1, <2>2, <2>4, <2>7, StatusesSilent DEF SomeLate, Silent, PrefabSilent, StatusSilent
  <2>8. CASE SettingsNext /\ UNCHANGED <<prefabVars, botVars, statusVars>>
    BY <2>1, <2>2, <2>3, <2>8, FormSilent DEF SomeLate, Silent, PrefabSilent, StatusSilent
  <2> QED BY <1>3, <2>5, <2>6, <2>7, <2>8 DEF PageStep
<1> QED BY <1>1, <1>2, <1>3, Steps

(* An answer to a call of a page that has been left changes nothing that   *)
(* the page shown has, whichever page it is and however often it has been  *)
(* opened.                                                                 *)
THEOREM LateAnswersIgnored == Spec => LateAnswersSilent
<1>1. Types /\ [Next]_vars =>
        [visit' = visit /\ SomeLate =>
           UNCHANGED <<prefabPage, prefabLst, botPage, statusPage, heartColor, form>>]_vars
  BY LateStep DEF Silent
<1> QED BY <1>1, TypesAlways, PTL DEF Spec, LateAnswersSilent

-----------------------------------------------------------------------------
(* The prefabs offered. *)

\* Prefab n has the code c on the server the slice is filled from.
There(n, c) == n \in DOMAIN prefabs[synced] /\ c = prefabs[synced][n].code

AllThere == \A n, c : There(n, c) => Has(n, c) \/ Coming(n, c)
\* All prefabs are on their way, entry by entry.
LEMMA AllIsThere == AllComing <=> AllThere
BY DEF AllComing, AllThere, There

\* A step of a sync that keeps what it brings keeps what is on its way.
LEMMA StillComing ==
  ASSUME NEW s, NEW t, NEW T \in SUBSET {t}, syncs' = (syncs \ {s}) \cup T,
         synced' = synced, UNCHANGED <<prefabs, puts>>, s.at # "asked", Uploaded \/ Asking \/ AllComing,
         \A n, c : There(n, c) =>
           /\ Has(n, c) => Has(n, c)'
           /\ s.addr = synced /\ Brings(s, n, c) => Has(n, c)' \/ (t \in T /\ t.addr = synced /\ Brings(t, n, c))
  PROVE  Uploaded' \/ Asking' \/ AllComing'
<1>1. Uploaded => Uploaded'
  BY DEF Uploaded
<1>2. Asking => Asking'
  BY DEF Asking
<1>3. ASSUME AllComing PROVE AllComing'
  <2>1. ASSUME NEW n, NEW c, There(n, c)'
        PROVE  Has(n, c)' \/ Coming(n, c)'
    <3>1. There(n, c)
      BY <2>1 DEF There
    <3>2. /\ Has(n, c) => Has(n, c)'
          /\ s.addr = synced /\ Brings(s, n, c) => Has(n, c)' \/ (t \in T /\ t.addr = synced /\ Brings(t, n, c))
          /\ Has(n, c) \/ Coming(n, c)
      BY <1>3, <3>1, AllIsThere DEF AllThere
    <3>3. CASE Coming(n, c)
      <4>1. PICK r \in syncs : r.addr = synced /\ Brings(r, n, c)
        BY <3>3 DEF Coming
      <4>2. Coming(n, c)' <=> \E q \in syncs' : q.addr = synced /\ Brings(q, n, c)
        BY DEF Coming
      <4> QED BY <3>2, <4>1, <4>2
    <3> QED BY <3>2, <3>3
  <2>2. AllThere'
    BY <2>1 DEF AllThere
  <2> QED BY <2>2, AllIsThere, PTL
<1> QED BY <1>1, <1>2, <1>3

\* The list of a sync brings all there is.
LEMMA ReadListOffers ==
  ASSUME Types, NEW s \in syncs, ReadList(s), Uploaded \/ Asking \/ AllComing
  PROVE  Uploaded' \/ Asking' \/ AllComing'
<1>0. synced' = synced /\ UNCHANGED <<prefabs, puts, pmap>> /\ s.at = "asked"
  BY DEF ReadList
<1>1. PICK t : /\ t.at = "listed" /\ t.lst = Rows(prefabs[s.addr]) /\ t.read = s.read /\ t.addr = s.addr
               /\ syncs' = (syncs \ {s}) \cup {t}
  BY ReadListIs DEF Types
<1>2. Uploaded => Uploaded'
  BY <1>0 DEF Uploaded
<1>3. CASE s.addr = synced
  <2>1. ASSUME NEW n, NEW c, There(n, c)' PROVE Coming(n, c)'
    <3>1. n \in DOMAIN prefabs[s.addr]
      BY <1>0, <1>3, <2>1 DEF There
    <3>2. n \in Names(t.lst)
      BY <1>1, <3>1, RowsFacts
    <3>3. Brings(t, n, c)
      BY <1>1, <3>2 DEF Names, Brings
    <3> QED BY <1>0, <1>1, <1>3, <3>3 DEF Coming
  <2>2. AllThere'
    BY <2>1 DEF AllThere
  <2> QED BY <2>2, AllIsThere, PTL
<1>4. CASE s.addr # synced
  <2>1. Asking => Asking'
    BY <1>0, <1>1, <1>4 DEF Asking
  <2>2. ASSUME AllComing PROVE AllComing'
    <3>1. ASSUME NEW n, NEW c, There(n, c)' PROVE Has(n, c)' \/ Coming(n, c)'
      <4>1. Has(n, c) \/ Coming(n, c)
        BY <1>0, <2>2, <3>1, AllIsThere DEF There, AllThere
      <4>2. Has(n, c) => Has(n, c)'
        BY <1>0 DEF Has
      <4>3. Coming(n, c) => Coming(n, c)'
        BY <1>0, <1>1, <1>4 DEF Coming
      <4> QED BY <4>1, <4>2, <4>3
    <3>2. AllThere'
      BY <3>1 DEF AllThere
    <3> QED BY <3>2, AllIsThere, PTL
  <2> QED BY <1>2, <2>1, <2>2
<1> QED BY <1>3, <1>4

\* Every step of a sync keeps the prefabs on their way.
LEMMA SyncOffers ==
  ASSUME Types, NEW s \in syncs, Uploaded \/ Asking \/ AllComing, synced' # NoAddr, lost' = 0,
         \/ ReadList(s) \/ Listed(s) \/ LoseSync(s)
         \/ (\E e \in s.lst : ReadCode(s, e)) \/ (\E g \in s.read : Got(s, g))
  PROVE  Uploaded' \/ Asking' \/ AllComing'
<1>0. PrefabTypes /\ lost \in Nat
  BY DEF Types, SiteTypes
<1>1. CASE Listed(s)
  <2>1. PICK t : /\ t.at = "getting" /\ t.lst = s.lst /\ t.read = s.read /\ t.addr = remoteAddr
                 /\ syncs' = (syncs \ {s}) \cup Left(t)
    BY <1>0, <1>1, ListedIs
  <2>2. /\ s.at = "listed" /\ s.addr = remoteAddr /\ synced' = synced /\ UNCHANGED <<prefabs, puts, pmap>>
    BY <1>1 DEF Listed
  <2>3. Left(t) \in SUBSET {t}
    BY LeftIn
  <2>4. \A n, c : Has(n, c) => Has(n, c)'
    BY <2>2 DEF Has
  <2>5. \A n, c : Brings(s, n, c) => t \in Left(t) /\ Brings(t, n, c)
    BY <2>1 DEF Brings, Left
  <2> QED BY <2>1, <2>2, <2>3, <2>4, <2>5, StillComing
<1>2. ASSUME NEW e \in s.lst, ReadCode(s, e)
      PROVE  Uploaded' \/ Asking' \/ AllComing'
  <2>1. PICK t, g : /\ g.name = e.name
                    /\ e.name \in DOMAIN prefabs[s.addr] => g.code = prefabs[s.addr][e.name].code
                    /\ t.at = "getting" /\ t.lst = s.lst \ {e} /\ t.read = s.read \cup {g} /\ t.addr = s.addr
                    /\ syncs' = (syncs \ {s}) \cup {t}
    BY <1>0, <1>2, ReadCodeIs
  <2>2. s.at = "getting" /\ synced' = synced /\ UNCHANGED <<prefabs, puts, pmap>>
    BY <1>2 DEF ReadCode
  <2>3. \A n, c : Has(n, c) => Has(n, c)'
    BY <2>2 DEF Has
  <2>4. \A n, c : There(n, c) /\ s.addr = synced /\ Brings(s, n, c) => Brings(t, n, c)
    BY <2>1, <2>2 DEF Brings, There
  <2> QED BY <2>1, <2>2, <2>3, <2>4, StillComing
<1>3. ASSUME NEW g \in s.read, Got(s, g)
      PROVE  Uploaded' \/ Asking' \/ AllComing'
  <2>1. PICK t : /\ t.at = "getting" /\ t.lst = s.lst /\ t.read = s.read \ {g} /\ t.addr = s.addr
                 /\ syncs' = (syncs \ {s}) \cup Left(t)
    BY <1>0, <1>3, GotIs
  <2>2. /\ s.at = "getting" /\ synced' = synced /\ UNCHANGED <<prefabs, puts>> /\ pmap' = Append(pmap, g)
    BY <1>3 DEF Got, Adds
  <2>3. Left(t) \in SUBSET {t}
    BY LeftIn
  <2>4. /\ \A k \in DOMAIN pmap : k \in DOMAIN pmap' /\ pmap'[k] = pmap[k]
        /\ \E k \in DOMAIN pmap' : pmap'[k] = g
    <3>1. pmap \in Seq(Item)
      BY <1>0 DEF PrefabTypes
    <3> QED BY <2>2, <3>1
  <2>5. \A n, c : Has(n, c) \/ (g.name = n /\ g.code = c) => Has(n, c)'
    BY <2>4 DEF Has
  <2>6. \A n, c : Brings(s, n, c) => (g.name = n /\ g.code = c) \/ (t \in Left(t) /\ Brings(t, n, c))
    BY <2>1, <2>2 DEF Brings, Left
  <2> QED BY <2>1, <2>2, <2>3, <2>5, <2>6, StillComing
<1>4. CASE LoseSync(s)
  <2>1. lost' = lost + 1
    BY <1>4 DEF LoseSync, Loss
  <2> QED BY <1>0, <2>1
<1> QED BY <1>1, <1>2, <1>3, <1>4, ReadListOffers

\* A sync that starts asks for everything.
LEMMA NewSyncAsks ==
  ASSUME NEW v, syncConfig(v), synced' # NoAddr
  PROVE  Asking'
<1>1. synced' = remoteAddr
  BY SyncConfigIs
<1>2. PICK s : s.addr = remoteAddr /\ s.at = "asked" /\ syncs' = syncs \cup {s}
  BY <1>1, SyncConfigIs
<1> QED BY <1>1, <1>2 DEF Asking

\* So does every change: an upload, the only one of a code, ends in a new sync.
LEMMA PutOffers ==
  ASSUME Types, NEW u \in puts, Uploaded \/ Asking \/ AllComing, synced \in Addr, synced' # NoAddr, lost' = 0,
         Serve(u) \/ Answered(u) \/ LosePut(u)
  PROVE  Uploaded' \/ Asking' \/ AllComing'
<1>0. PutCall(u, visit) /\ u.addr \in Addr
  BY DEF Types, PrefabTypes, PutCall, Call
<1>1. CASE Serve(u)
  <2> DEFINE w == [u EXCEPT !.at = "done"]
  <2>1. /\ u.at = "asked" /\ puts' = (puts \ {u}) \cup {w} /\ UNCHANGED <<synced, syncs, pmap>>
        /\ prefabs' = [prefabs EXCEPT ![u.addr] = PrefabTable(prefabs[u.addr], u)]
    BY <1>1 DEF Serve, Swap
  <2>2. w.at = "done" /\ w.op = u.op
    BY <1>0, PutExcept
  <2> HIDE DEF w
  <2>3. CASE u.op = "upload" \/ Uploaded
    BY <2>1, <2>2, <2>3 DEF Uploaded
  <2>4. CASE u.op # "upload" /\ AllComing
    <3>1. \A a \in Addr : GoodTable(prefabs[a], prefabs[a], TRUE)
      BY DEF Types, PrefabTypes, GoodTable
    <3>2. GoodTable(PrefabTable(prefabs[u.addr], u), prefabs[u.addr], u.op # "upload")
      BY <1>0, <3>1, PrefabTableFacts
    <3>3. prefabs'[synced] = IF synced = u.addr THEN PrefabTable(prefabs[u.addr], u) ELSE prefabs[synced]
      BY <1>0, <2>1 DEF Types, PrefabTypes
    <3>4. GoodTable(prefabs'[synced], prefabs[synced], TRUE)
      BY <2>4, <3>1, <3>2, <3>3
    <3>5. ASSUME NEW n, NEW c, There(n, c)' PROVE Has(n, c)' \/ Coming(n, c)'
      <4>1. There(n, c)
        BY <2>1, <3>4, <3>5 DEF There, GoodTable
      <4>2. Has(n, c) \/ Coming(n, c)
        BY <2>4, <4>1, AllIsThere DEF AllThere
      <4> QED BY <2>1, <4>2 DEF Has, Coming
    <3>6. AllThere'
      BY <3>5 DEF AllThere
    <3> QED BY <3>6, AllIsThere, PTL
  <2>5. CASE Asking
    BY <2>1, <2>5 DEF Asking
  <2> QED BY <2>3, <2>4, <2>5
<1>2. CASE Answered(u)
  <2>1. CASE u.op = "upload"
    BY <1>2, <2>1, NewSyncAsks DEF Answered
  <2>2. CASE u.op # "upload"
    <3>1. puts' = puts \ {u} /\ UNCHANGED <<pmap, synced, syncs, prefabs>>
      BY <1>2, <2>2 DEF Answered
    <3>2. Uploaded => Uploaded'
      BY <2>2, <3>1 DEF Uploaded
    <3>3. Asking => Asking'
      BY <3>1 DEF Asking
    <3>4. AllComing => AllComing'
      BY <3>1 DEF AllComing, Has, Coming
    <3> QED BY <3>2, <3>3, <3>4
  <2> QED BY <2>1, <2>2
<1>3. CASE LosePut(u)
  <2>1. lost \in Nat
    BY DEF Types, SiteTypes
  <2> QED BY <1>3, <2>1 DEF LosePut, Loss
<1> QED BY <1>1, <1>2, <1>3

\* Steps that add calls at most change nothing of what is on its way.
LEMMA OfferLeft ==
  ASSUME OfferInv, lost' = 0 => lost = 0, UNCHANGED <<prefabs, pmap, syncs, synced>>, puts \subseteq puts'
  PROVE  OfferInv'
<1> SUFFICES ASSUME lost' = 0, synced' # NoAddr PROVE Uploaded' \/ Asking' \/ AllComing'
  BY DEF OfferInv
<1>1. Uploaded => Uploaded'
  BY DEF Uploaded
<1>2. Asking => Asking'
  BY DEF Asking
<1>3. AllComing => AllComing'
  BY DEF AllComing, Has, Coming
<1> QED BY <1>1, <1>2, <1>3 DEF OfferInv

\* Every step keeps the prefabs on their way to the slice.
LEMMA OfferStep == Types /\ OfferInv /\ [Next]_vars => OfferInv'
<1> SUFFICES ASSUME Types, OfferInv, [Next]_vars PROVE OfferInv'
  OBVIOUS
<1>0. lost \in Nat /\ synced \in Addr \cup {NoAddr}
  BY DEF Types, SiteTypes, PrefabTypes
<1>1. CASE UNCHANGED vars
  BY <1>1, OfferLeft DEF vars, site, prefabVars
<1>2. ASSUME NEW p, Goto(p) PROVE OfferInv'
  <2>1. lost' = lost /\ puts' = puts /\ prefabs' = prefabs
    BY <1>2 DEF Goto, PrefabsOpen
  <2>2. CASE UNCHANGED <<pmap, synced, syncs>>
    BY <2>1, <2>2, OfferLeft
  <2>3. CASE syncConfig(visit')
    <3>1. PICK v : v = visit'
      OBVIOUS
    <3>2. syncConfig(v)
      BY <2>3, <3>1 DEF syncConfig
    <3>3. synced' # NoAddr => Asking'
      BY <3>2, NewSyncAsks
    <3> QED BY <3>3 DEF OfferInv
  <2> QED BY <1>2, <2>2, <2>3 DEF Goto, PrefabsOpen
<1>3. CASE PageStep /\ tour' = tour
  <2>0. lost' = 0 => lost = 0
    BY <1>0, <1>3, PageKept
  <2>1. CASE UNCHANGED prefabVars
    BY <2>0, <2>1, OfferLeft DEF prefabVars
  <2>2. ASSUME \/ \E r \in data : SelectRow(r)
               \/ \E n \in Prefab : handleSearch(n) \/ Add(n) \/ \E tags \in SUBSET Tag : updateTags(n, tags)
               \/ \E c \in Code : EditCode(c)
               \/ onHandleUpdate \/ onHandleRemove
               \/ \E S \in SUBSET Tag : FilterPane(S)
        PROVE  OfferInv'
    <3>1. UNCHANGED <<prefabs, pmap, syncs, synced>> /\ puts \subseteq puts'
      BY <2>2, PostKeeps DEF SelectRow, handleSearch, Add, updateTags, EditCode, onHandleUpdate, onHandleRemove,
        FilterPane, PutTo
    <3> QED BY <2>0, <3>1, OfferLeft
  <2>3. ASSUME NEW s \in syncs, \/ ReadList(s) \/ Listed(s) \/ LoseSync(s)
                                \/ (\E e \in s.lst : ReadCode(s, e)) \/ (\E g \in s.read : Got(s, g))
        PROVE  OfferInv'
    <3>1. SUFFICES ASSUME lost' = 0, synced' # NoAddr PROVE Uploaded' \/ Asking' \/ AllComing'
      BY DEF OfferInv
    <3>2. synced' \in {synced, NoAddr}
      BY <2>3 DEF ReadList, Listed, LoseSync, ReadCode, Got
    <3>3. Uploaded \/ Asking \/ AllComing
      BY <2>0, <3>1, <3>2 DEF OfferInv
    <3> QED BY <2>3, <3>1, <3>3, SyncOffers
  <2>4. ASSUME NEW u \in puts, Serve(u) \/ Answered(u) \/ LosePut(u)
        PROVE  OfferInv'
    <3>1. SUFFICES ASSUME lost' = 0, synced' # NoAddr PROVE Uploaded' \/ Asking' \/ AllComing'
      BY DEF OfferInv
    <3>2. CASE Answered(u) /\ u.op = "upload"
      BY <3>1, <3>2, NewSyncAsks DEF Answered
    <3>3. CASE ~(Answered(u) /\ u.op = "upload")
      <4>1. synced' = synced
        BY <2>4, <3>3 DEF Serve, Answered, LosePut
      <4>2. Uploaded \/ Asking \/ AllComing
        BY <2>0, <3>1, <4>1 DEF OfferInv
      <4> QED BY <1>0, <2>4, <3>1, <4>1, <4>2, PutOffers
    <3> QED BY <3>2, <3>3
  <2> QED BY <1>3, <2>1, <2>2, <2>3, <2>4, PrefabsOnly DEF PrefabNext
<1> QED BY <1>1, <1>2, <1>3, Steps

\* A new call has an id that no call in flight has.
LEMMA FreshIdFresh ==
  ASSUME NEW calls, IsFiniteSet(calls)
  PROVE  \A c \in calls : c.id # FreshId(calls)
<1> DEFINE I == {c.id : c \in calls}
           g == [c \in calls |-> c.id]
           k == Cardinality(calls)
<1>1. k \in Nat
  BY FS_CardinalityType
<1>2. g \in Surjection(calls, I)
  BY DEF Surjection
<1> HIDE DEF g
<1>3. IsFiniteSet(I) /\ Cardinality(I) <= k
  BY <1>2, FS_Surjection
<1>4. Cardinality(I) \in Nat
  BY <1>3, FS_CardinalityType
<1>5. Cardinality(1..(k + 1)) = k + 1
  BY <1>1, FS_Interval
<1>6. PICK J : J = 1..(k + 1)
  OBVIOUS
<1>7. ~(J \subseteq I)
  <2>1. J \subseteq I => Cardinality(J) <= Cardinality(I)
    BY <1>3, FS_Subset
  <2> QED BY <1>1, <1>3, <1>4, <1>5, <1>6, <2>1
<1>8. \E n \in 1..(k + 1) : \A c \in calls : c.id # n
  BY <1>6, <1>7
<1> QED BY <1>8 DEF FreshId

\* Nothing that a sync begun last is about changes.
LEMMA LastLeft ==
  ASSUME LastInv, lost' = 0 => lost = 0, UNCHANGED <<prefabs, pmap, syncs, synced, order>>, puts \subseteq puts'
  PROVE  LastInv'
<1>1. Uploaded => Uploaded'
  BY DEF Uploaded
<1>2. LastRight => LastRight'
  BY DEF LastRight, InEffect, Right, order
<1> QED BY <1>1, <1>2 DEF LastInv

\* A sync that starts has read nothing, and every other one is overtaken.
LEMMA NewSyncLast == ASSUME LastInv, NEW v, syncConfig(v) PROVE LastInv'
<1>1. pmap' = <<>> /\ synced' = remoteAddr /\ newest' = FreshId(syncs)
  BY SyncConfigIs
<1>2. IsFiniteSet(syncs) /\ \A s \in syncs : s.id # newest'
  BY <1>1, FreshIdFresh DEF LastInv
<1>3. DOMAIN pmap' = {}
  BY <1>1
<1>4. CASE remoteAddr = NoAddr
  BY <1>1, <1>2, <1>4, SyncConfigIs DEF LastInv
<1>5. CASE remoteAddr # NoAddr
  <2>1. PICK s : s.addr = remoteAddr /\ s.read = {} /\ syncs' = syncs \cup {s}
    BY <1>5, SyncConfigIs
  <2>2. IsFiniteSet(syncs')
    BY <1>2, <2>1, FS_AddElement
  <2>3. LastRight'
    BY <1>1, <1>2, <1>3, <2>1 DEF LastRight
  <2> QED BY <2>2, <2>3 DEF LastInv
<1> QED BY <1>4, <1>5

\* A step that replaces a sync by one that has read no wrong code.
LEMMA ReplacedLast ==
  ASSUME LastRight, NEW s \in syncs, NEW t, NEW T \in SUBSET {t}, syncs' = (syncs \ {s}) \cup T,
         UNCHANGED <<prefabs, synced, newest>>, t.id = s.id,
         s.id = newest => t.addr = synced /\ \A g \in t.read : Right(g),
         \A i \in DOMAIN pmap' : pmap'[i].name \notin stale' /\ InEffect(i)' => Right(pmap'[i])
  PROVE  LastRight'
<1>1. \A g : Right(g)' <=> (g.name \in DOMAIN prefabs[synced] => g.code = prefabs[synced][g.name].code)
  BY DEF Right
<1>2. \A r \in syncs' : r.id = newest' => r.addr = synced' /\ \A g \in r.read : Right(g)
  BY DEF LastRight
<1> QED BY <1>1, <1>2 DEF LastRight, Right

\* A step of a sync ends it or goes on with one in its place.
LEMMA SyncGoesOn ==
  ASSUME PrefabTypes, NEW s \in syncs,
         \/ ReadList(s) \/ Listed(s) \/ LoseSync(s)
         \/ (\E e \in s.lst : ReadCode(s, e)) \/ (\E g \in s.read : Got(s, g))
  PROVE  \E t : syncs' \subseteq (syncs \ {s}) \cup {t}
<1>1. CASE ReadList(s)
  BY <1>1, ReadListIs
<1>2. CASE Listed(s)
  BY <1>2, ListedIs, LeftIn
<1>3. CASE LoseSync(s)
  BY <1>3, LoseSyncIs, LeftIn
<1>4. ASSUME NEW e \in s.lst, ReadCode(s, e) PROVE \E t : syncs' \subseteq (syncs \ {s}) \cup {t}
  BY <1>4, ReadCodeIs
<1>5. ASSUME NEW g \in s.read, Got(s, g) PROVE \E t : syncs' \subseteq (syncs \ {s}) \cup {t}
  BY <1>5, GotIs, LeftIn
<1> QED BY <1>1, <1>2, <1>3, <1>4, <1>5

\* Every step of a sync keeps what the sync begun last has read and put in effect.
LEMMA SyncLast ==
  ASSUME Types, NEW s \in syncs, LastRight, synced' # NoAddr, lost' = 0,
         \/ ReadList(s) \/ Listed(s) \/ LoseSync(s)
         \/ (\E e \in s.lst : ReadCode(s, e)) \/ (\E g \in s.read : Got(s, g))
  PROVE  LastRight'
<1>0. PrefabTypes /\ lost \in Nat /\ (s.id = newest => s.addr = synced /\ \A g \in s.read : Right(g))
  BY DEF Types, SiteTypes, LastRight
<1>1. ASSUME UNCHANGED <<pmap, stale>>, UNCHANGED <<prefabs, synced>>
      PROVE  \A i \in DOMAIN pmap' : pmap'[i].name \notin stale' /\ InEffect(i)' => Right(pmap'[i])
  BY <1>1 DEF LastRight, InEffect
<1>2. CASE ReadList(s)
  <2>1. PICK t : t.read = s.read /\ t.addr = s.addr /\ t.id = s.id /\ syncs' = (syncs \ {s}) \cup {t}
    BY <1>0, <1>2, ReadListIs
  <2>2. UNCHANGED <<prefabs, pmap, synced, newest, stale>>
    BY <1>2 DEF ReadList, order
  <2>3. \A i \in DOMAIN pmap' : pmap'[i].name \notin stale' /\ InEffect(i)' => Right(pmap'[i])
    BY <1>1, <2>2
  <2>4. s.id = newest => t.addr = synced /\ \A h \in t.read : Right(h)
    BY <1>0, <2>1
  <2>5. PICK T \in SUBSET {t} : syncs' = (syncs \ {s}) \cup T
    BY <2>1
  <2>6. UNCHANGED <<prefabs, synced, newest>> /\ t.id = s.id
    BY <2>1, <2>2
  <2> QED BY <2>3, <2>4, <2>5, <2>6, ReplacedLast
<1>3. CASE Listed(s)
  <2>1. PICK t : t.read = s.read /\ t.addr = remoteAddr /\ t.id = s.id /\ syncs' = (syncs \ {s}) \cup Left(t)
    BY <1>0, <1>3, ListedIs
  <2>2. UNCHANGED <<prefabs, pmap, synced, newest, stale>> /\ s.addr = remoteAddr
    BY <1>3 DEF Listed, order
  <2>3. \A i \in DOMAIN pmap' : pmap'[i].name \notin stale' /\ InEffect(i)' => Right(pmap'[i])
    BY <1>1, <2>2
  <2>4. s.id = newest => t.addr = synced /\ \A h \in t.read : Right(h)
    BY <1>0, <2>1, <2>2
  <2>5. PICK T \in SUBSET {t} : syncs' = (syncs \ {s}) \cup T
    BY <2>1, LeftIn
  <2>6. UNCHANGED <<prefabs, synced, newest>> /\ t.id = s.id
    BY <2>1, <2>2
  <2> QED BY <2>3, <2>4, <2>5, <2>6, ReplacedLast
<1>4. CASE LoseSync(s)
  <2>1. lost' = lost + 1
    BY <1>4 DEF LoseSync, Loss
  <2> QED BY <1>0, <2>1
<1>5. ASSUME NEW e \in s.lst, ReadCode(s, e) PROVE LastRight'
  <2>1. PICK t, g : /\ g.name = e.name
                    /\ e.name \in DOMAIN prefabs[s.addr] => g.code = prefabs[s.addr][e.name].code
                    /\ t.read = s.read \cup {g} /\ t.addr = s.addr /\ t.id = s.id
                    /\ syncs' = (syncs \ {s}) \cup {t}
    BY <1>0, <1>5, ReadCodeIs
  <2>2. UNCHANGED <<prefabs, pmap, synced, newest, stale>>
    BY <1>5 DEF ReadCode, order
  <2>3. s.addr = synced => Right(g)
    BY <2>1 DEF Right
  <2>4. \A i \in DOMAIN pmap' : pmap'[i].name \notin stale' /\ InEffect(i)' => Right(pmap'[i])
    BY <1>1, <2>2
  <2>5. s.id = newest => t.addr = synced /\ \A h \in t.read : Right(h)
    BY <1>0, <2>1, <2>3
  <2>6. PICK T \in SUBSET {t} : syncs' = (syncs \ {s}) \cup T
    BY <2>1
  <2>7. UNCHANGED <<prefabs, synced, newest>> /\ t.id = s.id
    BY <2>1, <2>2
  <2> QED BY <2>4, <2>5, <2>6, <2>7, ReplacedLast
<1>6. ASSUME NEW g \in s.read, Got(s, g) PROVE LastRight'
  <2>1. PICK t : t.read = s.read \ {g} /\ t.addr = s.addr /\ t.id = s.id /\ syncs' = (syncs \ {s}) \cup Left(t)
    BY <1>0, <1>6, GotIs
  <2>2. /\ UNCHANGED <<prefabs, synced, newest>> /\ pmap' = Append(pmap, g)
        /\ stale' = IF s.id = newest THEN stale \ {g.name} ELSE stale \cup {g.name}
    BY <1>6 DEF Got, Adds
  <2>3. pmap \in Seq(Item) /\ Len(pmap) \in Nat
    BY <1>0 DEF PrefabTypes
  <2>4. ASSUME NEW i \in DOMAIN pmap', pmap'[i].name \notin stale', InEffect(i)' PROVE Right(pmap'[i])
    <3>1. DOMAIN pmap' = 1..(Len(pmap) + 1) /\ pmap'[Len(pmap) + 1] = g /\ DOMAIN pmap = 1..Len(pmap)
      BY <2>2, <2>3
    <3>2. CASE i = Len(pmap) + 1
      <4>1. pmap'[i] = g /\ s.id = newest
        BY <2>2, <2>4, <3>1, <3>2
      <4> QED BY <1>0, <4>1
    <3>3. CASE i # Len(pmap) + 1
      <4>1. i \in DOMAIN pmap /\ pmap'[i] = pmap[i] /\ Len(pmap) + 1 > i
        BY <2>2, <2>3, <2>4, <3>1, <3>3
      <4>2. g.name # pmap[i].name
        BY <2>3, <2>4, <3>1, <4>1 DEF InEffect
      <4>3. pmap[i].name \notin stale
        BY <2>2, <2>4, <4>1, <4>2
      <4>4. InEffect(i)
        <5>1. ASSUME NEW j \in DOMAIN pmap, j > i PROVE pmap[j].name # pmap[i].name
          <6>1. j \in DOMAIN pmap' /\ pmap'[j] = pmap[j]
            BY <2>2, <2>3, <3>1, <5>1
          <6> QED BY <2>4, <4>1, <5>1, <6>1 DEF InEffect
        <5> QED BY <5>1 DEF InEffect
      <4> QED BY <4>1, <4>3, <4>4 DEF LastRight
    <3> QED BY <3>2, <3>3
  <2>5. s.id = newest => t.addr = synced /\ \A h \in t.read : Right(h)
    BY <1>0, <2>1
  <2>6. \A i \in DOMAIN pmap' : pmap'[i].name \notin stale' /\ InEffect(i)' => Right(pmap'[i])
    BY <2>4
  <2>7. UNCHANGED <<prefabs, synced, newest>>
    BY <2>2
  <2>8. PICK T \in SUBSET {t} : syncs' = (syncs \ {s}) \cup T
    BY <2>1, LeftIn
  <2> QED BY <2>1, <2>5, <2>6, <2>7, <2>8, ReplacedLast
<1> QED BY <1>2, <1>3, <1>4, <1>5, <1>6

\* A change of the server leaves the code of every prefab, or is an upload.
LEMMA ServeLast ==
  ASSUME Types, NEW u \in puts, Serve(u), Uploaded \/ LastRight, synced \in Addr
  PROVE  Uploaded' \/ LastRight'
<1>0. PutCall(u, visit) /\ u.addr \in Addr
  BY DEF Types, PrefabTypes, PutCall, Call
<1> DEFINE w == [u EXCEPT !.at = "done"]
<1>1. /\ u.at = "asked" /\ puts' = (puts \ {u}) \cup {w} /\ UNCHANGED <<synced, syncs, pmap, order>>
      /\ prefabs' = [prefabs EXCEPT ![u.addr] = PrefabTable(prefabs[u.addr], u)]
  BY DEF Serve, Swap
<1>2. w.at = "done" /\ w.op = u.op
  BY <1>0, PutExcept
<1> HIDE DEF w
<1>3. CASE u.op = "upload" \/ Uploaded
  BY <1>1, <1>2, <1>3 DEF Uploaded
<1>4. CASE u.op # "upload" /\ LastRight
  <2>1. \A a \in Addr : GoodTable(prefabs[a], prefabs[a], TRUE)
    BY DEF Types, PrefabTypes, GoodTable
  <2>2. GoodTable(PrefabTable(prefabs[u.addr], u), prefabs[u.addr], u.op # "upload")
    BY <1>0, <2>1, PrefabTableFacts
  <2>3. prefabs'[synced] = IF synced = u.addr THEN PrefabTable(prefabs[u.addr], u) ELSE prefabs[synced]
    BY <1>0, <1>1 DEF Types, PrefabTypes
  <2>4. GoodTable(prefabs'[synced], prefabs[synced], TRUE)
    BY <1>4, <2>1, <2>2, <2>3
  <2>5. \A g : Right(g) => Right(g)'
    BY <1>1, <2>4 DEF Right, GoodTable
  <2> QED BY <1>1, <1>4, <2>5 DEF LastRight, InEffect, order
<1> QED BY <1>3, <1>4

\* Every step keeps what the sync begun last has put in effect.
LEMMA LastStep == Types /\ LastInv /\ [Next]_vars => LastInv'
<1> SUFFICES ASSUME Types, LastInv, [Next]_vars PROVE LastInv'
  OBVIOUS
<1>0. lost \in Nat /\ synced \in Addr \cup {NoAddr} /\ IsFiniteSet(syncs)
  BY DEF Types, SiteTypes, PrefabTypes, LastInv
<1>1. CASE UNCHANGED vars
  BY <1>1, LastLeft DEF vars, site, prefabVars
<1>2. ASSUME NEW p, Goto(p) PROVE LastInv'
  <2>1. lost' = lost /\ puts' = puts /\ prefabs' = prefabs
    BY <1>2 DEF Goto, PrefabsOpen
  <2>2. CASE UNCHANGED <<pmap, synced, order, syncs>>
    BY <2>1, <2>2, LastLeft
  <2>3. CASE syncConfig(visit')
    <3>1. PICK v : v = visit'
      OBVIOUS
    <3>2. syncConfig(v)
      BY <2>3, <3>1 DEF syncConfig
    <3> QED BY <3>2, NewSyncLast
  <2> QED BY <1>2, <2>2, <2>3 DEF Goto, PrefabsOpen
<1>3. CASE PageStep /\ tour' = tour
  <2>0. lost' = 0 => lost = 0
    BY <1>0, <1>3, PageKept
  <2>1. CASE UNCHANGED prefabVars
    BY <2>0, <2>1, LastLeft DEF prefabVars
  <2>2. ASSUME \/ \E r \in data : SelectRow(r)
               \/ \E n \in Prefab : handleSearch(n) \/ Add(n) \/ \E tags \in SUBSET Tag : updateTags(n, tags)
               \/ \E c \in Code : EditCode(c)
               \/ onHandleUpdate \/ onHandleRemove
               \/ \E S \in SUBSET Tag : FilterPane(S)
        PROVE  LastInv'
    <3>1. UNCHANGED <<prefabs, pmap, syncs, synced, order>> /\ puts \subseteq puts'
      BY <2>2, PostKeeps DEF SelectRow, handleSearch, Add, updateTags, EditCode, onHandleUpdate, onHandleRemove,
        FilterPane, PutTo
    <3> QED BY <2>0, <3>1, LastLeft
  <2>3. ASSUME NEW s \in syncs, \/ ReadList(s) \/ Listed(s) \/ LoseSync(s)
                                \/ (\E e \in s.lst : ReadCode(s, e)) \/ (\E g \in s.read : Got(s, g))
        PROVE  LastInv'
    <3>1. PICK t : syncs' \subseteq (syncs \ {s}) \cup {t}
      BY <1>0, <2>3, SyncGoesOn DEF Types
    <3>2. IsFiniteSet(syncs')
      <4>1. IsFiniteSet(syncs \ {s})
        BY <1>0, FS_Subset
      <4>2. IsFiniteSet((syncs \ {s}) \cup {t})
        BY <4>1, FS_AddElement
      <4> QED BY <3>1, <4>1, <4>2, FS_Subset
    <3>3. ASSUME lost' = 0, synced' # NoAddr PROVE Uploaded' \/ LastRight'
      <4>1. synced' \in {synced, NoAddr} /\ puts' = puts
        BY <2>3 DEF ReadList, Listed, LoseSync, ReadCode, Got
      <4>2. Uploaded \/ LastRight
        BY <2>0, <3>3, <4>1 DEF LastInv
      <4>3. Uploaded => Uploaded'
        BY <4>1 DEF Uploaded
      <4> QED BY <2>3, <3>3, <4>2, <4>3, SyncLast
    <3> QED BY <3>2, <3>3 DEF LastInv
  <2>4. ASSUME NEW u \in puts, Serve(u) \/ Answered(u) \/ LosePut(u)
        PROVE  LastInv'
    <3>1. CASE Answered(u) /\ u.op = "upload"
      BY <3>1, NewSyncLast DEF Answered
    <3>2. CASE Answered(u) /\ u.op # "upload"
      <4>1. puts' = puts \ {u} /\ UNCHANGED <<pmap, synced, order, syncs, prefabs>>
        BY <3>2 DEF Answered
      <4>2. Uploaded => Uploaded'
        BY <3>2, <4>1 DEF Uploaded
      <4>3. LastRight => LastRight'
        BY <4>1 DEF LastRight, InEffect, Right, order
      <4> QED BY <2>0, <4>1, <4>2, <4>3 DEF LastInv
    <3>3. CASE Serve(u)
      <4>1. synced' = synced /\ syncs' = syncs
        BY <3>3 DEF Serve
      <4> QED BY <1>0, <2>0, <3>3, <4>1, ServeLast DEF LastInv
    <3>4. CASE LosePut(u)
      BY <1>0, <3>4 DEF LosePut, Loss, LastInv
    <3> QED BY <2>4, <3>1, <3>2, <3>3, <3>4
  <2> QED BY <1>3, <2>1, <2>2, <2>3, <2>4, PrefabsOnly DEF PrefabNext
<1> QED BY <1>1, <1>2, <1>3, Steps

(* Once all answers have come and none was lost, the slice offers every    *)
(* prefab of the server with the code it has there (models/prefab.ts,      *)
(* prefab.tsx), although every sync empties the slice that others are      *)
(* filling; and that code is the one a node is made from (node.ts:57-60)   *)
(* unless the last answer for the prefab was one to an overtaken sync.     *)
THEOREM PrefabsOfferedCorrect == Spec => []PrefabsOffered
<1>1. Init => OfferInv /\ LastInv
  <2> SUFFICES ASSUME Init PROVE OfferInv /\ LastInv
    OBVIOUS
  <2>1. synced = remoteAddr /\ syncs = PostTo(remoteAddr, {}, NewSync, 0) /\ pmap = <<>>
    BY DEF Init, PrefabInit
  <2>2. PICK none, v : none = {} /\ v = 0
    OBVIOUS
  <2>3. CASE remoteAddr # NoAddr
    <3>1. PICK s : /\ s.at = "asked" /\ s.addr = remoteAddr /\ s.read = {}
                   /\ PostTo(remoteAddr, none, NewSync, v) = none \cup {s}
      BY <2>3, PostSync
    <3>2. syncs = {s}
      BY <2>1, <2>2, <3>1
    <3>3. IsFiniteSet(syncs)
      BY <3>2, FS_Singleton
    <3>4. DOMAIN pmap = {}
      BY <2>1
    <3>5. LastRight
      BY <2>1, <3>1, <3>2, <3>4 DEF LastRight
    <3> QED BY <2>1, <3>1, <3>2, <3>3, <3>5 DEF Asking, OfferInv, LastInv
  <2>4. CASE remoteAddr = NoAddr
    <3>1. syncs = {}
      BY <2>1, <2>4 DEF PostTo
    <3> QED BY <2>1, <2>4, <3>1, FS_EmptySet DEF OfferInv, LastInv
  <2> QED BY <2>3, <2>4
<1>2. OfferInv /\ LastInv => PrefabsOffered
  <2> SUFFICES ASSUME OfferInv, LastInv, syncs = {}, puts = {}, lost = 0, synced = remoteAddr,
                      remoteAddr # NoAddr, NEW n \in DOMAIN prefabs[remoteAddr]
               PROVE  LET now == prefabs[remoteAddr][n].code IN
                      /\ \E i \in DOMAIN pmap : pmap[i].name = n /\ pmap[i].code = now
                      /\ n \notin stale => \A i \in DOMAIN pmap :
                                             pmap[i].name = n /\ InEffect(i) => pmap[i].code = now
    BY DEF PrefabsOffered
  <2>1. AllComing /\ LastRight
    BY DEF OfferInv, LastInv, Uploaded, Asking
  <2>2. Has(n, prefabs[remoteAddr][n].code)
    BY <2>1 DEF AllComing, Coming
  <2> QED BY <2>1, <2>2 DEF Has, LastRight, Right
<1> QED BY <1>1, <1>2, OfferStep, LastStep, TypesAlways, PTL DEF Spec

-----------------------------------------------------------------------------
(* The list of the files. *)

\* A list that comes is the one the page waits for.
LEMMA ListStepLists ==
  ASSUME Types, NEW l \in lists, ReadFiles(l) \/ Refreshed(l) \/ LoseList(l), ListInv, Kept
  PROVE  ListInv'
<1> SUFFICES ASSUME Watched' PROVE EditsHere' /\ (Changed' \/ (ListsTrue' /\ ListDue'))
  BY DEF ListInv
<1>0. lost \in Nat /\ BotTypes
  BY DEF Types, SiteTypes
<1>1. /\ UNCHANGED <<files, edits, source, overlapped>>
      /\ UNCHANGED <<page, visit>> /\ lost' \in {lost, lost + 1}
  BY DEF ReadFiles, Refreshed, LoseList, Kept
<1>2. Watched
  BY <1>0, <1>1 DEF Watched
<1>3. EditsHere /\ (Changed \/ (ListsTrue /\ ListDue))
  BY <1>2 DEF ListInv
<1>4. EditsHere' /\ (Changed => Changed')
  BY <1>1, <1>3 DEF EditsHere, Changed
<1>5. ASSUME ListsTrue, ListDue PROVE ListsTrue' /\ ListDue'
  <2>1. CASE ReadFiles(l)
    <3>1. PICK m : /\ m.lst = files[l.addr] /\ m.addr = l.addr /\ m.visit = l.visit /\ m.at = "read"
                   /\ lists' = (lists \ {l}) \cup {m}
      BY <1>0, <2>1, ReadFilesIs
    <3>2. Bots' = Bots
      BY <2>1 DEF ReadFiles, botPage
    <3>3. ListsTrue'
      BY <1>1, <1>5, <3>1 DEF ListsTrue
    <3>4. ListDue'
      BY <1>1, <1>5, <3>1, <3>2 DEF ListDue
    <3> QED BY <3>3, <3>4
  <2>2. CASE Refreshed(l)
    <3>1. lists' = lists \ {l} /\ l.at = "read"
      BY <2>2 DEF Refreshed
    <3>2. ListsTrue'
      BY <1>1, <1>5, <3>1 DEF ListsTrue
    <3>3. ListDue'
      <4>1. CASE l.visit = visit
        <5>1. DOMAIN l.lst = DOMAIN files[source]
          BY <1>5, <3>1, <4>1 DEF ListsTrue
        <5>2. DOMAIN l.lst # {} => Bots' = l.lst
          BY <2>2, <4>1 DEF Refreshed
        <5> QED BY <1>1, <5>1, <5>2 DEF ListDue
      <4>2. CASE l.visit # visit
        <5>1. Bots' = Bots
          BY <2>2, <4>2 DEF Refreshed
        <5> QED BY <1>1, <1>5, <3>1, <4>2, <5>1 DEF ListDue
      <4> QED BY <4>1, <4>2
    <3> QED BY <3>2, <3>3
  <2>3. CASE LoseList(l)
    <3>1. lost' = lost + 1 /\ lost' = 0
      BY <2>3 DEF LoseList, Loss, Watched
    <3> QED BY <1>0, <3>1
  <2> QED BY <2>1, <2>2, <2>3
<1> QED BY <1>3, <1>4, <1>5

\* A click asks for at most one more list or edit.
LEMMA ListStepClicks ==
  ASSUME Types, ListInv, Kept,
         \/ \E S \in SUBSET FileTag : handleSelectChange(S) \/ \E n \in File : updateBotTags(n, S)
         \/ \E ns \in SUBSET File : SelectRows(ns)
         \/ \E n \in File : EnterRuns(n) \/ UploadFile(n)
         \/ handleBotRun \/ handleBotDelete
  PROVE  ListInv'
<1> SUFFICES ASSUME Watched' PROVE EditsHere' /\ (Changed' \/ (ListsTrue' /\ ListDue'))
  BY DEF ListInv
<1>0. lost \in Nat /\ BotTypes /\ SiteTypes
  BY DEF Types, SiteTypes
<1>1. UNCHANGED <<files, lists, source, overlapped>>
  BY DEF handleSelectChange, updateBotTags, SelectRows, EnterRuns, UploadFile, handleBotRun, handleBotDelete
<1>2. EditsHere /\ (Changed \/ (ListsTrue /\ ListDue)) /\ visit' = visit
  BY <1>0, <1>1 DEF ListInv, Watched, Kept
<1>3. edits' = edits \/ MoreEdits
  BY <1>0, ClickEdits DEF handleSelectChange, SelectRows, EnterRuns
<1>4. EditsHere' /\ (Changed => Changed')
  BY <1>2, <1>3 DEF EditsHere, Changed, MoreEdits
<1>5. DOMAIN Bots' = DOMAIN Bots
  <2>1. ASSUME NEW n, NEW S, updateBotTags(n, S) PROVE DOMAIN Bots' = DOMAIN Bots
    <3>1. Bots' = Put(Bots, n, S) /\ n \in DOMAIN Bots
      BY <2>1 DEF updateBotTags
    <3> QED BY <3>1 DEF Put
  <2>2. Bots' = Bots \/ \E n \in File, S \in SUBSET FileTag : updateBotTags(n, S)
    BY DEF handleSelectChange, SelectRows, EnterRuns, UploadFile, handleBotRun, handleBotDelete, botPage
  <2> QED BY <2>1, <2>2
<1>6. (ListsTrue => ListsTrue') /\ (ListDue => ListDue')
  BY <1>1, <1>2, <1>5 DEF ListsTrue, ListDue
<1> QED BY <1>2, <1>4, <1>6

\* A refresh of the page shown asks for a list that will be the last.
LEMMA FreshList ==
  ASSUME remoteAddr \in Addr \cup {NoAddr}, NEW w \in Nat, NEW S, refreshBotList(w, S, TRUE),
         edits' \subseteq edits, visit' = w, Watched'
  PROVE  EditsHere' /\ ListsTrue' /\ ListDue'
<1>1. /\ ~\E l \in lists : l.visit = w
      /\ ~\E e \in edits : e.visit # w
      /\ source' = remoteAddr /\ remoteAddr # NoAddr
  BY DEF refreshBotList, Watched
<1>2. PICK l : /\ l.addr = remoteAddr /\ l.visit = w /\ l.at = "asked" /\ lists' = lists \cup {l}
  <2>1. w \in 0..w /\ TRUE \in BOOLEAN
    OBVIOUS
  <2>2. \E l : l.addr = remoteAddr /\ l.visit = w /\ l.at = "asked" /\ lists' = lists \cup {l}
    BY <1>1, <2>1, RefreshIs
  <2> QED BY <2>2
<1>3. EditsHere'
  BY <1>1 DEF EditsHere
<1>4. ListsTrue'
  BY <1>1, <1>2 DEF ListsTrue
<1>5. ListDue'
  BY <1>2 DEF ListDue
<1> QED BY <1>3, <1>4, <1>5

\* A removal or an upload is followed by a new list.
LEMMA ListStepEdits ==
  ASSUME Types, NEW e \in edits, ServeEdit(e) \/ EditAnswered(e) \/ LoseEdit(e), ListInv, Kept
  PROVE  ListInv'
<1> SUFFICES ASSUME Watched' PROVE EditsHere' /\ (Changed' \/ (ListsTrue' /\ ListDue'))
  BY DEF ListInv
<1>0. lost \in Nat /\ visit \in Nat /\ remoteAddr \in Addr \cup {NoAddr} /\ BotTypes
  BY DEF Types, SiteTypes
<1>1. EditCall(e, visit) /\ e.addr \in Addr
  BY <1>0 DEF BotTypes, EditCall, Call
<1>2. visit' = visit /\ page' = page /\ lost' \in {lost, lost + 1} /\ lost' = 0 /\ lost = 0
  BY <1>0 DEF Kept, Watched
<1>3. ASSUME UNCHANGED <<source, overlapped>>
      PROVE  EditsHere /\ (Changed \/ (ListsTrue /\ ListDue))
  BY <1>2, <1>3 DEF ListInv, Watched
<1>4. CASE ServeEdit(e)
  <2> DEFINE d == [e EXCEPT !.at = "done"]
  <2>1. /\ e.at = "asked" /\ edits' = (edits \ {e}) \cup {d} /\ UNCHANGED <<lists, source, overlapped, Bots>>
        /\ files' = [files EXCEPT ![e.addr] = FileTable(files[e.addr], e)]
    BY <1>4 DEF ServeEdit, Swap, botPage
  <2>2. d.at = "done" /\ d.op = e.op /\ d.visit = e.visit
    BY <1>1, EditExcept
  <2> HIDE DEF d
  <2>3. EditsHere /\ (Changed \/ (ListsTrue /\ ListDue))
    BY <1>3, <2>1
  <2>4. EditsHere'
    BY <1>2, <2>1, <2>2, <2>3 DEF EditsHere
  <2>5. CASE e.op \in {"remove", "upload"} \/ Changed
    BY <2>1, <2>2, <2>4, <2>5 DEF Changed
  <2>6. CASE e.op \notin {"remove", "upload"} /\ ListsTrue /\ ListDue
    <3>1. source \in Addr
      BY <1>0, <2>1 DEF Watched, BotTypes
    <3>2. DOMAIN files'[source] = DOMAIN files[source]
      <4>1. DOMAIN FileTable(files[e.addr], e) = DOMAIN files[e.addr]
        BY <1>0, <1>1, <2>6, FileTableFacts DEF BotTypes
      <4>2. files'[source] = IF source = e.addr THEN FileTable(files[e.addr], e) ELSE files[source]
        BY <1>0, <2>1, <3>1 DEF BotTypes
      <4> QED BY <4>1, <4>2
    <3>3. ListsTrue' /\ ListDue'
      BY <1>2, <2>1, <2>6, <3>2 DEF ListsTrue, ListDue
    <3> QED BY <2>4, <3>3
  <2> QED BY <2>3, <2>5, <2>6
<1>5. CASE EditAnswered(e)
  <2>1. edits' = edits \ {e} /\ UNCHANGED <<files, Bots>> /\ e.at = "done"
    BY <1>5 DEF EditAnswered, botPage
  <2>2. CASE e.op = "remove" /\ e.visit = visit
    <3>1. refreshBotList(visit, e.tags, TRUE)
      BY <1>5, <2>2 DEF EditAnswered
    <3> QED BY <1>0, <1>2, <2>1, <3>1, FreshList
  <2>3. CASE e.op = "upload" /\ e.visit = visit
    <3>1. PICK none : none = {}
      OBVIOUS
    <3>2. refreshBotList(visit, none, TRUE)
      BY <1>5, <2>3, <3>1 DEF EditAnswered
    <3> QED BY <1>0, <1>2, <2>1, <3>2, FreshList
  <2>4. CASE e.visit # visit
    <3>1. UNCHANGED <<source, overlapped>>
      BY <1>5, <2>4 DEF EditAnswered, refreshBotList
    <3> QED BY <1>3, <2>4, <3>1 DEF EditsHere
  <2>5. CASE e.op \notin {"remove", "upload"}
    <3>1. UNCHANGED <<lists, source, overlapped>>
      BY <1>5, <2>5 DEF EditAnswered
    <3>2. EditsHere /\ (Changed \/ (ListsTrue /\ ListDue))
      BY <1>3, <3>1
    <3>3. EditsHere' /\ (Changed => Changed')
      BY <1>2, <2>1, <2>5, <3>2 DEF EditsHere, Changed
    <3>4. (ListsTrue => ListsTrue') /\ (ListDue => ListDue')
      BY <1>2, <2>1, <3>1 DEF ListsTrue, ListDue
    <3> QED BY <3>2, <3>3, <3>4
  <2> QED BY <2>2, <2>3, <2>4, <2>5
<1>6. CASE LoseEdit(e)
  <2>1. lost' = lost + 1
    BY <1>6 DEF LoseEdit, Loss
  <2> QED BY <1>2, <2>1
<1> QED BY <1>4, <1>5, <1>6

\* Every step keeps the list due, or here.
LEMMA ListStep == Types /\ ListInv /\ [Next]_vars => ListInv'
<1> SUFFICES ASSUME Types, ListInv, [Next]_vars PROVE ListInv'
  OBVIOUS
<1>0. lost \in Nat
  BY DEF Types, SiteTypes
<1>1. CASE UNCHANGED <<page, visit, botVars>> /\ (lost' = 0 => lost = 0)
  <2>1. UNCHANGED <<files, Bots, lists, edits, overlapped, source>>
    BY <1>1 DEF botVars, botPage
  <2> QED BY <1>1, <2>1 DEF ListInv, Watched, EditsHere, Changed, ListsTrue, ListDue
<1>2. ASSUME NEW p, Goto(p) PROVE ListInv'
  <2>1. page' = p /\ visit' = visit + 1 /\ remoteAddr \in Addr \cup {NoAddr} /\ visit \in Nat /\ edits' = edits
    BY <1>2 DEF Goto, BotsOpen, Types, SiteTypes
  <2>2. CASE p = "bots"
    <3>1. PICK w, none : w = visit' /\ none = {}
      OBVIOUS
    <3>2. /\ lists' = PostTo(remoteAddr, lists, [tags |-> none, lst |-> Nothing], w)
          /\ overlapped' = ((\E l \in lists : l.visit = w) \/ (\E e \in edits : e.visit # w))
          /\ source' = remoteAddr
      BY <1>2, <2>2, <3>1 DEF Goto, BotsOpen, refreshBotList
    <3>3. refreshBotList(w, none, TRUE) /\ w \in Nat
      BY <2>1, <3>1, <3>2 DEF refreshBotList
    <3> QED BY <2>1, <3>1, <3>3, FreshList DEF ListInv
  <2>3. CASE p # "bots"
    BY <2>1, <2>3 DEF ListInv, Watched
  <2> QED BY <2>2, <2>3
<1>3. CASE PageStep /\ tour' = tour
  <2>0. page' = page /\ visit' = visit /\ (lost' = 0 => lost = 0)
    BY <1>0, <1>3, PageKept
  <2>1. CASE UNCHANGED botVars
    BY <1>1, <2>0, <2>1
  <2>2. CASE BotNext
    <3>1. Kept
      BY <2>2, BotKept
    <3> QED BY <2>2, <3>1, ListStepLists, ListStepClicks, ListStepEdits DEF BotNext
  <2> QED BY <1>3, <2>1, <2>2, BotsOnly
<1>4. UNCHANGED vars => UNCHANGED <<page, visit, botVars, lost>>
  BY DEF vars, site
<1> QED BY <1>1, <1>2, <1>3, <1>4, Steps

(* Once all answers have come, the page lists the files of the server: no  *)
(* removal and no upload goes unseen (bots.tsx), unless two lists were     *)
(* asked for at the same time or an answer was lost.                       *)
THEOREM ListsCorrect == Spec => []ListCurrent
<1>1. Init => ListInv
  BY DEF Init, BotInit, ListInv, Watched
<1>2. ListInv => ListCurrent
  BY DEF ListInv, ListCurrent, Watched, EditsHere, Changed, ListsTrue, ListDue
<1> QED BY <1>1, <1>2, ListStep, TypesAlways, PTL DEF Spec

-----------------------------------------------------------------------------
(* The form of the settings. *)

\* A field the server stores comes from the call or stays.
LEMMA ConfiguredFields ==
  ASSUME NEW old, ConfType(old), NEW c
  PROVE  /\ \A k \in Fields : Configured(old, c)[k] \in {old[k], c.val[k]}
         /\ c.op \notin {"submit", "apply"} => Configured(old, c) = old
<1>1. CASE c.op = "submit"
  <2> DEFINE size == IF c.val.size = 0 THEN old.size ELSE c.val.size
  <2> DEFINE delay == IF c.val.delay = 0 THEN old.delay ELSE c.val.delay
  <2>1. Configured(old, c) = [old EXCEPT !.size = size, !.delay = delay]
    BY <1>1 DEF Configured
  <2>2. size \in {old.size, c.val.size} /\ delay \in {old.delay, c.val.delay}
    OBVIOUS
  <2> HIDE DEF size, delay
  <2> QED BY <1>1, <2>1, <2>2 DEF ConfType, Fields
<1>2. CASE c.op = "apply"
  <2>1. Configured(old, c) \in {old, [old EXCEPT !.script = c.val.script]}
    BY <1>2 DEF Configured
  <2> QED BY <1>2, <2>1 DEF ConfType, Fields
<1>3. CASE c.op \notin {"submit", "apply"}
  BY <1>3 DEF Configured
<1> QED BY <1>1, <1>2, <1>3

\* The user changes a field, or an address that is not in use yet.
LEMMA FormTyped ==
  ASSUME Types, FormInv, visit' = visit, page' = page, lost' = lost, remoteAddr' = remoteAddr,
         UNCHANGED <<conf, asks, crossed, unchecked>>,
         touched \subseteq touched', \A k \in Fields \ touched' : form'[k] = form[k]
  PROVE  FormInv'
<1>1. AsksHere'
  BY DEF FormInv, AsksHere
<1>2. Sound' => Sound
  BY DEF Sound
<1>3. Filling => Filling'
  BY DEF Filling
<1>4. Sending => Sending'
  BY DEF Sending
<1> QED BY <1>1, <1>2, <1>3, <1>4 DEF FormInv

\* The clicks and changes of the settings keep the form on its way.
LEMMA FormPage ==
  ASSUME Types, FormInv,
         \/ \E a \in Addr : TypeAddr(a) \/ modalConfigChange(a)
         \/ \E k \in {"size", "delay"} : Change(k, 2)
         \/ \E s \in Script : Change("script", s)
         \/ onApplyDriveAddr \/ onClickSubmit \/ onApplyCode
         \/ modalHandleOk \/ modalHandleCancel
  PROVE  FormInv'
<1>0. SiteTypes /\ SettingsTypes /\ DOMAIN form = {"addr", "size", "delay", "script"}
  BY DEF Types, SettingsTypes, FormType
<1>1. ASSUME NEW a \in Addr, TypeAddr(a) PROVE FormInv'
  <2>1. /\ form' = [form EXCEPT !.addr = a] /\ UNCHANGED <<conf, asks, crossed, unchecked, touched>>
        /\ UNCHANGED <<page, visit, lost, remoteAddr>>
    BY <1>1 DEF TypeAddr, Click
  <2>2. \A k \in Fields : form'[k] = form[k]
    BY <1>0, <2>1 DEF Fields
  <2> QED BY <2>1, <2>2, FormTyped
<1>2. ASSUME NEW k, NEW val, Change(k, val) PROVE FormInv'
  <2>1. /\ form' = [form EXCEPT ![k] = val] /\ UNCHANGED <<conf, asks, crossed, unchecked>>
        /\ UNCHANGED <<page, visit, lost, remoteAddr>> /\ touched' = touched \cup {k}
    BY <1>2 DEF Change, Click
  <2>2. \A j \in Fields \ touched' : form'[j] = form[j]
    BY <1>0, <2>1 DEF Fields
  <2> QED BY <2>1, <2>2, FormTyped
<1>3. CASE modalHandleCancel \/ (\E a \in Addr : modalConfigChange(a)) \/ (modalHandleOk /\ address = NoAddr)
  <2>1. UNCHANGED <<page, visit, lost, remoteAddr, conf, form, asks, crossed, unchecked, touched>>
    BY <1>3 DEF modalHandleCancel, modalConfigChange, modalHandleOk, Click
  <2> QED BY <2>1, FormTyped
<1>4. CASE modalHandleOk /\ address # NoAddr
  <2>1. unchecked' = TRUE /\ UNCHANGED <<visit, asks, crossed>>
    BY <1>4 DEF modalHandleOk
  <2> QED BY <2>1 DEF FormInv, AsksHere, Sound
<1>5. CASE onApplyDriveAddr \/ onClickSubmit \/ onApplyCode
  <2>1. /\ UNCHANGED <<page, visit, lost, remoteAddr, conf, form, unchecked, touched>>
        /\ crossed' = (crossed \/ asks # {})
    BY <1>5 DEF onApplyDriveAddr, onClickSubmit, onApplyCode, Ask, Click
  <2>2. CASE remoteAddr = NoAddr /\ asks' = asks
    BY <2>1, <2>2 DEF FormInv, AsksHere, Sound
  <2>3. CASE \E c : /\ AskCall(c, visit) /\ c.visit = visit /\ c.at = "asked"
                    /\ c.op = "health" \/ (c.op \in {"submit", "apply"} /\ c.addr = remoteAddr /\ c.val = form)
                    /\ asks' = asks \cup {c}
    <3>1. PICK c : /\ c.visit = visit /\ c.at = "asked"
                   /\ c.op = "health" \/ (c.op \in {"submit", "apply"} /\ c.addr = remoteAddr /\ c.val = form)
                   /\ asks' = asks \cup {c}
      BY <2>3
    <3>2. ~crossed' => ~crossed /\ asks = {}
      BY <2>1
    <3>3. AsksHere'
      BY <2>1, <3>1, <3>2 DEF AsksHere
    <3>4. ASSUME Sound' PROVE Sending'
      <4>1. Sound /\ asks = {} /\ asks' = {c}
        BY <2>1, <3>1, <3>2, <3>4 DEF Sound
      <4>2. \A k \in Fields \ touched : form[k] = conf[remoteAddr][k]
        BY <4>1 DEF FormInv, Filling, Sending
      <4> QED BY <2>1, <3>1, <4>1, <4>2 DEF Sending
    <3> QED BY <3>3, <3>4 DEF FormInv
  <2> QED BY <1>0, <1>5, <2>2, <2>3, PageAsks
<1> QED BY <1>1, <1>2, <1>3, <1>4, <1>5

\* What the server stores is what the form has.
LEMMA FormServed ==
  ASSUME Types, FormInv, NEW c \in asks, ServeAsk(c)
  PROVE  FormInv'
<1>0. SettingsTypes /\ ConfTypes /\ c.addr \in Addr
  BY SettingsParts DEF Types, AsksTypes, AskCall, Call
<1>1. PICK d : /\ d.at = "done" /\ d.op = c.op /\ d.addr = c.addr
               /\ d.visit = c.visit /\ \A k \in Fields : d.val[k] = conf[c.addr][k]
               /\ asks' = (asks \ {c}) \cup {d}
  BY <1>0, ServedIs
<1>2. /\ UNCHANGED <<page, visit, remoteAddr, lost, form, touched, crossed, unchecked>>
      /\ c.at = "asked" /\ conf' = [conf EXCEPT ![c.addr] = Configured(conf[c.addr], c)]
  BY DEF ServeAsk, Still, site
<1>3. AsksHere'
  BY <1>1, <1>2 DEF FormInv, AsksHere
<1>4. ASSUME Sound' PROVE Filling' \/ Sending'
  <2>1. Sound /\ remoteAddr \in Addr
    BY <1>2, <1>4 DEF Sound, Types, SiteTypes
  <2>2. conf'[remoteAddr] = IF remoteAddr = c.addr THEN Configured(conf[c.addr], c) ELSE conf[remoteAddr]
    BY <1>0, <1>2, <2>1 DEF ConfTypes
  <2>3. /\ \A k \in Fields : Configured(conf[c.addr], c)[k] \in {conf[c.addr][k], c.val[k]}
        /\ c.op \notin {"submit", "apply"} => Configured(conf[c.addr], c) = conf[c.addr]
    BY <1>0, ConfiguredFields DEF ConfTypes
  <2>4. CASE Filling
    <3>1. c.op \in {"system", "script"} /\ c.addr = remoteAddr
      BY <2>4 DEF Filling
    <3>2. conf'[remoteAddr] = conf[remoteAddr]
      BY <2>2, <2>3, <3>1
    <3>3. Filling'
      BY <1>1, <1>2, <2>4, <3>1, <3>2 DEF Filling
    <3> QED BY <3>3
  <2>5. CASE Sending
    <3>1. /\ asks' = {d} /\ c.op \in {"health", "submit", "apply"} /\ (c.op # "health" => c.addr = remoteAddr)
          /\ \A k \in Fields \ touched :
               /\ form[k] = conf[remoteAddr][k]
               /\ c.op # "health" => c.val[k] = form[k]
      BY <1>1, <1>2, <2>5 DEF Sending
    <3>2. \A k \in Fields \ touched : conf'[remoteAddr][k] = conf[remoteAddr][k]
      BY <2>2, <2>3, <3>1
    <3>3. Sending'
      BY <1>1, <1>2, <3>1, <3>2 DEF Sending
    <3> QED BY <3>3
  <2> QED BY <2>1, <2>4, <2>5 DEF FormInv
<1> QED BY <1>3, <1>4 DEF FormInv

\* The calls of a sync fill every field.
LEMMA SyncFills ==
  ASSUME NEW a \in Addr, remoteAddr' = a, NEW v, NEW c, NEW d, asks' = {c, d},
         c.op = "system" /\ c.addr = a /\ c.at = "asked", d.op = "script" /\ d.addr = a /\ d.at = "asked"
  PROVE  Filling'
<1>1. \A k \in Fields : k \in Of("system") \/ k \in Of("script")
  BY DEF Fields, Of
<1>2. \A k \in Fields : \E q \in asks' : k \in Of(q.op)
  BY <1>1
<1> QED BY <1>2 DEF Filling

\* An answer fills its fields, or is that of the last call.
LEMMA FormAnswered ==
  ASSUME Types, FormInv, NEW c \in asks, AskAnswered(c)
  PROVE  FormInv'
<1>0. /\ SettingsTypes /\ c.to \in Addr /\ c.visit \in 0..visit /\ visit \in Nat
      /\ DOMAIN form = {"addr", "size", "delay", "script"}
  BY DEF Types, SiteTypes, SettingsTypes, AskCall, Call, FormType
<1>1. UNCHANGED <<page, visit, lost, conf>> /\ c.at = "done"
  BY DEF AskAnswered
<1>2. CASE c.op = "health" /\ c.ok
  <2>1. /\ remoteAddr' = c.to /\ asks' = syncForm(c.to, asks \ {c}, c.visit)
        /\ crossed' = (crossed \/ asks # {c}) /\ UNCHANGED <<form, touched>>
    BY <1>2 DEF AskAnswered, Healthy
  <2>2. c.to # NoAddr
    BY <1>0, SiteAssumption
  <2>3. PICK q, r : /\ q.op = "system" /\ q.addr = c.to /\ q.visit = c.visit /\ q.at = "asked"
                    /\ r.op = "script" /\ r.addr = c.to /\ r.visit = c.visit /\ r.at = "asked"
                    /\ asks' = (asks \ {c}) \cup {q, r}
    BY <1>0, <2>1, <2>2, SyncFormIs
  <2>4. ASSUME ~crossed' PROVE ~crossed /\ asks' = {q, r} /\ c.visit = visit
    BY <2>1, <2>3, <2>4 DEF FormInv, AsksHere
  <2>5. AsksHere'
    BY <1>1, <2>3, <2>4 DEF AsksHere
  <2>6. Sound' => Filling'
    BY <1>0, <2>1, <2>3, <2>4, SyncFills DEF Sound
  <2> QED BY <2>5, <2>6 DEF FormInv
<1>3. CASE ~(c.op = "health" /\ c.ok)
  <2>1. asks' = asks \ {c} /\ UNCHANGED <<remoteAddr, unchecked, crossed>>
    BY <1>3 DEF AskAnswered
  <2>2. AsksHere'
    BY <1>1, <2>1 DEF FormInv, AsksHere
  <2>3. ASSUME Sound' PROVE Filling'
    <3>1. Sound /\ c.visit = visit
      BY <1>1, <2>1, <2>3 DEF Sound, FormInv, AsksHere
    <3>2. CASE Filling
      <4>1. c.op \in {"system", "script"} /\ \A k \in Fields : c.val[k] = conf[remoteAddr][k]
        BY <1>1, <3>2 DEF Filling
      <4>2. Fill(c, Of(c.op))
        BY <4>1 DEF AskAnswered, Of
      <4>3. /\ form' = [k \in DOMAIN form |-> IF k \in Of(c.op) THEN c.val[k] ELSE form[k]]
            /\ touched' = touched \ Of(c.op)
        BY <3>1, <4>2 DEF Fill
      <4>4. \A k \in Fields \ touched' : form'[k] = conf[remoteAddr][k] \/ \E q \in asks' : k \in Of(q.op)
        <5>1. TAKE k \in Fields \ touched'
        <5>2. k \in DOMAIN form
          BY <1>0 DEF Fields
        <5>3. CASE k \in Of(c.op)
          BY <4>1, <4>3, <5>2, <5>3
        <5>4. CASE k \notin Of(c.op)
          <6>1. form'[k] = form[k] /\ k \notin touched
            BY <4>3, <5>2, <5>4
          <6>2. form[k] = conf[remoteAddr][k] \/ \E q \in asks : k \in Of(q.op)
            BY <3>2, <6>1 DEF Filling
          <6> QED BY <2>1, <5>4, <6>1, <6>2
        <5> QED BY <5>3, <5>4
      <4> QED BY <1>1, <2>1, <3>2, <4>4 DEF Filling
    <3>3. CASE Sending
      <4>1. /\ asks = {c} /\ c.op \in {"health", "submit", "apply"}
            /\ \A k \in Fields \ touched : form[k] = conf[remoteAddr][k]
        BY <3>3 DEF Sending
      <4>2. UNCHANGED <<form, touched>>
        BY <4>1 DEF AskAnswered
      <4> QED BY <1>1, <2>1, <4>1, <4>2 DEF Filling
    <3> QED BY <3>1, <3>2, <3>3 DEF FormInv
  <2> QED BY <2>2, <2>3 DEF FormInv
<1> QED BY <1>2, <1>3

\* Every step keeps the fields filled, or on their way.
LEMMA FormStep == Types /\ FormInv /\ [Next]_vars => FormInv'
<1> SUFFICES ASSUME Types, FormInv, [Next]_vars PROVE FormInv'
  OBVIOUS
<1>0. lost \in Nat /\ visit \in Nat /\ remoteAddr \in Addr \cup {NoAddr}
  BY DEF Types, SiteTypes
<1>1. CASE UNCHANGED <<page, visit, remoteAddr, settingsVars>> /\ (lost' = 0 => lost = 0)
  <2>1. UNCHANGED <<conf, form, asks, crossed, unchecked, touched>>
    BY <1>1 DEF settingsVars
  <2> QED BY <1>1, <2>1 DEF FormInv, AsksHere, Sound, Filling, Sending
<1>2. ASSUME NEW p, Goto(p) PROVE FormInv'
  <2>1. PICK w : w = visit'
    OBVIOUS
  <2>2. /\ crossed' = (asks # {}) /\ page' = p /\ remoteAddr' = remoteAddr /\ w \in Nat /\ w \in 0..w
        /\ asks' = IF p = "config" THEN syncForm(remoteAddr, asks, w) ELSE asks
    BY <1>0, <1>2, <2>1 DEF Goto, SettingsOpen
  <2>3. CASE p = "config" /\ remoteAddr # NoAddr
    <3>1. PICK q, r : /\ q.op = "system" /\ q.addr = remoteAddr /\ q.visit = w /\ q.at = "asked"
                      /\ r.op = "script" /\ r.addr = remoteAddr /\ r.visit = w /\ r.at = "asked"
                      /\ asks' = asks \cup {q, r}
      BY <1>0, <2>2, <2>3, SyncFormIs
    <3>2. ~crossed' => asks' = {q, r}
      BY <2>2, <3>1
    <3>3. AsksHere'
      BY <2>1, <3>1, <3>2 DEF AsksHere
    <3>4. PICK a : a = remoteAddr
      OBVIOUS
    <3>5. ~crossed' => Filling'
      BY <1>0, <2>2, <2>3, <3>1, <3>2, <3>4, SyncFills
    <3> QED BY <3>3, <3>5 DEF FormInv, Sound
  <2>4. CASE ~(p = "config" /\ remoteAddr # NoAddr)
    <3>1. asks' = asks
      <4>1. CASE p # "config"
        BY <2>2, <4>1
      <4>2. CASE remoteAddr = NoAddr
        <5>1. syncForm(remoteAddr, asks, w) = asks
          BY <2>2, <4>2, <1>0, SyncFormIs
        <5> QED BY <2>2, <5>1
      <4> QED BY <2>4, <4>1, <4>2
    <3>2. AsksHere'
      BY <2>2, <3>1 DEF AsksHere
    <3> QED BY <2>2, <2>4, <3>2 DEF FormInv, Sound
  <2> QED BY <2>3, <2>4
<1>3. CASE PageStep /\ tour' = tour
  <2>0. page' = page /\ visit' = visit /\ (lost' = 0 => lost = 0) /\ (~SettingsNext => remoteAddr' = remoteAddr)
    BY <1>0, <1>3, PageKept
  <2>1. CASE UNCHANGED settingsVars /\ ~SettingsNext
    BY <1>1, <2>0, <2>1
  <2>2. CASE SettingsNext
    <3>1. ASSUME NEW c \in asks, LoseAsk(c) PROVE FormInv'
      <4>1. lost' = lost + 1 /\ asks' = asks \ {c} /\ crossed' = crossed
        BY <3>1 DEF LoseAsk, Loss
      <4> QED BY <1>0, <2>0, <4>1 DEF FormInv, AsksHere, Sound
    <3> QED BY <2>2, <3>1, FormPage, FormServed, FormAnswered DEF SettingsNext
  <2> QED BY <1>3, <2>1, <2>2 DEF PageStep
<1>4. UNCHANGED vars => UNCHANGED <<page, visit, remoteAddr, settingsVars, lost>>
  BY DEF vars, site
<1> QED BY <1>1, <1>2, <1>3, <1>4, Steps

(* Once all answers have come, the fields the user has not changed show    *)
(* the settings of the server they would be sent to (config.tsx), also     *)
(* after another address was applied and after they were sent.             *)
THEOREM SettingsCorrect == Spec => []SettingsOfServer
<1>1. Init => FormInv
  BY DEF Init, SiteInit, SettingsInit, FormInv, AsksHere, Sound
<1>2. FormInv => SettingsOfServer
  BY DEF FormInv, SettingsOfServer, Sound, Filling, Sending
<1> QED BY <1>1, <1>2, FormStep, TypesAlways, PTL DEF Spec
=============================================================================
