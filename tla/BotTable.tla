------------------------------ MODULE BotTable ------------------------------
(***************************************************************************)
(* The page of behaviour files (src/editor/src/pages/bots.tsx with         *)
(* pages/tags/tags.tsx): the list of the server as it was last read, the   *)
(* table that shows what of it has the tags selected, and the calls that   *)
(* run, remove, tag and upload files.                                      *)
(*                                                                         *)
(* Handlers see the state of the render that made them: an answer fills    *)
(* the table by the tags that were selected when its call was made, an     *)
(* upload, whose subscription is that of the first render, by none.        *)
(***************************************************************************)
EXTENDS Site

CONSTANTS
  File,       \* names of behaviour files
  FileTag,
  FirstFiles  \* FirstFiles[a]: the files of server a, a partial function to their tags

\* Each server starts with files of its own.
ASSUME FilesAssumption ==
  DOMAIN FirstFiles = Addr /\ \A a \in Addr : DOMAIN FirstFiles[a] \subseteq File

VARIABLES
  files,                \* files[a]: name -> tags
  tasks,                \* tasks[a]: files that have been told to run
  Bots,                 \* the list of the server, name -> tags
  botLst,               \* the rows of the table
  currentSelectedTags,
  selectedRows,         \* names of the rows selected, whether they are still there or not
  runs,                 \* the files with a number of runs
  lists,                \* calls of FileList
  edits,                \* the other calls
  outdated,             \* history: an answer has filled the table by tags selected earlier
  overlapped,           \* history: the last list was asked for while another one of the page was
                        \* in flight, or an edit of a former visit
  source                \* the address the last list was asked from

botPage == <<Bots, botLst, currentSelectedTags, selectedRows, runs>>
botVars == <<files, tasks, botPage, lists, edits, outdated, overlapped, source>>

Nothing == [n \in {} |-> {}]
Shown(bots, S) == [n \in {m \in DOMAIN bots : S \subseteq bots[m]} |-> bots[n]]
\* fillBotList: an empty list leaves the table as it is.
fillBotList(bots, S) == botLst' = IF DOMAIN bots = {} THEN botLst ELSE Shown(bots, S)

\* refreshBotList of visit v, the one shown or a former one, in a closure with the tags S
refreshBotList(v, S, shown) ==
  /\ lists' = PostTo(remoteAddr, lists, [tags |-> S, lst |-> Nothing], v)
  /\ IF shown
     THEN /\ overlapped' = ((\E l \in lists : l.visit = v) \/ (\E e \in edits : e.visit # v))
          /\ source' = remoteAddr
     ELSE UNCHANGED <<overlapped, source>>

BotInit ==
  /\ files = FirstFiles /\ tasks = [a \in Addr |-> {}] /\ Bots = Nothing /\ botLst = Nothing
  /\ currentSelectedTags = {} /\ selectedRows = {} /\ runs = {}
  /\ lists = {} /\ edits = {} /\ outdated = FALSE /\ overlapped = FALSE /\ source = NoAddr

BotsOpen(p) ==
  /\ Bots' = Nothing /\ botLst' = Nothing /\ currentSelectedTags' = {} /\ selectedRows' = {} /\ runs' = {}
  /\ outdated' = FALSE
  /\ IF p = "bots" THEN refreshBotList(visit', {}, TRUE)
     ELSE UNCHANGED <<lists, overlapped>> /\ source' = NoAddr
  /\ UNCHANGED <<files, tasks, edits>>
-----------------------------------------------------------------------------
(* The list. *)

ReadFiles(l) ==
  /\ l.at = "asked" /\ lists' = Swap(lists, l, [l EXCEPT !.at = "read", !.lst = files[l.addr]])
  /\ Still /\ UNCHANGED <<files, tasks, botPage, edits, outdated, overlapped, source>>

\* The list of a server without files comes as null, which changes nothing.
Refreshed(l) ==
  /\ l.at = "read" /\ lists' = lists \ {l}
  /\ IF l.visit = visit /\ DOMAIN l.lst # {}
     THEN Bots' = l.lst /\ fillBotList(l.lst, l.tags) /\ outdated' = (l.tags # currentSelectedTags)
     ELSE UNCHANGED <<Bots, botLst, outdated>>
  /\ Still /\ UNCHANGED <<files, tasks, currentSelectedTags, selectedRows, runs, edits, overlapped, source>>

LoseList(l) ==
  Loss /\ lists' = lists \ {l} /\ UNCHANGED <<files, tasks, botPage, edits, outdated, overlapped, source>>
-----------------------------------------------------------------------------
(* The page. *)

\* (a mistake: the table does not follow)
SelectOnly(S) ==
  /\ page = "bots" /\ Click /\ currentSelectedTags' = S /\ outdated' = FALSE
  /\ UNCHANGED <<files, tasks, Bots, botLst, selectedRows, runs, lists, edits, overlapped, source>>
\* handleSelectChange, and the effect on the tags selected
handleSelectChange(S) ==
  /\ page = "bots" /\ Click /\ currentSelectedTags' = S /\ fillBotList(Bots, S) /\ outdated' = FALSE
  /\ UNCHANGED <<files, tasks, Bots, selectedRows, runs, lists, edits, overlapped, source>>

SelectRows(ns) ==
  /\ page = "bots" /\ ns \subseteq DOMAIN botLst /\ Click /\ selectedRows' = ns
  /\ UNCHANGED <<files, tasks, Bots, botLst, currentSelectedTags, runs, lists, edits, outdated, overlapped, source>>

EnterRuns(n) ==
  /\ page = "bots" /\ n \in DOMAIN botLst /\ Click /\ runs' = runs \cup {n}
  /\ UNCHANGED <<files, tasks, Bots, botLst, currentSelectedTags, selectedRows, lists, edits, outdated, overlapped, source>>

EditAt(a, op, n, val) ==
  PostTo(a, edits, [op |-> op, name |-> n, val |-> val, tags |-> currentSelectedTags], visit)
Edit(op, n, val) == EditAt(remoteAddr, op, n, val)
OfEachRow(op(_)) == edits' = edits \cup UNION {Edit(op(n), n, {}) : n \in selectedRows}

\* BotRun, or BotCreateBatch with the number entered for the file
handleBotRun ==
  /\ page = "bots" /\ selectedRows # {} /\ Click
  /\ OfEachRow(LAMBDA n : IF n \in runs THEN "batch" ELSE "run")
  /\ UNCHANGED <<files, tasks, botPage, lists, outdated, overlapped, source>>

\* (a mistake: the list is asked for before the answers)
DeleteAndRefresh ==
  /\ page = "bots" /\ selectedRows # {} /\ Click /\ OfEachRow(LAMBDA n : "drop")
  /\ refreshBotList(visit, currentSelectedTags, TRUE)
  /\ UNCHANGED <<files, tasks, botPage, outdated>>
handleBotDelete ==
  /\ page = "bots" /\ selectedRows # {} /\ Click /\ OfEachRow(LAMBDA n : "remove")
  /\ UNCHANGED <<files, tasks, botPage, lists, outdated, overlapped, source>>

(* handleClose and handleInputConfirm of a tag, and updateTags, which      *)
(* changes the list of the page and posts the tags.  The tags of a row are *)
(* a copy taken when the row was made (tags.tsx:25-34), so that after a    *)
(* refresh of the list any set may be posted.                              *)
updateBotTags(n, tags) ==
  /\ page = "bots" /\ n \in DOMAIN botLst /\ n \in DOMAIN Bots /\ Click
  /\ Bots' = Put(Bots, n, tags) /\ fillBotList(Bots', currentSelectedTags) /\ outdated' = FALSE
  /\ edits' = Edit("tags", n, tags)
  /\ UNCHANGED <<files, tasks, currentSelectedTags, selectedRows, runs, lists, overlapped, source>>

(* A file is dropped on the page; the form of the upload knows the address *)
(* of the last render.                                                     *)
UploadFile(n) ==
  /\ page = "bots" /\ Click /\ \E a \in {source, remoteAddr} : edits' = EditAt(a, "upload", n, {})
  /\ UNCHANGED <<files, tasks, botPage, lists, outdated, overlapped, source>>
-----------------------------------------------------------------------------
FileTable(f, e) ==
  CASE e.op \in {"remove", "drop"} -> Drop(f, e.name)
    [] e.op = "upload" -> IF e.name \in DOMAIN f THEN f ELSE Put(f, e.name, {})
    [] e.op = "tags"   -> IF e.name \in DOMAIN f THEN Put(f, e.name, e.val) ELSE f
    [] OTHER -> f

ServeEdit(e) ==
  /\ e.at = "asked" /\ edits' = Swap(edits, e, [e EXCEPT !.at = "done"])
  /\ files' = [files EXCEPT ![e.addr] = FileTable(@, e)]
  /\ tasks' = IF e.op \in {"run", "batch"} /\ e.name \in DOMAIN files[e.addr]
              THEN [tasks EXCEPT ![e.addr] = @ \cup {e.name}] ELSE tasks
  /\ Still /\ UNCHANGED <<botPage, lists, outdated, overlapped, source>>

(* The answer: a removal is followed by a refresh, an upload by a refresh  *)
(* through the subscription, which ends with the visit.                    *)
EditAnswered(e) ==
  /\ e.at = "done" /\ edits' = edits \ {e}
  /\ CASE e.op = "remove" -> refreshBotList(e.visit, e.tags, e.visit = visit)
       [] e.op = "upload" /\ e.visit = visit -> refreshBotList(visit, {}, TRUE)
       [] OTHER -> UNCHANGED <<lists, overlapped, source>>
  /\ Still /\ UNCHANGED <<files, tasks, botPage, outdated>>

LoseEdit(e) ==
  Loss /\ edits' = edits \ {e} /\ UNCHANGED <<files, tasks, botPage, lists, outdated, overlapped, source>>

BotNext ==
  \/ \E l \in lists : ReadFiles(l) \/ Refreshed(l) \/ LoseList(l)
  \/ \E S \in SUBSET FileTag : handleSelectChange(S) \/ \E n \in File : updateBotTags(n, S)
  \/ \E ns \in SUBSET File : SelectRows(ns)
  \/ \E n \in File : EnterRuns(n) \/ UploadFile(n)
  \/ handleBotRun \/ handleBotDelete
  \/ \E e \in edits : ServeEdit(e) \/ EditAnswered(e) \/ LoseEdit(e)
-----------------------------------------------------------------------------
(* The table shows what of the page's list has the tags selected, unless   *)
(* an answer has filled it by the tags selected when its call was made.    *)
TableShowsList == botLst = Shown(Bots, currentSelectedTags) \/ outdated

(* Once all answers have come, the page lists exactly the files of the     *)
(* server: no removal and no upload goes unseen.  Two lists asked for at   *)
(* the same time may be answered in the wrong order; an emptied server     *)
(* leaves its last list standing.                                          *)
ListCurrent ==
  page = "bots" /\ lists = {} /\ edits = {} /\ lost = 0 /\ ~overlapped /\ source = remoteAddr /\ source # NoAddr =>
    DOMAIN files[remoteAddr] \in {{}, DOMAIN Bots}
=============================================================================
