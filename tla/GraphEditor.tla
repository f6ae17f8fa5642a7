---------------------------- MODULE GraphEditor -----------------------------
(***************************************************************************)
(* The editor page (src/editor/src/pages/edit/graph.tsx with side.tsx, the *)
(* node tabs and utils/parse.js): the canvas the user works on and the     *)
(* slice of EditorTree behind it, each changed by the handlers of the page *)
(* and by answers of the server.                                           *)
(*                                                                         *)
(* The canvas is an X6 graph: cells, edges and an embedding (parent and    *)
(* children) that handlers consult.  A handler dispatches its reducers and *)
(* React runs the redraw effect of a discrete event before the next one,   *)
(* so the redraw is part of the handler.  Left out: layout (zoom, labels,  *)
(* arrow keys that shift a cell by a pixel, colours), clicks on breakpoint *)
(* markers.                                                                *)
(***************************************************************************)
EXTENDS EditorTree, FiniteSets, SequencesExt, FiniteSetsExt

CONSTANTS
  NoFile,      \* the server has no file of this name
  Disk,        \* Disk[n]: the file of name n at the start, or NoFile
  PrefabMap,   \* the prefabs known at the mount: a sequence of [name, code]
  Template,    \* the code of a new condition node
  Positions,   \* positions a node can be put at
  Texts,       \* code, alias, loop count or wait time a user may enter
  MaxWork      \* bound: the undo history and the calls asked for add up to no more

VARIABLES
  mounted,  \* is the editor page the one shown?
  canvas,   \* the X6 graph: cells, which was added before which, parents, edges
  BpNodes,  \* breakpoints: nodes whose marker cell was added
  tab,      \* the node the form of the drawer was filled with
  files,    \* the behaviour table of the server
  uploads,  \* FileBlobUpload calls in flight
  loads,    \* FileGet calls in flight and what was read
  calls,    \* saves and loads so far
  modalVisible, \* does the dialog for a name cover the page?
  behaviorName, \* what was typed into it last
  former,   \* history: names of trees loaded over or cleaned away, not typed again since
  misled    \* history: an answer has replaced the tree under an open canvas

dialog == <<modalVisible, behaviorName>>
page == <<mounted, canvas, BpNodes, tab, dialog>>
server == <<files, uploads, loads, calls>>
vars == <<tree, page, server, former, misled>>

Marker(x) == <<"BreakPointNode", x>>
Markers == {Marker(x) : x \in Id}

(* Ids are uuids: finitely many, and none is that of a marker. *)
ASSUME GraphAssumption == MaxWork \in Nat /\ IsFiniteSet(Id) /\ Markers \cap Id = {}

TypeName(c) == IF c \in Markers THEN "BreakPointNode" ELSE Ty[c]
IsScriptNode(ty) == ty \notin {"Root", "Loop", "Wait", "Selector", "Sequence", "Parallel"}
IsActionNode(ty) == IsScriptNode(ty) /\ ty # "Condition"

(* GetNodInfo at a drop: the code of the last prefab of that name, and the *)
(* type as alias as soon as there is any prefab.                           *)
GetNodInfo(x, at) ==
  LET same == {i \in DOMAIN PrefabMap : PrefabMap[i].name = Ty[x]}
      code == IF Ty[x] = "Condition" THEN Template
              ELSE IF IsActionNode(Ty[x]) /\ same # {} THEN PrefabMap[Max(same)].code ELSE ""
  IN  [code |-> code, loop |-> "1", wait |-> "1", pos |-> at,
       alias |-> IF IsActionNode(Ty[x]) /\ PrefabMap # <<>> THEN Ty[x] ELSE ""]

Single(r, info) == [kids |-> [y \in {Top, r} |-> IF y = Top THEN <<r>> ELSE <<>>],
                    info |-> [y \in {r} |-> info]]
-----------------------------------------------------------------------------
(* The canvas. *)

Cells == canvas.cells
NoCanvas == [cells |-> {}, before |-> {}, parent |-> [c \in {} |-> NoId], edges |-> {}]

Parent(F, x) == LET p == CHOOSE y \in DOMAIN F.kids : x \in Children(F, y)
                IN  IF p = Top THEN NoId ELSE p

(* The order in which redrawChild adds the nodes: one before those below   *)
(* it, and a child with those below it before the next one.                *)
Order(F) ==
  LET closed == {S \in SUBSET Ids(F) : Closed(F, S)}
      below  == {b \in Ids(F) \X Ids(F) : \A S \in closed : b[1] \in S => b[2] \in S}
  IN  {b \in Ids(F) \X Ids(F) :
         \/ b[1] # b[2] /\ b \in below
         \/ \E z \in DOMAIN F.kids : \E i, j \in DOMAIN F.kids[z] :
              i < j /\ <<F.kids[z][i], b[1]>> \in below /\ <<F.kids[z][j], b[2]>> \in below}

\* redraw of every tree of nodes, into a cleared graph
Draw(F) ==
  [cells |-> Ids(F), before |-> Order(F), parent |-> [x \in Ids(F) |-> Parent(F, x)],
   edges |-> {e \in Ids(F) \X Ids(F) : e[2] \in Children(F, e[1])}]

AddCell(cv, c) ==
  [cv EXCEPT !.cells = @ \cup {c}, !.before = @ \cup (cv.cells \X {c}),
             !.parent = [d \in DOMAIN @ \cup {c} |-> IF d = c THEN NoId ELSE @[d]]]
\* (a mistake: the embedding still knows the cell)
DropCellOnly(cv, c) == [cv EXCEPT !.cells = @ \ {c}]
DropCell(cv, c) ==
  [cells |-> cv.cells \ {c}, before |-> {b \in cv.before : b[1] # c /\ b[2] # c},
   parent |-> [d \in DOMAIN cv.parent \ {c} |-> IF cv.parent[d] = c THEN NoId ELSE cv.parent[d]],
   edges |-> {e \in cv.edges : e[1] # c /\ e[2] # c}]

\* a cell and what is embedded in it, as iterate and eachChild walk it
Branch(c) ==
  LET closed == {S \in SUBSET Cells : c \in S /\ \A d \in Cells : canvas.parent[d] \in S => d \in S}
  IN  {d \in Cells : \A S \in closed : d \in S}
Embedded(c) == {d \in Cells : canvas.parent[d] = c}

(* _findCell looks below the first node without an incoming edge only.     *)
GetRootNodes == {c \in Cells : ~\E e \in canvas.edges : e[2] = c}
FindCell(c) ==
  \E first \in GetRootNodes :
    (\A d \in GetRootNodes \ {first} : <<first, d>> \in canvas.before) /\ c \in Branch(first)
-----------------------------------------------------------------------------
\* uuids are fresh: an id that has left no trace stands for a new one.
Fresh ==
  LET held == Versions \cup {files[n] : n \in {m \in Name : files[m] # NoFile}}
              \cup {u.file : u \in uploads} \cup {l.file : l \in {k \in loads : k.file # NoFile}}
  IN  {x \in Id : /\ \A F \in held : x \notin Ids(F)
                 /\ x \notin Cells \cup BpNodes \cup {tab, tree.currentClickNode}}

(* What a handler leaves: the slice st and the canvas cv, redrawn from the *)
(* slice when updatetick has moved.  Without any node redrawTree adds a    *)
(* Root to the graph, which the node:added handler puts into the store,    *)
(* and initializes the tree with it.                                       *)
redrawTree(st) ==
  IF st.nodes # Empty
  THEN tree' = [st EXCEPT !.updatetick = FALSE] /\ canvas' = Draw(st.nodes)
  ELSE \E r \in {x \in Fresh : Ty[x] = "Root"}, at \in {Min(Positions)} :
         LET info == GetNodInfo(r, at)
             new  == initTree(nodeAdd(st, r, info), Single(r, info))
         IN  tree' = [new EXCEPT !.updatetick = FALSE] /\ canvas' = Draw(new.nodes)

Commit(st, cv) == IF st.updatetick THEN redrawTree(st) ELSE tree' = st /\ canvas' = cv

Asks == Len(tree.history) + calls < MaxWork /\ calls' = calls + 1
Room(n) == Len(tree.history) + n + calls <= MaxWork

\* The handlers of the page: a dialog that is open covers it.
AtHand == mounted /\ ~modalVisible

\* startDrag of the side plane, Dnd and the node:added handler
Drop(x) ==
  /\ AtHand /\ Room(1) /\ x \in Fresh /\ Ty[x] # "Root"
  /\ \E at \in Positions :
       Commit(nodeAdd(tree, x, GetNodInfo(x, at)), AddCell(canvas, x))
  /\ UNCHANGED <<mounted, BpNodes, tab, dialog, server, former, misled>>

\* The graph refuses loops and a second edge of the same ends.
Allowed(s, t) == {s, t} \subseteq Cells /\ s # t /\ <<s, t>> \notin canvas.edges

\* (a mistake: a script node may get a second child)
ConnectAny(s, t) ==
  /\ AtHand /\ Room(1) /\ Allowed(s, t)
  /\ TypeName(t) # "Root" /\ canvas.parent[t] = NoId
  /\ Commit(nodeLink(tree, s, t), [canvas EXCEPT !.edges = @ \cup {<<s, t>>}, !.parent[t] = s])
  /\ UNCHANGED <<mounted, BpNodes, tab, dialog, server, former, misled>>
(* edge:connected of a new edge.  The handler removes the edge again, and  *)
(* leaves all as it was, when the target is a Root or is embedded already, *)
(* or the source is a script node with a child.                            *)
Connect(s, t) ==
  /\ AtHand /\ Room(1) /\ Allowed(s, t)
  /\ TypeName(t) # "Root"
  /\ ~(IsScriptNode(TypeName(s)) /\ Embedded(s) # {})
  /\ canvas.parent[t] = NoId
  /\ Commit(nodeLink(tree, s, t),
            [canvas EXCEPT !.edges = @ \cup {<<s, t>>}, !.parent[t] = s])
  /\ UNCHANGED <<mounted, BpNodes, tab, dialog, server, former, misled>>

\* The arrowhead tools move an end of an edge; edge:connected ignores it.
\* Bound: one edge at a time is drawn where no child is embedded.
Reconnect(e, f) ==
  /\ AtHand /\ e \in canvas.edges /\ f \in Cells \X Cells /\ f \notin canvas.edges
  /\ f[1] # f[2] /\ (f[1] = e[1] \/ f[2] = e[2])
  /\ \A d \in canvas.edges \ {e} : canvas.parent[d[2]] = d[1]
  /\ canvas' = [canvas EXCEPT !.edges = (@ \ {e}) \cup {f}]
  /\ UNCHANGED <<tree, mounted, BpNodes, tab, dialog, server, former, misled>>

\* the button-remove tool of an edge
RemoveEdge(e) ==
  /\ AtHand /\ Room(1) /\ e \in canvas.edges
  /\ Commit(nodeRedraw(nodeUnlink(tree, e[2])), canvas)
  /\ UNCHANGED <<mounted, BpNodes, tab, dialog, server, former, misled>>

\* ClickDel with the nodes selected: c and then d, or c alone
ClickDel(c, d) ==
  LET less == nodeRmv(tree, c) IN
  /\ AtHand /\ {c, d} \subseteq Cells /\ Room(Cardinality({c, d}))
  /\ Commit(nodeRedraw(IF c = d THEN less ELSE nodeRmv(less, d)), canvas)
  /\ UNCHANGED <<mounted, BpNodes, tab, dialog, server, former, misled>>

\* nodeUpdate of the position of each node of s in turn
moveAll(st, s, at) ==
  LET moved(S) == [kids |-> st.nodes.kids,
                   info |-> [x \in DOMAIN st.nodes.info |->
                     IF x \in S THEN [st.nodes.info[x] EXCEPT !.pos = at] ELSE st.nodes.info[x]]]
  IN  [st EXCEPT !.nodes = moved(Elements(s)),
                 !.history = @ \o [i \in DOMAIN s |-> moved({s[j] : j \in 1..(i - 1)})]]

(* node:moved: an update of its own for every cell of the branch.  (Where  *)
(* a link below itself has closed the embedding, the walk does not end.)   *)
Move(c, at) ==
  LET branch == Branch(c) IN
  /\ AtHand /\ c \in Cells /\ canvas.parent[c] \notin branch /\ Room(Cardinality(branch))
  /\ Commit(moveAll(tree, SetToSeq(branch), at), canvas)
  /\ UNCHANGED <<mounted, BpNodes, tab, dialog, server, former, misled>>

TabFields(ty) == IF IsScriptNode(ty) THEN {"code", "alias"}
                 ELSE IF ty = "Loop" THEN {"loop"} ELSE IF ty = "Wait" THEN {"wait"} ELSE {}

\* The form finds the node clicked in the nodes as they are.
Form(st) == IF st.currentClickNode \in Ids(st.nodes) THEN st.currentClickNode ELSE NoId

(* node:click and blank:click.  A node without a form takes no breakpoint  *)
(* either: a click on it is a click on nothing.                            *)
Click(x) ==
  /\ AtHand /\ x \in {c \in Cells \ Markers : TabFields(Ty[c]) # {}} \cup {NoId}
  /\ Commit(nodeClick(tree, x), canvas)
  /\ tab' = Form(tree')
  /\ UNCHANGED <<mounted, BpNodes, dialog, server, former, misled>>

\* applyClick of the script, loop and wait tabs
Apply(text) ==
  /\ AtHand /\ Room(1) /\ tab # NoId /\ TabFields(Ty[tab]) # {}
  /\ Commit(nodeRedraw(nodeUpdate(tree, tab, TabFields(Ty[tab]), [f \in Fields |-> text])), canvas)
  /\ UNCHANGED <<mounted, BpNodes, tab, dialog, server, former, misled>>

ClickUndo ==
  /\ AtHand /\ tree.history # <<>>
  /\ Commit(nodeUndo(tree), canvas)
  /\ UNCHANGED <<mounted, BpNodes, tab, dialog, server, former, misled>>

\* The tree that is open goes: its name is that of a former one now.
WithFormer == former \cup ({tree.currentTreeName} \ {NoName})

CleanTree ==
  /\ AtHand /\ Commit(cleanTree(tree), canvas) /\ former' = WithFormer
  /\ UNCHANGED <<mounted, BpNodes, tab, dialog, server, misled>>

\* (a mistake: the marker stays when the breakpoint goes)
ToggleKeepsMarker ==
  LET x == tree.currentClickNode IN
  /\ AtHand /\ x # NoId /\ FindCell(x) /\ IsScriptNode(TypeName(x))
  /\ IF x \in BpNodes THEN BpNodes' = BpNodes \ {x} /\ UNCHANGED canvas
     ELSE BpNodes' = BpNodes \cup {x} /\ canvas' = AddCell(canvas, Marker(x))
  /\ UNCHANGED <<tree, mounted, tab, dialog, server, former, misled>>
(* ClickBreakpointImpl: on again, off again.  A redraw has taken the       *)
(* markers off the canvas, but not their entries out of BpNodes.           *)
ToggleBreakpoint ==
  LET x == tree.currentClickNode IN
  /\ AtHand /\ x # NoId /\ FindCell(x) /\ IsScriptNode(TypeName(x))
  /\ IF x \in BpNodes
     THEN BpNodes' = BpNodes \ {x} /\ canvas' = DropCell(canvas, Marker(x))
     ELSE BpNodes' = BpNodes \cup {x} /\ canvas' = AddCell(canvas, Marker(x))
  /\ UNCHANGED <<tree, mounted, tab, dialog, server, former, misled>>

(* ClickUpload: a tree that has a name is saved under it, for any other the *)
(* dialog opens.  Bound: there is room for the call it leads to.            *)
ClickUpload ==
  /\ AtHand
  /\ IF tree.currentTreeName = NoName
     THEN Room(1) /\ modalVisible' = TRUE /\ UNCHANGED server
     ELSE Asks /\ uploads' = uploads \cup Uploads(tree, NoName) /\ UNCHANGED <<modalVisible, files, loads>>
  /\ UNCHANGED <<tree, mounted, canvas, BpNodes, tab, behaviorName, former, misled>>

behaviorNameChange(name) ==
  /\ modalVisible /\ behaviorName' = name /\ former' = former \ {name}
  /\ UNCHANGED <<tree, mounted, canvas, BpNodes, tab, modalVisible, server, misled>>

\* (a mistake: the name stays in the dialog)
OkKeepsName ==
  /\ modalVisible /\ modalVisible' = FALSE
  /\ IF behaviorName = NoName THEN UNCHANGED <<tree, server>>
     ELSE /\ Asks /\ tree' = nodeSave(tree, behaviorName)
          /\ uploads' = uploads \cup Uploads(tree, behaviorName) /\ UNCHANGED <<files, loads>>
  /\ UNCHANGED <<mounted, canvas, BpNodes, tab, behaviorName, former, misled>>
\* Without a name there is a warning only.
modalHandleOk ==
  /\ modalVisible /\ modalVisible' = FALSE
  /\ IF behaviorName = NoName THEN UNCHANGED <<tree, server>>
     ELSE /\ Asks /\ tree' = nodeSave(tree, behaviorName)
          /\ uploads' = uploads \cup Uploads(tree, behaviorName) /\ UNCHANGED <<files, loads>>
  /\ behaviorName' = NoName
  /\ UNCHANGED <<mounted, canvas, BpNodes, tab, former, misled>>

\* What was typed is kept, by the next load and the next clean as well.
modalHandleCancel ==
  /\ modalVisible /\ modalVisible' = FALSE
  /\ UNCHANGED <<tree, mounted, canvas, BpNodes, tab, behaviorName, server, former, misled>>
-----------------------------------------------------------------------------
(* The server: uploads may overtake each other, and may fail. *)

Uploaded == \E u \in uploads :
  /\ uploads' = uploads \ {u} /\ files' = [files EXCEPT ![u.name] = u.file]
  /\ UNCHANGED <<tree, page, loads, calls, former, misled>>

UploadFails == \E u \in uploads :
  uploads' = uploads \ {u} /\ UNCHANGED <<tree, page, files, loads, calls, former, misled>>

\* handleBotLoad of the bots page
ClickLoad(name) ==
  /\ ~mounted /\ Asks
  /\ loads' = loads \cup {[by |-> "bots", name |-> name, read |-> FALSE, file |-> NoFile]}
  /\ UNCHANGED <<tree, page, files, uploads, former, misled>>

Read == \E l \in loads :
  /\ ~l.read /\ loads' = (loads \ {l}) \cup {[l EXCEPT !.read = TRUE, !.file = files[l.name]]}
  /\ UNCHANGED <<tree, page, files, uploads, calls, former, misled>>

(* LoadBehaviorWithFile: of the Root's children only the last is kept, and *)
(* of the Root only id, type and position; an empty code or alias has no   *)
(* text and is not set.                                                    *)
Parsed(x, info) ==
  [f \in Fields |-> IF f # "pos" /\ (Ty[x] = "Root" \/ info[f] = "") THEN NoId ELSE info[f]]
LoadBehaviorWithFile(file) ==
  LET r    == file.kids[Top][1]
      own  == file.kids[r]
      last == IF own = <<>> THEN <<>> ELSE <<own[Len(own)]>>
      T    == Keep(file, {r} \cup UNION {Below(file, x) : x \in Elements(last)},
                   [file.kids EXCEPT ![r] = last])
  IN  [T EXCEPT !.info = [x \in DOMAIN @ |-> Parsed(x, @[x])]]

(* The answer of a load.  The bots page opens the editor, which draws the  *)
(* tree when it mounts; the editor's own load of a shared link clears and  *)
(* draws its canvas.  Any other answer changes the slice, but neither      *)
(* updatetick nor a canvas that is open.                                   *)
Loaded == \E l \in loads :
  /\ l.read /\ loads' = loads \ {l} /\ UNCHANGED <<files, uploads, calls>>
  /\ IF l.file = NoFile THEN UNCHANGED <<tree, page, former, misled>>
     ELSE LET st == initTree(tree, LoadBehaviorWithFile(l.file)) IN
          /\ tree' = st /\ former' = WithFormer
          /\ CASE l.by = "share" -> canvas' = Draw(st.nodes) /\ UNCHANGED <<mounted, BpNodes, tab, dialog, misled>>
               [] l.by = "bots" /\ ~mounted ->
                    /\ canvas' = Draw(st.nodes) /\ mounted' = TRUE /\ UNCHANGED <<BpNodes, dialog, misled>>
                    /\ tab' = Form(st)
               [] OTHER -> misled' = (misled \/ mounted) /\ UNCHANGED page

\* The page is opened, with the link of a file or without; it draws the slice.
Mount(name) ==
  /\ ~mounted /\ mounted' = TRUE /\ redrawTree(tree)
  /\ tab' = Form(tree)
  /\ IF name = NoName THEN UNCHANGED <<loads, calls>>
     ELSE /\ Asks
          /\ loads' = loads \cup {[by |-> "share", name |-> name, read |-> FALSE, file |-> NoFile]}
  /\ UNCHANGED <<BpNodes, dialog, files, uploads, former, misled>>

\* Another page is opened: the graph is disposed of, a load of the link goes on.
Unmount ==
  /\ mounted /\ mounted' = FALSE /\ canvas' = NoCanvas /\ BpNodes' = {} /\ tab' = NoId
  /\ modalVisible' = FALSE /\ behaviorName' = NoName
  /\ loads' = {[l EXCEPT !.by = IF @ = "share" THEN "gone" ELSE @] : l \in loads}
  /\ UNCHANGED <<tree, files, uploads, calls, former, misled>>
-----------------------------------------------------------------------------
Init ==
  /\ TreeInit
  /\ mounted = FALSE /\ canvas = NoCanvas /\ BpNodes = {} /\ tab = NoId
  /\ files = Disk /\ uploads = {} /\ loads = {} /\ calls = 0 /\ misled = FALSE
  /\ modalVisible = FALSE /\ behaviorName = NoName /\ former = {}

Next ==
  \/ \E x \in Id : Drop(x)
  \/ \E s, t \in Cells : Connect(s, t)
  \/ \E e \in canvas.edges, f \in Cells \X Cells : Reconnect(e, f)
  \/ \E e \in canvas.edges : RemoveEdge(e)
  \/ \E c, d \in Cells : ClickDel(c, d)
  \/ \E c \in Cells, at \in Positions : Move(c, at)
  \/ \E x \in Id \cup {NoId} : Click(x)
  \/ \E text \in Texts : Apply(text)
  \/ ClickUndo \/ CleanTree \/ ToggleBreakpoint
  \/ ClickUpload \/ modalHandleOk \/ modalHandleCancel
  \/ \E name \in Name \cup {NoName} : behaviorNameChange(name) \/ Mount(name)
  \/ Uploaded \/ UploadFails
  \/ \E name \in Name : ClickLoad(name)
  \/ Read \/ Loaded \/ Unmount

Spec == Init /\ [][Next]_vars
-----------------------------------------------------------------------------
TypeOK ==
  /\ mounted \in BOOLEAN /\ misled \in BOOLEAN /\ tree.updatetick = FALSE
  /\ DOMAIN canvas.parent = Cells /\ Cells \subseteq Id \cup Markers
  /\ canvas.edges \subseteq Cells \X Cells /\ canvas.before \subseteq Cells \X Cells
  /\ BpNodes \subseteq Id /\ tab \in Id \cup {NoId} /\ former \subseteq Name
  /\ behaviorName \in Name \cup {NoName} /\ (modalVisible => mounted)
  /\ tree.currentTreeName \in Name \cup {NoName} /\ tree.currentClickNode \in Id \cup {NoId}
  /\ tree.rootid \in Id \cup {NoId} /\ Len(tree.history) <= MaxWork
  /\ \A u \in uploads : u.name \in Name /\ IsForest(u.file)

(* The canvas of an open page shows every node of the store, embedded      *)
(* where the store has it: the drawing depends on model/tree               *)
(* (CHANGELOG.md:66).                                                      *)
DrawnFromTree ==
  mounted => \A x \in Ids(tree.nodes) : x \in Cells /\ canvas.parent[x] = Parent(tree.nodes, x)

(* The handlers decide on the canvas (has the target a parent, how many    *)
(* children has the source) and change the store: the two agree on every   *)
(* node of the store, unless a late answer has replaced the tree.          *)
EmbeddingAgrees == misled \/ DrawnFromTree

\* Where at most one node is mounted, and where none is a Root.
WellMounted(F) ==
  \A y \in DOMAIN F.kids :
    /\ y # Top /\ IsScriptNode(Ty[y]) => Len(F.kids[y]) <= 1
    /\ y # Top => \A x \in Children(F, y) : Ty[x] # "Root"

\* What the server holds at the start has been drawn in this editor.
ASSUME DiskAssumption ==
  Disk \in [Name -> Trees \cup {NoFile}] /\ \A T \in Trees : WellMounted(T)

(* "Action node can only mount a single node" (graph.tsx:158), and a Root  *)
(* is never mounted below another node, in the store, in what undo brings  *)
(* back and in what the server holds.                                      *)
SingleMount ==
  misled \/ \A F \in Versions \cup {files[n] : n \in {m \in Name : files[m] # NoFile}} : WellMounted(F)

(* A breakpoint marker on the canvas belongs to a breakpoint that stops    *)
(* the run: none outlives its entry in BpNodes.                            *)
MarkersActive == \A x \in Id : Marker(x) \in Cells => x \in BpNodes

(* What the server holds is one tree with a Root on top, the whole of it,  *)
(* however edits, uploads and loads overlap.                               *)
FilesAreTrees ==
  \A n \in Name : files[n] # NoFile =>
    IsForest(files[n]) /\ \E r \in Ids(files[n]) : files[n].kids[Top] = <<r>> /\ Ty[r] = "Root"

(* The file of a tree that was open before is not overwritten with another *)
(* tree unless the user has typed its name again: neither the name the     *)
(* slice keeps nor the one the dialog keeps, which outlives a cancel, a    *)
(* clean and a load, sends a tree to where a former one was saved.         *)
NoForeignOverwrite == [][\A u \in uploads' \ uploads : u.name \notin former]_vars
=============================================================================
