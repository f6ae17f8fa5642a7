----------------------------- MODULE EditorTree -----------------------------
(***************************************************************************)
(* The editor's model of a behaviour tree: the redux slice "tree"          *)
(* (src/editor/src/models/tree.ts).                                        *)
(*                                                                         *)
(* state.nodes is an array of nested nodes: the tree of the Root node and  *)
(* the fragments not linked to it yet.  Here the nesting is flattened: a   *)
(* forest F maps every node to the sequence of its children, F.kids, and   *)
(* the pseudo-node Top to the array state.nodes itself; F.info holds the   *)
(* other fields of a node.  The type of a node never changes: Ty.          *)
(*                                                                         *)
(* A reducer is an operator from the slice and a payload to the slice, as  *)
(* in redux.  GraphEditor composes them as the handlers of the page do.    *)
(***************************************************************************)
EXTENDS Naturals, Sequences

CONSTANTS
  Id,     \* ids of nodes
  Top,    \* stands for the array state.nodes
  NoId,   \* the empty id
  Ty,     \* Ty[x]: the type of node x
  Info,   \* what a node holds besides its id, its type and its children
  Name,   \* names of behaviour files
  NoName, \* the empty name
  Trees   \* trees that behaviour files hold

Fields == {"code", "alias", "loop", "wait", "pos"}

Ids(F) == DOMAIN F.kids \ {Top}
Elements(s) == {s[i] : i \in DOMAIN s}
Children(F, x) == Elements(F.kids[x])

Closed(F, S) == \A y \in S : Children(F, y) \subseteq S
\* x and its descendants: what travels with a node that is cut out
Below(F, x) ==
  {y \in DOMAIN F.kids : \A S \in SUBSET DOMAIN F.kids : x \in S /\ Closed(F, S) => y \in S}

\* array.splice(index of x, 1); an array x is not in stays as it is
Without(s, x) ==
  IF x \notin Elements(s) THEN s
  ELSE LET at == CHOOSE i \in DOMAIN s : s[i] = x
       IN  [i \in 1..(Len(s) - 1) |-> IF i < at THEN s[i] ELSE s[i + 1]]

Keep(F, S, kids) == [kids |-> [y \in S \cup {Top} |-> kids[y]],
                     info |-> [y \in S |-> F.info[y]]]

(* A forest: every id sits in exactly one array, and every node is reached *)
(* from state.nodes.  It is what rmv, _cut, _copy and find rely on when    *)
(* they act on the first place an id is found at.                          *)
IsForest(F) ==
  /\ Top \in DOMAIN F.kids /\ Ids(F) \subseteq Id /\ DOMAIN F.info = Ids(F)
  /\ \A y \in DOMAIN F.kids : F.kids[y] \in Seq(Ids(F))
  /\ \A y \in DOMAIN F.kids : \A i, j \in DOMAIN F.kids[y] : F.kids[y][i] = F.kids[y][j] => i = j
  /\ \A y, z \in DOMAIN F.kids : y # z => Children(F, y) \cap Children(F, z) = {}
  /\ \A S \in SUBSET DOMAIN F.kids : Top \in S /\ Closed(F, S) => S = DOMAIN F.kids

ASSUME TreeAssumption ==
  /\ Top \notin Id /\ NoId \notin Id /\ NoName \notin Name
  /\ \A T \in Trees : IsForest(T) /\ \E r \in Ids(T) : T.kids[Top] = <<r>> /\ Ty[r] = "Root"
                      /\ \A x \in Ids(T) : Ty[x] = "Root" => x = r
-----------------------------------------------------------------------------
(* The functions the reducers are made of. *)

Empty == [kids |-> [y \in {Top} |-> <<>>], info |-> [y \in {} |-> NoId]]

add(F, x, info) ==
  [kids |-> [y \in DOMAIN F.kids \cup {x} |->
               IF y = x THEN <<>> ELSE IF y = Top THEN Append(F.kids[Top], x) ELSE F.kids[y]],
   info |-> [y \in DOMAIN F.info \cup {x} |-> IF y = x THEN info ELSE F.info[y]]]

\* rmv and _cut take x out together with what is below it.
_cut(F, x) ==
  IF x \notin Ids(F) THEN F
  ELSE Keep(F, Ids(F) \ Below(F, x), [y \in DOMAIN F.kids |-> Without(F.kids[y], x)])
rmv(F, x) == _cut(F, x)

\* x leaves its array and goes, with what is below it, to the end of q's.
Moved(F, x, q) ==
  [kids |-> [y \in DOMAIN F.kids |->
               LET rest == Without(F.kids[y], x) IN IF y = q THEN Append(rest, x) ELSE rest],
   info |-> F.info]

(* link cuts first and looks for the parent in what is left.  A parent     *)
(* that is not there, because it was below the child or is no node of the  *)
(* store, takes nothing: the copy that was cut is gone.                    *)
link(F, p, x) ==
  LET rest == _cut(F, x) IN
  IF x \in Ids(F) /\ p \in Ids(rest) THEN Moved(F, x, p) ELSE rest

\* (a mistake: a copy goes to the end, the node stays as well)
UnlinkCopies(F, x) == IF x \in Ids(F) THEN [F EXCEPT !.kids[Top] = Append(@, x)] ELSE F
unlink(F, x) == IF x \in Ids(F) THEN Moved(F, x, Top) ELSE F

\* An update of an id that is not there changes nothing.
update(F, x, fields, up) ==
  IF x \notin Ids(F) THEN F
  ELSE [kids |-> F.kids,
        info |-> [F.info EXCEPT ![x] = [f \in Fields |-> IF f \in fields THEN up[f] ELSE @[f]]]]

\* The tree of root r alone, as save and ClickCreateDebug serialize it.
Subtree(F, r) ==
  Keep(F, Below(F, r), [y \in DOMAIN F.kids |-> IF y = Top THEN <<r>> ELSE F.kids[y]])
Roots(F) == {r \in Children(F, Top) : Ty[r] = "Root"}
-----------------------------------------------------------------------------
(* The reducers. *)

\* Every edit remembers the nodes as they were.
Edit(st, F) == [st EXCEPT !.nodes = F, !.history = Append(@, st.nodes)]

nodeAdd(st, x, info)         == Edit(st, add(st.nodes, x, info))
nodeRmv(st, x)               == Edit(st, rmv(st.nodes, x))
nodeLink(st, p, x)           == Edit(st, link(st.nodes, p, x))
nodeUnlink(st, x)            == Edit(st, unlink(st.nodes, x))
nodeUpdate(st, x, fields, up) == Edit(st, update(st.nodes, x, fields, up))

nodeClick(st, x) == [st EXCEPT !.currentClickNode = x]

\* updatetick is TRUE from its increment to the effect that depends on it.
nodeRedraw(st) == [st EXCEPT !.updatetick = TRUE]

\* (a mistake: the nodes are taken back without a redraw)
UndoNoRedraw(st) ==
  IF st.history = <<>> THEN st
  ELSE [st EXCEPT !.nodes = st.history[Len(st.history)], !.history = SubSeq(@, 1, Len(@) - 1)]
nodeUndo(st) ==
  IF st.history = <<>> THEN st
  ELSE [st EXCEPT !.nodes = st.history[Len(st.history)],
                  !.history = SubSeq(@, 1, Len(@) - 1),
                  !.updatetick = TRUE]

\* (a mistake: the history of the former tree stays)
InitKeepsHistory(st, T) ==
  LET r == T.kids[Top][1] IN
  IF Ty[r] # "Root" THEN st
  ELSE [st EXCEPT !.currentTreeName = NoName, !.rootid = r, !.nodes = T]
\* (a mistake: the name of the former tree stays)
InitKeepsName(st, T) ==
  LET r == T.kids[Top][1] IN
  IF Ty[r] # "Root" THEN st ELSE [st EXCEPT !.rootid = r, !.history = <<>>, !.nodes = T]
initTree(st, T) ==
  LET r == T.kids[Top][1] IN
  IF Ty[r] # "Root" THEN st
  ELSE [st EXCEPT !.currentTreeName = NoName, !.rootid = r, !.history = <<>>, !.nodes = T]

cleanTree(st) ==
  [st EXCEPT !.currentTreeName = NoName, !.rootid = NoId, !.history = <<>>,
             !.nodes = Empty, !.updatetick = TRUE]

\* The name is taken over before the server has answered.
nodeSave(st, name) == IF name = NoName THEN st ELSE [st EXCEPT !.currentTreeName = name]
\* (a mistake: the fragments are sent along)
UploadsAll(st, name) ==
  LET n == IF name = NoName THEN st.currentTreeName ELSE name IN
  IF n = NoName \/ Roots(st.nodes) = {} THEN {} ELSE {[name |-> n, file |-> st.nodes]}
\* What nodeSave sends: nothing without a name, nothing without a Root.
Uploads(st, name) ==
  LET n == IF name = NoName THEN st.currentTreeName ELSE name IN
  IF n = NoName THEN {} ELSE {[name |-> n, file |-> Subtree(st.nodes, r)] : r \in Roots(st.nodes)}
-----------------------------------------------------------------------------
VARIABLE tree   \* the slice

TreeInit ==
  tree = [nodes |-> Empty, history |-> <<>>, rootid |-> NoId, currentTreeName |-> NoName,
          currentClickNode |-> NoId, updatetick |-> FALSE]

\* The slice under any actions the page may dispatch.
TreeNext ==
  \/ \E x \in Id \ Ids(tree.nodes), info \in Info : Ty[x] # "Root" /\ tree' = nodeAdd(tree, x, info)
  \/ \E x \in Id : tree' = nodeRmv(tree, x) \/ tree' = nodeUnlink(tree, x) \/ tree' = nodeClick(tree, x)
  \/ \E p, x \in Id : tree' = nodeLink(tree, p, x)
  \/ \E x \in Id, fields \in SUBSET Fields, up \in Info : tree' = nodeUpdate(tree, x, fields, up)
  \/ tree' = nodeRedraw(tree) \/ tree' = nodeUndo(tree) \/ tree' = cleanTree(tree)
  \/ \E T \in Trees : tree' = initTree(tree, T)
  \/ \E name \in Name \cup {NoName} : tree' = nodeSave(tree, name)
  \/ tree' = [tree EXCEPT !.updatetick = FALSE]

TreeSpec == TreeInit /\ [][TreeNext]_tree

Versions == {tree.nodes} \cup Elements(tree.history)

(* What undo can ever bring back, and what is there now, is a forest: no   *)
(* reducer duplicates a node, strands one, or leaves an id in two arrays.  *)
ForestInv == \A F \in Versions : IsForest(F)

(* No version holds the Root of another file: loading and cleaning leave   *)
(* nothing behind that an undo would mix into the tree now open.           *)
OneRoot == \A F \in Versions : \A x \in Ids(F) : Ty[x] = "Root" => x = tree.rootid
=============================================================================
