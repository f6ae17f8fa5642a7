-------------------------- MODULE GraphEditorProofs -------------------------
(***************************************************************************)
(* The editor page, for any finite set of ids, any types, files, prefabs,  *)
(* texts and positions, and any length of the history.                     *)
(*                                                                         *)
(* Each handler is several reducers in a row and, where updatetick has     *)
(* moved, a redraw.  So what the reducers do is stated on slices (Follows, *)
(* RedrawFacts, CommitFacts) and each handler is one use of HandlerKeeps.  *)
(* The invariant joins the page to the store: DrawInv says that the        *)
(* embedding on the canvas is that of the store, which is why Connect,     *)
(* which looks at the canvas, never mounts a second node below a script    *)
(* node of the store.                                                      *)
(***************************************************************************)
EXTENDS GraphEditor, EditorTreeProofs, FiniteSetTheorems

\* A file is one tree with a Root on top, the only one in it.
TreeFile(T) ==
  IsForest(T) /\ \E r \in Ids(T) : T.kids[Top] = <<r>> /\ Ty[r] = "Root" /\ Only(T, r)

\* Every node of F is a cell, embedded where F has it.
Agrees(F, cv) == \A x \in Ids(F) : x \in cv.cells /\ cv.parent[x] = Parent(F, x)

\* A canvas whose edges and embedding are those of its cells.
CanvasOK(cv) ==
  /\ cv = [cells |-> cv.cells, before |-> cv.before, parent |-> cv.parent, edges |-> cv.edges]
  /\ cv.cells \subseteq Id \cup Markers /\ DOMAIN cv.parent = cv.cells
  /\ cv.before \subseteq cv.cells \X cv.cells /\ cv.edges \subseteq cv.cells \X cv.cells

\* No node of G has more children than in F, or others.
Shrinks(G, F) ==
  \A y \in DOMAIN G.kids :
    y \in DOMAIN F.kids /\ Len(G.kids[y]) <= Len(F.kids[y]) /\ Children(G, y) \subseteq Children(F, y)

-----------------------------------------------------------------------------
(* Who is whose parent. *)

\* A node of a forest has one parent.
LEMMA ParentFacts ==
  ASSUME NEW F, IsForest(F), NEW x \in Ids(F)
  PROVE  /\ \E y \in DOMAIN F.kids : x \in Children(F, y)
         /\ \A y \in DOMAIN F.kids : x \in Children(F, y) => Parent(F, x) = IF y = Top THEN NoId ELSE y
<1>1. \E y \in DOMAIN F.kids : x \in Children(F, y)
  <2> SUFFICES ASSUME \A y \in DOMAIN F.kids : x \notin Children(F, y) PROVE FALSE
    OBVIOUS
  <2> DEFINE S == DOMAIN F.kids \ {x}
  <2>1. \A y \in DOMAIN F.kids : Children(F, y) \subseteq Ids(F)
    BY DEF IsForest, Children, Elements
  <2>2. Top \in S /\ Closed(F, S) /\ S \in SUBSET DOMAIN F.kids
    BY <2>1 DEF IsForest, Closed, Ids
  <2> QED BY <2>2 DEF IsForest, Ids
<1>2. ASSUME NEW y \in DOMAIN F.kids, x \in Children(F, y)
      PROVE  Parent(F, x) = IF y = Top THEN NoId ELSE y
  <2> DEFINE p == CHOOSE z \in DOMAIN F.kids : x \in Children(F, z)
  <2>1. p \in DOMAIN F.kids /\ x \in Children(F, p)
    BY <1>2
  <2> HIDE DEF p
  <2>2. p = y
    BY <2>1, <1>2 DEF IsForest
  <2>3. Parent(F, x) = IF p = Top THEN NoId ELSE p
    BY DEF Parent, p
  <2> QED BY <2>2, <2>3
<1> QED BY <1>1, <1>2

\* A node keeps its parent where it stays in its array.
LEMMA SameParent ==
  ASSUME NEW F, IsForest(F), NEW G, IsForest(G), NEW x \in Ids(F), x \in Ids(G),
         \A y \in DOMAIN F.kids : x \in Children(F, y) => y \in DOMAIN G.kids /\ x \in Children(G, y)
  PROVE  Parent(G, x) = Parent(F, x)
<1>1. PICK y \in DOMAIN F.kids : x \in Children(F, y)
  BY ParentFacts
<1>2. y \in DOMAIN G.kids /\ x \in Children(G, y)
  BY <1>1
<1> QED BY <1>1, <1>2, ParentFacts

\* The nodes that are left when x is cut, and their children.
LEMMA CutFacts ==
  ASSUME NEW F, IsForest(F), NEW x
  PROVE  /\ x \notin Ids(_cut(F, x))
         /\ Shrinks(_cut(F, x), F)
         /\ \A y \in DOMAIN _cut(F, x).kids : Children(_cut(F, x), y) = Children(F, y) \ {x}
         /\ \A y \in DOMAIN F.kids : \A z \in Ids(_cut(F, x)) : z \in Children(F, y) => y \in DOMAIN _cut(F, x).kids
<1> DEFINE G == _cut(F, x)
<1>0. /\ \A y \in DOMAIN F.kids : F.kids[y] \in Seq(Ids(F)) /\ Distinct(F.kids[y])
      /\ Top \in DOMAIN F.kids
  BY DEF IsForest, Distinct
<1>1. CASE x \notin Ids(F)
  <2>1. G = F
    BY <1>1 DEF _cut
  <2>2. \A y \in DOMAIN F.kids : x \notin Children(F, y)
    BY <1>0, <1>1 DEF Children, Elements
  <2>3. \A y \in DOMAIN F.kids : Len(F.kids[y]) \in Nat
    BY <1>0
  <2> QED BY <1>1, <2>1, <2>2, <2>3 DEF Shrinks
<1>2. CASE x \in Ids(F)
  <2>1. /\ DOMAIN G.kids = (Ids(F) \ Below(F, x)) \cup {Top}
        /\ \A y \in DOMAIN G.kids : y \in DOMAIN F.kids /\ G.kids[y] = Without(F.kids[y], x)
    BY <1>0, <1>2 DEF _cut, Keep, Ids
  <2>2. x \in Below(F, x) /\ Closed(F, Below(F, x)) /\ Top \notin Below(F, x)
    BY <1>2, BelowFacts DEF Ids
  <2> HIDE DEF G
  <2>3. x \notin Ids(G) /\ Ids(G) = Ids(F) \ Below(F, x)
    BY <2>1, <2>2 DEF Ids
  <2>4. ASSUME NEW y \in DOMAIN G.kids
        PROVE  Children(G, y) = Children(F, y) \ {x} /\ Len(G.kids[y]) <= Len(F.kids[y])
    <3> DEFINE s == F.kids[y]
    <3>1. s \in Seq(Ids(F)) /\ Distinct(s) /\ G.kids[y] = Without(s, x)
      BY <2>1, <2>4, <1>0
    <3> HIDE DEF s
    <3>2. Elements(Without(s, x)) = Elements(s) \ {x}
      BY <3>1, WithoutKeeps
    <3>3. Len(Without(s, x)) <= Len(s)
      <4>1. CASE x \notin Elements(s)
        BY <3>1, <4>1 DEF Without
      <4>2. CASE x \in Elements(s)
        <5>1. Len(s) \in Nat /\ DOMAIN s = 1..Len(s) /\ \E k \in DOMAIN s : s[k] = x
          BY <3>1, <4>2 DEF Elements
        <5>2. Len(s) - 1 \in Nat /\ DOMAIN Without(s, x) = 1..(Len(s) - 1)
          BY <5>1, <4>2 DEF Without
        <5>3. Without(s, x) \in Seq(Ids(F))
          BY <3>1, WithoutKeeps
        <5> QED BY <5>1, <5>2, <5>3
      <4> QED BY <4>1, <4>2
    <3> QED BY <3>1, <3>2, <3>3 DEF Children, s
  <2>5. Shrinks(G, F)
    BY <2>1, <2>4 DEF Shrinks
  <2>6. \A y \in DOMAIN F.kids : \A z \in Ids(G) : z \in Children(F, y) => y \in DOMAIN G.kids
    BY <2>1, <2>2, <2>3 DEF Ids, Closed
  <2> QED BY <2>3, <2>4, <2>5, <2>6 DEF G
<1> QED BY <1>1, <1>2

\* A node that is cut changes no other node's parent.
LEMMA CutParents ==
  ASSUME NEW F, IsForest(F), NEW x, NEW z \in Ids(_cut(F, x))
  PROVE  z \in Ids(F) /\ z # x /\ Parent(_cut(F, x), z) = Parent(F, z)
<1> DEFINE G == _cut(F, x)
<1>1. IsForest(G) /\ z \in Ids(F) /\ z # x
  BY CutForest, CutFacts
<1>2. \A y \in DOMAIN F.kids : z \in Children(F, y) => y \in DOMAIN G.kids /\ z \in Children(G, y)
  BY <1>1, CutFacts
<1> QED BY <1>1, <1>2, SameParent

\* The children after a move.
LEMMA MovedFacts ==
  ASSUME NEW F, IsForest(F), NEW x \in Ids(F), NEW q \in DOMAIN F.kids
  PROVE  /\ DOMAIN Moved(F, x, q).kids = DOMAIN F.kids
         /\ \A y \in DOMAIN F.kids :
              /\ Children(Moved(F, x, q), y) = (Children(F, y) \ {x}) \cup (IF y = q THEN {x} ELSE {})
              /\ Len(Moved(F, x, q).kids[y]) <= IF y = q THEN Len(F.kids[y]) + 1 ELSE Len(F.kids[y])
<1>1. \A y \in DOMAIN F.kids : F.kids[y] \in Seq(Ids(F)) /\ Distinct(F.kids[y])
  BY DEF IsForest, Distinct
<1> DEFINE G == Moved(F, x, q)
<1>2. DOMAIN G.kids = DOMAIN F.kids
  BY DEF Moved
<1>3. ASSUME NEW y \in DOMAIN F.kids
      PROVE  /\ Children(G, y) = (Children(F, y) \ {x}) \cup (IF y = q THEN {x} ELSE {})
             /\ Len(G.kids[y]) <= IF y = q THEN Len(F.kids[y]) + 1 ELSE Len(F.kids[y])
  <2> DEFINE s == F.kids[y]
             rest == Without(s, x)
  <2>1. G.kids[y] = IF y = q THEN Append(rest, x) ELSE rest
    BY <1>3 DEF Moved
  <2>2. s \in Seq(Ids(F)) /\ Distinct(s)
    BY <1>1, <1>3
  <2> HIDE DEF G, s
  <2>3. rest \in Seq(Ids(F)) /\ Elements(rest) = Elements(s) \ {x}
    BY <2>2, WithoutKeeps
  <2>4. Len(rest) <= Len(s)
    <3>1. CASE x \notin Elements(s)
      BY <2>2, <3>1 DEF Without
    <3>2. CASE x \in Elements(s)
      <4>1. Len(s) \in Nat /\ DOMAIN s = 1..Len(s) /\ \E k \in DOMAIN s : s[k] = x
        BY <2>2, <3>2 DEF Elements
      <4>2. Len(s) - 1 \in Nat /\ DOMAIN rest = 1..(Len(s) - 1)
        BY <4>1, <3>2 DEF Without
      <4> QED BY <4>1, <4>2, <2>3
    <3> QED BY <3>1, <3>2
  <2> HIDE DEF rest
  <2>5. CASE y = q
    <3>1. Elements(Append(rest, x)) = Elements(rest) \cup {x} /\ Append(rest, x) \in Seq(Ids(F) \cup {x})
      BY <2>3, AppendAdds
    <3>2. Len(Append(rest, x)) = Len(rest) + 1
      BY <2>3
    <3> QED BY <2>1, <2>2, <2>3, <2>4, <2>5, <3>1, <3>2 DEF Children, s
  <2>6. CASE y # q
    BY <2>1, <2>2, <2>3, <2>4, <2>6 DEF Children, s
  <2> QED BY <2>5, <2>6
<1> QED BY <1>2, <1>3

-----------------------------------------------------------------------------
(* What the reducers do to parents and children. *)

\* Fewer children are as well mounted.
LEMMA ShrunkMounted ==
  ASSUME NEW F, NEW G, IsForest(F), IsForest(G), Shrinks(G, F), WellMounted(F)
  PROVE  WellMounted(G)
<1>1. \A y \in DOMAIN F.kids : Len(F.kids[y]) \in Nat
  BY DEF IsForest
<1>2. \A y \in DOMAIN G.kids : Len(G.kids[y]) \in Nat
  BY DEF IsForest
<1> QED BY <1>1, <1>2 DEF Shrinks, WellMounted

\* A node dropped is nobody's child and has none.
LEMMA AddFacts ==
  ASSUME NEW F, IsForest(F), NEW x \in Id \ Ids(F), NEW info
  PROVE  /\ Parent(add(F, x, info), x) = NoId
         /\ \A z \in Ids(F) : Parent(add(F, x, info), z) = Parent(F, z)
         /\ WellMounted(F) => WellMounted(add(F, x, info))
<1> DEFINE G == add(F, x, info)
<1>1. IsForest(G) /\ Ids(G) = Ids(F) \cup {x} /\ x # Top /\ x \notin DOMAIN F.kids
  BY AddForest, TreeAssumption DEF Ids
<1>2. /\ DOMAIN G.kids = DOMAIN F.kids \cup {x} /\ G.kids[x] = <<>>
      /\ \A y \in DOMAIN F.kids : G.kids[y] = IF y = Top THEN Append(F.kids[Top], x) ELSE F.kids[y]
  BY <1>1 DEF add
<1> HIDE DEF G
<1>3. Top \in DOMAIN F.kids /\ F.kids[Top] \in Seq(Ids(F))
  BY DEF IsForest
<1>4. Elements(Append(F.kids[Top], x)) = Elements(F.kids[Top]) \cup {x}
  BY <1>3, AppendAdds
<1>5. Parent(G, x) = NoId
  <2>1. x \in Children(G, Top)
    BY <1>2, <1>3, <1>4 DEF Children
  <2> QED BY <1>1, <1>2, <1>3, <2>1, ParentFacts
<1>6. ASSUME NEW z \in Ids(F) PROVE Parent(G, z) = Parent(F, z)
  <2>1. \A y \in DOMAIN F.kids : z \in Children(F, y) => y \in DOMAIN G.kids /\ z \in Children(G, y)
    BY <1>2, <1>3, <1>4 DEF Children
  <2> QED BY <1>1, <2>1, SameParent
<1>7. WellMounted(F) => WellMounted(G)
  <2> SUFFICES ASSUME WellMounted(F), NEW y \in DOMAIN G.kids, y # Top
               PROVE  /\ IsScriptNode(Ty[y]) => Len(G.kids[y]) <= 1
                      /\ \A z \in Children(G, y) : Ty[z] # "Root"
    BY DEF WellMounted
  <2>1. CASE y = x
    BY <2>1, <1>2 DEF Children, Elements
  <2>2. CASE y # x
    BY <2>2, <1>2 DEF Children, WellMounted
  <2> QED BY <2>1, <2>2
<1> QED BY <1>5, <1>6, <1>7 DEF G

\* A node linked below a node that takes one more has its parent there; the others keep theirs.
LEMMA LinkFacts ==
  ASSUME NEW F, IsForest(F), NEW p, NEW x
  PROVE  /\ \A z \in Ids(link(F, p, x)) :
              Parent(link(F, p, x), z) = IF z = x THEN p ELSE Parent(F, z)
         /\ WellMounted(F) /\ Ty[x] # "Root" /\ (p \in Ids(F) /\ IsScriptNode(Ty[p]) => Children(F, p) = {})
              => WellMounted(link(F, p, x))
<1> DEFINE rest == _cut(F, x)
<1>1. IsForest(rest) /\ Ids(rest) \subseteq Ids(F)
  BY CutForest
<1>2. CASE x \in Ids(F) /\ p \in Ids(rest)
  <2> DEFINE G == Moved(F, x, p)
  <2>1. link(F, p, x) = G
    BY <1>2 DEF link
  <2>2. p \in Ids(F) /\ p # x /\ p # Top /\ p \in DOMAIN F.kids
    BY <1>1, <1>2, CutFacts DEF Ids
  <2>3. /\ DOMAIN G.kids = DOMAIN F.kids
        /\ \A y \in DOMAIN F.kids :
             /\ Children(G, y) = (Children(F, y) \ {x}) \cup (IF y = p THEN {x} ELSE {})
             /\ Len(G.kids[y]) <= IF y = p THEN Len(F.kids[y]) + 1 ELSE Len(F.kids[y])
    BY <1>2, <2>2, MovedFacts
  <2>4. IsForest(G)
    BY <2>1, LinkForest
  <2> HIDE DEF G
  <2>5. Ids(G) = Ids(F)
    BY <2>3 DEF Ids
  <2>6. Parent(G, x) = p
    BY <1>2, <2>2, <2>3, <2>4, <2>5, ParentFacts
  <2>7. ASSUME NEW z \in Ids(F), z # x PROVE Parent(G, z) = Parent(F, z)
    BY <2>3, <2>4, <2>5, <2>7, SameParent
  <2>8. ASSUME WellMounted(F), Ty[x] # "Root", IsScriptNode(Ty[p]) => Children(F, p) = {}
        PROVE  WellMounted(G)
    <3> SUFFICES ASSUME NEW y \in DOMAIN G.kids, y # Top
                 PROVE  /\ IsScriptNode(Ty[y]) => Len(G.kids[y]) <= 1
                        /\ \A z \in Children(G, y) : Ty[z] # "Root"
      BY DEF WellMounted
    <3>1. F.kids[y] \in Seq(Ids(F)) /\ G.kids[y] \in Seq(Ids(G))
      BY <2>3, <2>4 DEF IsForest
    <3>2. IsScriptNode(Ty[y]) => Len(G.kids[y]) <= 1
      <4>1. CASE y = p
        <5>1. IsScriptNode(Ty[p]) => Len(F.kids[p]) = 0
          <6> DEFINE s == F.kids[p]
          <6>1. s \in Seq(Ids(F)) /\ (IsScriptNode(Ty[p]) => Elements(s) = {})
            BY <3>1, <4>1, <2>8 DEF Children
          <6> HIDE DEF s
          <6>2. ASSUME Elements(s) = {} PROVE Len(s) = 0
            <7>1. \A k \in DOMAIN s : s[k] \in Elements(s)
              BY DEF Elements
            <7>2. 1 \notin DOMAIN s
              BY <6>2, <7>1
            <7> QED BY <6>1, <7>2
          <6> QED BY <6>1, <6>2 DEF s
        <5>2. Len(G.kids[y]) \in Nat /\ Len(F.kids[p]) \in Nat /\ Len(G.kids[y]) <= Len(F.kids[p]) + 1
          <6>1. Len(G.kids[y]) <= Len(F.kids[p]) + 1
            BY <2>2, <2>3, <4>1
          <6> QED BY <3>1, <4>1, <6>1
        <5> QED BY <4>1, <5>1, <5>2
      <4>2. CASE y # p
        <5>1. Len(G.kids[y]) \in Nat /\ Len(F.kids[y]) \in Nat /\ Len(G.kids[y]) <= Len(F.kids[y])
          <6>1. Len(G.kids[y]) <= Len(F.kids[y])
            BY <2>3, <4>2
          <6> QED BY <3>1, <6>1
        <5>2. IsScriptNode(Ty[y]) => Len(F.kids[y]) <= 1
          BY <2>3, <2>8 DEF WellMounted
        <5> QED BY <5>1, <5>2
      <4> QED BY <4>1, <4>2
    <3>3. \A z \in Children(G, y) : Ty[z] # "Root"
      BY <2>3, <2>8 DEF WellMounted
    <3> QED BY <3>2, <3>3
  <2> QED BY <2>1, <2>2, <2>5, <2>6, <2>7, <2>8
<1>3. CASE ~(x \in Ids(F) /\ p \in Ids(rest))
  <2>1. link(F, p, x) = rest
    BY <1>3 DEF link
  <2>2. WellMounted(F) => WellMounted(rest)
    BY <1>1, CutFacts, ShrunkMounted
  <2> QED BY <2>1, <2>2, CutParents
<1> QED BY <1>2, <1>3

\* Every reducer but add and link leaves the nodes as well mounted as they are.
LEMMA EditsMounted ==
  ASSUME NEW F, IsForest(F), WellMounted(F), NEW x
  PROVE  /\ WellMounted(rmv(F, x)) /\ WellMounted(unlink(F, x))
         /\ \A fields, up : WellMounted(update(F, x, fields, up))
<1>1. WellMounted(rmv(F, x))
  BY CutForest, CutFacts, ShrunkMounted DEF rmv
<1>2. WellMounted(unlink(F, x))
  <2>1. CASE x \notin Ids(F)
    BY <2>1 DEF unlink
  <2>2. CASE x \in Ids(F)
    <3> DEFINE G == Moved(F, x, Top)
    <3>1. Top \in DOMAIN F.kids /\ unlink(F, x) = G
      BY <2>2 DEF unlink, IsForest
    <3>2. /\ DOMAIN G.kids = DOMAIN F.kids
          /\ \A y \in DOMAIN F.kids :
               /\ Children(G, y) = (Children(F, y) \ {x}) \cup (IF y = Top THEN {x} ELSE {})
               /\ Len(G.kids[y]) <= IF y = Top THEN Len(F.kids[y]) + 1 ELSE Len(F.kids[y])
      BY <2>2, <3>1, MovedFacts
    <3>3. IsForest(G)
      BY <3>1, UnlinkForest
    <3> HIDE DEF G
    <3>4. ASSUME NEW y \in DOMAIN G.kids, y # Top
          PROVE  /\ IsScriptNode(Ty[y]) => Len(G.kids[y]) <= 1
                 /\ \A z \in Children(G, y) : Ty[z] # "Root"
      <4>1. F.kids[y] \in Seq(Ids(F)) /\ G.kids[y] \in Seq(Ids(G))
        BY <3>2, <3>3, <3>4 DEF IsForest
      <4>2. Len(G.kids[y]) \in Nat /\ Len(F.kids[y]) \in Nat /\ Len(G.kids[y]) <= Len(F.kids[y])
        <5>1. Len(G.kids[y]) <= Len(F.kids[y])
          BY <3>2, <3>4
        <5> QED BY <4>1, <5>1
      <4>3. IsScriptNode(Ty[y]) => Len(F.kids[y]) <= 1
        BY <3>2, <3>4 DEF WellMounted
      <4>4. \A z \in Children(G, y) : Ty[z] # "Root"
        BY <3>2, <3>4 DEF WellMounted
      <4> QED BY <4>2, <4>3, <4>4
    <3> QED BY <3>1, <3>4 DEF WellMounted
  <2> QED BY <2>1, <2>2
<1>3. ASSUME NEW fields, NEW up PROVE WellMounted(update(F, x, fields, up))
  <2>1. update(F, x, fields, up).kids = F.kids
    BY DEF update
  <2> QED BY <2>1 DEF WellMounted, Children
<1> QED BY <1>1, <1>2, <1>3

-----------------------------------------------------------------------------
(* Files. *)

\* What a save sends is the whole tree below a Root.
LEMMA SubtreeFile ==
  ASSUME NEW F, NEW r, Fine(F, r), NEW x \in Roots(F)
  PROVE  TreeFile(Subtree(F, x)) /\ (WellMounted(F) => WellMounted(Subtree(F, x)))
<1> DEFINE B == Below(F, x)
           G == Subtree(F, x)
<1>0. IsForest(F) /\ Only(F, r)
  BY DEF Fine
<1>1. x \in Ids(F) /\ Ty[x] = "Root" /\ x \in Children(F, Top) /\ Top \in DOMAIN F.kids
  BY <1>0 DEF Roots, IsForest, Children, Elements, Ids
<1>2. /\ x \in B /\ B \subseteq Ids(F) /\ Closed(F, B) /\ Top \notin B
      /\ \A y \in DOMAIN F.kids \ B : Children(F, y) \cap B \subseteq {x}
  BY <1>0, <1>1, BelowFacts DEF Ids
<1>3. /\ DOMAIN G.kids = B \cup {Top} /\ DOMAIN G.info = B
      /\ G.kids[Top] = <<x>> /\ \A y \in B : G.kids[y] = F.kids[y]
  BY <1>1, <1>2 DEF Subtree, Keep, Ids
<1>4. \A S \in SUBSET DOMAIN F.kids : x \in S /\ Closed(F, S) => B \subseteq S
  BY DEF Below
<1> HIDE DEF G, B
<1>5. Ids(G) = B
  BY <1>2, <1>3 DEF Ids
<1>6. Children(G, Top) = {x} /\ \A y \in B : Children(G, y) = Children(F, y)
  BY <1>3 DEF Children, Elements
<1>7. \A y \in DOMAIN G.kids : G.kids[y] \in Seq(Ids(G))
  <2>1. <<x>> \in Seq(B)
    BY <1>2
  <2>2. ASSUME NEW y \in B PROVE F.kids[y] \in Seq(B)
    <3> DEFINE s == F.kids[y]
    <3>1. s \in Seq(Ids(F)) /\ Elements(s) \subseteq B
      BY <1>0, <1>2 DEF IsForest, Closed, Children, Ids
    <3> HIDE DEF s
    <3>2. s \in Seq(B)
      BY <3>1 DEF Elements
    <3> QED BY <3>2 DEF s
  <2> QED BY <1>3, <1>5, <2>1, <2>2
<1>8. \A y \in DOMAIN G.kids : \A i, j \in DOMAIN G.kids[y] : G.kids[y][i] = G.kids[y][j] => i = j
  <2>1. \A y \in B : \A i, j \in DOMAIN G.kids[y] : G.kids[y][i] = G.kids[y][j] => i = j
    BY <1>0, <1>2, <1>3 DEF IsForest, Ids
  <2>2. \A i, j \in DOMAIN G.kids[Top] : G.kids[Top][i] = G.kids[Top][j] => i = j
    BY <1>3
  <2> QED BY <1>3, <2>1, <2>2
<1>9. \A y, z \in DOMAIN G.kids : y # z => Children(G, y) \cap Children(G, z) = {}
  <2>1. \A y \in B : x \notin Children(F, y)
    BY <1>0, <1>1, <1>2 DEF IsForest, Ids
  <2>2. \A y, z \in B : y # z => Children(F, y) \cap Children(F, z) = {}
    BY <1>0, <1>2 DEF IsForest, Ids
  <2> QED BY <1>3, <1>6, <2>1, <2>2
<1>10. ASSUME NEW S \in SUBSET DOMAIN G.kids, Top \in S, Closed(G, S) PROVE S = DOMAIN G.kids
  <2>1. x \in S \cap B
    BY <1>2, <1>3, <1>6, <1>10 DEF Closed
  <2>2. Closed(F, S \cap B) /\ S \cap B \in SUBSET DOMAIN F.kids
    BY <1>2, <1>6, <1>10 DEF Closed, Ids
  <2>3. B \subseteq S
    BY <1>4, <2>1, <2>2
  <2> QED BY <1>3, <1>10, <2>3
<1>11. IsForest(G)
  <2>1. Ids(G) \subseteq Id /\ DOMAIN G.info = Ids(G) /\ Top \in DOMAIN G.kids
    BY <1>0, <1>2, <1>3, <1>5 DEF IsForest
  <2> QED BY <2>1, <1>7, <1>8, <1>9, <1>10 DEF IsForest
<1>12. Only(G, x)
  BY <1>0, <1>1, <1>2, <1>5 DEF Only
<1>13. ASSUME WellMounted(F) PROVE WellMounted(G)
  BY <1>2, <1>3, <1>6, <1>13 DEF WellMounted, Ids
<1> QED BY <1>1, <1>2, <1>3, <1>5, <1>11, <1>12, <1>13 DEF TreeFile, G

\* Loading keeps of a file the Root with its last child, and what is below that.
LEMMA LoadedFile ==
  ASSUME NEW F, TreeFile(F)
  PROVE  TreeFile(LoadBehaviorWithFile(F)) /\ (WellMounted(F) => WellMounted(LoadBehaviorWithFile(F)))
<1>0. IsForest(F)
  BY DEF TreeFile
<1>1. PICK r \in Ids(F) : F.kids[Top] = <<r>> /\ Ty[r] = "Root" /\ Only(F, r)
  BY DEF TreeFile
<1> DEFINE own  == F.kids[r]
           last == IF own = <<>> THEN <<>> ELSE <<own[Len(own)]>>
           L    == UNION {Below(F, x) : x \in Elements(last)}
           G    == LoadBehaviorWithFile(F)
<1>2. /\ r \in DOMAIN F.kids /\ r # Top /\ Top \in DOMAIN F.kids /\ F.kids[Top][1] = r
      /\ Children(F, Top) = {r}
  BY <1>0, <1>1 DEF Ids, IsForest, Children, Elements
<1>3. own \in Seq(Ids(F))
  BY <1>0, <1>2 DEF IsForest
<1>4. /\ last \in Seq(Ids(F)) /\ Elements(last) \subseteq Children(F, r) /\ Len(last) <= Len(own)
      /\ \A i, j \in DOMAIN last : i = j
  <2>1. CASE own = <<>>
    <3>1. last = <<>> /\ Len(last) = 0 /\ Len(own) = 0 /\ DOMAIN last = {}
      BY <2>1
    <3> QED BY <3>1 DEF Elements
  <2>2. CASE own # <<>>
    <3>1. Len(own) \in DOMAIN own /\ own[Len(own)] \in Ids(F) /\ Len(own) >= 1
      BY <1>3, <2>2
    <3>2. last = <<own[Len(own)]>>
      BY <2>2
    <3> DEFINE e == own[Len(own)]
    <3>3. e \in Children(F, r) /\ e \in Ids(F)
      BY <3>1 DEF Children, Elements
    <3> HIDE DEF e
    <3>4. <<e>> \in Seq(Ids(F)) /\ Elements(<<e>>) = {e} /\ Len(<<e>>) = 1 /\ \A i, j \in DOMAIN <<e>> : i = j
      BY <3>3 DEF Elements
    <3> QED BY <3>1, <3>2, <3>3, <3>4 DEF e
  <2> QED BY <2>1, <2>2
<1> HIDE DEF own, last
<1>5. /\ L \subseteq Ids(F) /\ Elements(last) \subseteq L /\ Closed(F, L)
  <2>1. \A x \in Elements(last) : x \in Ids(F)
    BY <1>4 DEF Elements
  <2>2. \A x \in Elements(last) : x \in Below(F, x) /\ Below(F, x) \subseteq Ids(F) /\ Closed(F, Below(F, x))
    BY <1>0, <2>1, BelowFacts
  <2> QED BY <2>2 DEF Closed
<1>6. ASSUME NEW S \in SUBSET DOMAIN F.kids, Elements(last) \subseteq S, Closed(F, S) PROVE L \subseteq S
  BY <1>6 DEF Below
<1>7. r \notin L
  <2>1. r \notin Children(F, r)
    BY <1>0, <1>2 DEF IsForest
  <2> DEFINE S == DOMAIN F.kids \ {r, Top}
  <2>2. Closed(F, S) /\ S \in SUBSET DOMAIN F.kids
    <3>1. \A y \in S : r \notin Children(F, y)
      BY <1>0, <1>2 DEF IsForest
    <3>2. \A y \in S : Children(F, y) \subseteq Ids(F)
      BY <1>0 DEF IsForest, Children, Elements
    <3> QED BY <3>1, <3>2 DEF Closed, Ids
  <2>3. Elements(last) \subseteq S
    BY <1>4, <2>1 DEF Ids, Elements
  <2> QED BY <1>6, <2>2, <2>3
<1> DEFINE B == {r} \cup L
<1>8. /\ DOMAIN G.kids = B \cup {Top} /\ DOMAIN G.info = B
      /\ G.kids[Top] = <<r>> /\ G.kids[r] = last /\ \A y \in L : G.kids[y] = F.kids[y]
  <2> DEFINE K == [F.kids EXCEPT ![r] = last]
             T == Keep(F, B, K)
  <2>1. G = [T EXCEPT !.info = [x \in DOMAIN @ |-> Parsed(x, @[x])]]
    BY <1>2 DEF LoadBehaviorWithFile, own, last
  <2>2. /\ K[Top] = <<r>> /\ K[r] = last /\ \A y \in L : K[y] = F.kids[y]
    BY <1>1, <1>2, <1>5, <1>7 DEF Ids
  <2> HIDE DEF K, B
  <2>3. T = [kids |-> [y \in B \cup {Top} |-> K[y]], info |-> [y \in B |-> F.info[y]]]
    BY DEF Keep
  <2>4. G.kids = [y \in B \cup {Top} |-> K[y]] /\ DOMAIN G.info = B
    BY <2>1, <2>3
  <2>5. DOMAIN G.kids = B \cup {Top} /\ \A y \in B \cup {Top} : G.kids[y] = K[y]
    BY <2>4
  <2> QED BY <2>2, <2>4, <2>5 DEF B
<1> HIDE DEF L, G
<1>9. Ids(G) = B
  BY <1>2, <1>5, <1>8 DEF Ids
<1>10. /\ Children(G, Top) = {r} /\ Children(G, r) = Elements(last)
       /\ \A y \in L : Children(G, y) = Children(F, y)
  BY <1>8 DEF Children, Elements
<1>11. Shrinks(G, F)
  <2>1. \A y \in DOMAIN F.kids : Len(F.kids[y]) \in Nat
    BY <1>0 DEF IsForest
  <2> QED BY <1>1, <1>2, <1>4, <1>5, <1>8, <1>10, <2>1 DEF Shrinks, Ids, own
<1>12. \A y \in DOMAIN G.kids : G.kids[y] \in Seq(Ids(G))
  <2>1. <<r>> \in Seq(B)
    OBVIOUS
  <2>2. last \in Seq(B)
    <3>1. \A k \in DOMAIN last : last[k] \in B
      BY <1>5 DEF Elements
    <3> HIDE DEF B
    <3> QED BY <1>4, <3>1
  <2>3. ASSUME NEW y \in L PROVE F.kids[y] \in Seq(B)
    <3> DEFINE s == F.kids[y]
    <3>1. s \in Seq(Ids(F)) /\ Elements(s) \subseteq L
      BY <1>0, <1>5 DEF IsForest, Closed, Children, Ids
    <3> HIDE DEF s, B
    <3>2. \A k \in DOMAIN s : s[k] \in B
      BY <3>1 DEF Elements, B
    <3> QED BY <3>1, <3>2 DEF s
  <2> QED BY <1>8, <1>9, <2>1, <2>2, <2>3
<1>13. \A y \in DOMAIN G.kids : \A i, j \in DOMAIN G.kids[y] : G.kids[y][i] = G.kids[y][j] => i = j
  <2>1. \A y \in L : \A i, j \in DOMAIN G.kids[y] : G.kids[y][i] = G.kids[y][j] => i = j
    BY <1>0, <1>5, <1>8 DEF IsForest, Ids
  <2>2. \A i, j \in DOMAIN G.kids[Top] : i = j
    BY <1>8
  <2> QED BY <1>4, <1>8, <2>1, <2>2
<1>14. \A y, z \in DOMAIN G.kids : y # z => Children(G, y) \cap Children(G, z) = {}
  BY <1>0, <1>11 DEF Shrinks, IsForest
<1>15. ASSUME NEW S \in SUBSET DOMAIN G.kids, Top \in S, Closed(G, S) PROVE S = DOMAIN G.kids
  <2>1. r \in S
    BY <1>10, <1>15 DEF Closed
  <2>2. Elements(last) \subseteq S \cap L
    BY <1>5, <1>10, <1>15, <2>1 DEF Closed
  <2>3. Closed(F, S \cap L) /\ S \cap L \in SUBSET DOMAIN F.kids
    BY <1>5, <1>10, <1>15 DEF Closed, Ids
  <2>4. L \subseteq S
    BY <1>6, <2>2, <2>3
  <2> QED BY <1>8, <1>15, <2>1, <2>4
<1>16. IsForest(G)
  <2>1. Ids(G) \subseteq Id /\ DOMAIN G.info = Ids(G) /\ Top \in DOMAIN G.kids
    BY <1>0, <1>1, <1>5, <1>8, <1>9 DEF IsForest
  <2> QED BY <2>1, <1>12, <1>13, <1>14, <1>15 DEF IsForest
<1>17. Only(G, r) /\ r \in Ids(G)
  BY <1>1, <1>5, <1>9 DEF Only
<1>18. WellMounted(F) => WellMounted(G)
  BY <1>0, <1>11, <1>16, ShrunkMounted
<1> QED BY <1>1, <1>8, <1>16, <1>17, <1>18 DEF TreeFile, G

\* A Root alone is a tree.
LEMMA SingleFile ==
  ASSUME NEW r \in Id, Ty[r] = "Root", NEW info
  PROVE  TreeFile(Single(r, info)) /\ WellMounted(Single(r, info)) /\ Single(r, info).kids[Top][1] = r
<1> DEFINE G == Single(r, info)
<1>0. r # Top
  BY TreeAssumption
<1>1. /\ DOMAIN G.kids = {Top, r} /\ G.kids[Top] = <<r>> /\ G.kids[r] = <<>> /\ DOMAIN G.info = {r}
  BY <1>0 DEF Single
<1> HIDE DEF G
<1>2. Ids(G) = {r} /\ Children(G, Top) = {r} /\ Children(G, r) = {}
  BY <1>0, <1>1 DEF Ids, Children, Elements
<1>3. <<r>> \in Seq({r}) /\ <<>> \in Seq({r}) /\ DOMAIN <<r>> = {1} /\ Len(<<>>) = 0
  OBVIOUS
<1>4. IsForest(G)
  <2>1. \A y \in DOMAIN G.kids : G.kids[y] \in Seq(Ids(G))
    BY <1>1, <1>2, <1>3
  <2>2. \A y \in DOMAIN G.kids : \A i, j \in DOMAIN G.kids[y] : G.kids[y][i] = G.kids[y][j] => i = j
    BY <1>1, <1>3
  <2>3. \A y, z \in DOMAIN G.kids : y # z => Children(G, y) \cap Children(G, z) = {}
    BY <1>1, <1>2
  <2>4. \A S \in SUBSET DOMAIN G.kids : Top \in S /\ Closed(G, S) => S = DOMAIN G.kids
    BY <1>1, <1>2 DEF Closed
  <2> QED BY <1>1, <1>2, <2>1, <2>2, <2>3, <2>4 DEF IsForest
<1>5. WellMounted(G)
  BY <1>1, <1>2, <1>3 DEF WellMounted
<1> QED BY <1>1, <1>2, <1>4, <1>5 DEF TreeFile, Only, G

\* The drawing of a forest.
LEMMA DrawFacts ==
  ASSUME NEW F, IsForest(F)
  PROVE  CanvasOK(Draw(F)) /\ Agrees(F, Draw(F)) /\ Draw(F).cells = Ids(F)
<1>1. Ids(F) \subseteq Id
  BY DEF IsForest
<1>2. Order(F) \subseteq Ids(F) \X Ids(F)
  BY DEF Order
<1> QED BY <1>1, <1>2 DEF Draw, CanvasOK, Agrees

-----------------------------------------------------------------------------
(* The reducers, on slices. *)

VersionsOf(st) == {st.nodes} \cup Elements(st.history)
Mounted(st) == \A F \in VersionsOf(st) : WellMounted(F)

SliceOK(st) ==
  /\ Good(st) /\ st.updatetick \in BOOLEAN /\ st.rootid \in Id \cup {NoId}
  /\ st.currentTreeName \in Name \cup {NoName} /\ st.currentClickNode \in Id \cup {NoId}

\* new has the name and the click of st, n versions more at most, and these well mounted.
Follows(new, st, n) ==
  /\ SliceOK(new) /\ Len(new.history) <= Len(st.history) + n
  /\ new.currentTreeName = st.currentTreeName /\ new.currentClickNode = st.currentClickNode
  /\ Mounted(st) => Mounted(new)

\* What an edit leaves of the slice.
LEMMA EditIs ==
  ASSUME NEW st, SliceOK(st), NEW F
  PROVE  /\ Edit(st, F).nodes = F /\ Edit(st, F).rootid = st.rootid
         /\ Edit(st, F).updatetick = st.updatetick
         /\ Edit(st, F).currentTreeName = st.currentTreeName
         /\ Edit(st, F).currentClickNode = st.currentClickNode
         /\ Len(Edit(st, F).history) = Len(st.history) + 1
         /\ VersionsOf(Edit(st, F)) = VersionsOf(st) \cup {F}
         /\ IsSlice(Edit(st, F))
<1> DEFINE new == Edit(st, F)
           h == st.history
<1>1. IsSlice(st) /\ h \in Seq(Elements(h))
  BY DEF SliceOK, Good
<1>2. new = [nodes |-> F, history |-> Append(h, st.nodes), rootid |-> st.rootid,
             currentTreeName |-> st.currentTreeName, currentClickNode |-> st.currentClickNode,
             updatetick |-> st.updatetick]
  <2>1. new = [[st EXCEPT !.nodes = F] EXCEPT !.history = Append(st.history, st.nodes)]
    BY <1>1 DEF Edit, IsSlice
  <2> QED BY <2>1, <1>1 DEF IsSlice
<1> HIDE DEF new, h
<1>3. Len(Append(h, st.nodes)) = Len(h) + 1 /\ Elements(Append(h, st.nodes)) = Elements(h) \cup {st.nodes}
  <2> DEFINE A == Elements(h)
             x == st.nodes
  <2>1. h \in Seq(A)
    BY <1>1
  <2> HIDE DEF A, x
  <2>2. Elements(Append(h, x)) = Elements(h) \cup {x}
    BY <2>1, AppendAdds
  <2>3. Len(Append(h, x)) = Len(h) + 1
    BY <2>1
  <2> QED BY <2>2, <2>3 DEF x
<1>4. IsSlice(new)
  BY <1>2 DEF IsSlice
<1> QED BY <1>2, <1>3, <1>4 DEF VersionsOf, new, h

\* An edit that keeps the forest and its mounting.
LEMMA EditFollows ==
  ASSUME NEW st, SliceOK(st), NEW F, Fine(F, st.rootid)
  PROVE  SliceOK(Edit(st, F)) /\ ((Mounted(st) => WellMounted(F)) => Follows(Edit(st, F), st, 1))
<1>1. SliceOK(Edit(st, F))
  BY EditGood, EditIs DEF SliceOK
<1>2. Len(st.history) \in Nat
  BY DEF SliceOK, Good
<1> QED BY <1>1, <1>2, EditIs DEF Follows, Mounted

\* The nodes of a slice are a forest, as well mounted as all its versions.
LEMMA NodesFine ==
  ASSUME NEW st, SliceOK(st)
  PROVE  /\ IsForest(st.nodes) /\ Only(st.nodes, st.rootid) /\ Ids(st.nodes) \subseteq Id
         /\ Mounted(st) => WellMounted(st.nodes)
         /\ Len(st.history) \in Nat
BY DEF SliceOK, Good, Fine, Mounted, VersionsOf, IsForest

\* A node dropped.
LEMMA AddFollows ==
  ASSUME NEW st, SliceOK(st), NEW x \in Id \ Ids(st.nodes), Ty[x] # "Root", NEW info
  PROVE  Follows(nodeAdd(st, x, info), st, 1)
<1>1. Fine(add(st.nodes, x, info), st.rootid)
  BY NodesFine, AddForest DEF Fine, Only
<1> QED BY <1>1, NodesFine, AddFacts, EditFollows DEF nodeAdd

\* A node linked, where it may be mounted.
LEMMA LinkFollows ==
  ASSUME NEW st, SliceOK(st), NEW p, NEW x
  PROVE  /\ SliceOK(nodeLink(st, p, x))
         /\ Ty[x] # "Root" /\ (p \in Ids(st.nodes) /\ IsScriptNode(Ty[p]) => Children(st.nodes, p) = {})
              => Follows(nodeLink(st, p, x), st, 1)
<1>1. Fine(link(st.nodes, p, x), st.rootid)
  BY NodesFine, LinkForest DEF Fine, Only
<1> QED BY <1>1, NodesFine, LinkFacts, EditFollows DEF nodeLink

\* Nodes removed, unlinked or updated.
LEMMA OtherFollows ==
  ASSUME NEW st, SliceOK(st), NEW x
  PROVE  /\ Follows(nodeRmv(st, x), st, 1) /\ Follows(nodeUnlink(st, x), st, 1)
         /\ \A fields, up : Follows(nodeUpdate(st, x, fields, up), st, 1)
<1>1. Fine(rmv(st.nodes, x), st.rootid) /\ Fine(unlink(st.nodes, x), st.rootid)
  BY NodesFine, CutForest, UnlinkForest DEF Fine, Only, rmv
<1>2. ASSUME NEW fields, NEW up PROVE Fine(update(st.nodes, x, fields, up), st.rootid)
  BY NodesFine, UpdateForest DEF Fine, Only
<1> QED BY <1>1, <1>2, NodesFine, EditsMounted, EditFollows DEF nodeRmv, nodeUnlink, nodeUpdate

\* The fields no forest depends on.
LEMMA TickFollows ==
  ASSUME NEW st, SliceOK(st), NEW tick \in BOOLEAN, NEW new, new = [st EXCEPT !.updatetick = tick]
  PROVE  Follows(new, st, 0) /\ new.nodes = st.nodes /\ new.updatetick = tick
<1>1. IsSlice(st) /\ Good(st) /\ Len(st.history) \in Nat
  BY NodesFine DEF SliceOK, Good
<1>2. Good(new)
  BY <1>1, OtherGood
<1>3. /\ new.nodes = st.nodes /\ new.history = st.history /\ new.rootid = st.rootid
      /\ new.currentTreeName = st.currentTreeName /\ new.currentClickNode = st.currentClickNode
      /\ new.updatetick = tick
  BY <1>1 DEF IsSlice
<1> QED BY <1>1, <1>2, <1>3 DEF Follows, SliceOK, Mounted, VersionsOf

\* The node clicked.
LEMMA ClickFollows ==
  ASSUME NEW st, SliceOK(st), NEW x \in Id \cup {NoId}, NEW new, new = [st EXCEPT !.currentClickNode = x]
  PROVE  /\ SliceOK(new) /\ new.nodes = st.nodes /\ new.history = st.history
         /\ new.updatetick = st.updatetick /\ new.currentTreeName = st.currentTreeName
<1>1. IsSlice(st) /\ Good(st)
  BY DEF SliceOK, Good
<1>2. Good(new)
  BY <1>1, OtherGood
<1>3. /\ new.nodes = st.nodes /\ new.history = st.history /\ new.rootid = st.rootid
      /\ new.currentTreeName = st.currentTreeName /\ new.currentClickNode = x
      /\ new.updatetick = st.updatetick
  BY <1>1 DEF IsSlice
<1> QED BY <1>2, <1>3 DEF SliceOK

\* The name of the tree.
LEMMA NameFollows ==
  ASSUME NEW st, SliceOK(st), NEW name \in Name \cup {NoName},
         NEW new, new = [st EXCEPT !.currentTreeName = name]
  PROVE  /\ SliceOK(new) /\ new.nodes = st.nodes /\ new.history = st.history
         /\ new.updatetick = st.updatetick /\ new.currentTreeName = name
<1>1. IsSlice(st) /\ Good(st)
  BY DEF SliceOK, Good
<1>2. Good(new)
  BY <1>1, OtherGood
<1>3. /\ new.nodes = st.nodes /\ new.history = st.history /\ new.rootid = st.rootid
      /\ new.currentTreeName = name /\ new.currentClickNode = st.currentClickNode
      /\ new.updatetick = st.updatetick
  BY <1>1 DEF IsSlice
<1> QED BY <1>2, <1>3 DEF SliceOK

\* An undo.
LEMMA UndoFollows ==
  ASSUME NEW st, SliceOK(st), st.history # <<>>
  PROVE  Follows(nodeUndo(st), st, 0) /\ nodeUndo(st).updatetick
<1> DEFINE new == nodeUndo(st)
           h == st.history
           rest == SubSeq(h, 1, Len(h) - 1)
<1>1. IsSlice(st) /\ Good(new) /\ h \in Seq(Elements(h))
  BY UndoGood DEF SliceOK, Good
<1>2. new = [nodes |-> h[Len(h)], history |-> rest, rootid |-> st.rootid,
             currentTreeName |-> st.currentTreeName,
             currentClickNode |-> st.currentClickNode, updatetick |-> TRUE]
  BY <1>1 DEF nodeUndo, IsSlice
<1> HIDE DEF new
<1>3. Len(h) \in Nat /\ Len(h) > 0 /\ DOMAIN h = 1..Len(h)
  BY <1>1
<1>4. /\ Len(rest) = Len(h) - 1 /\ DOMAIN rest = 1..(Len(h) - 1)
      /\ \A k \in DOMAIN rest : rest[k] = h[k] /\ k \in DOMAIN h
  BY <1>1, <1>3
<1> HIDE DEF rest
<1>5. Elements(rest) \subseteq Elements(h) /\ h[Len(h)] \in Elements(h)
  BY <1>3, <1>4 DEF Elements
<1>6. VersionsOf(new) \subseteq VersionsOf(st)
  BY <1>2, <1>5 DEF VersionsOf
<1>7. /\ new.currentTreeName = st.currentTreeName /\ new.currentClickNode = st.currentClickNode
      /\ new.rootid = st.rootid /\ new.updatetick = TRUE /\ Len(new.history) <= Len(h) + 0
  BY <1>2, <1>3, <1>4
<1>8. Good(new)
  BY <1>1 DEF new
<1>9. SliceOK(new)
  BY <1>7, <1>8 DEF SliceOK
<1>10. Mounted(st) => Mounted(new)
  BY <1>6 DEF Mounted
<1>11. Follows(new, st, 0) /\ new.updatetick
  BY <1>7, <1>9, <1>10 DEF Follows
<1> QED BY <1>11 DEF new

\* Everything is cleaned away.
LEMMA CleanFollows ==
  ASSUME NEW st, SliceOK(st)
  PROVE  /\ SliceOK(cleanTree(st)) /\ cleanTree(st).history = <<>> /\ cleanTree(st).updatetick
         /\ cleanTree(st).currentTreeName = NoName /\ Mounted(cleanTree(st))
<1> DEFINE new == cleanTree(st)
<1>1. IsSlice(st) /\ Good(new)
  BY CleanGood DEF SliceOK, Good
<1>2. new = [nodes |-> Empty, history |-> <<>>, rootid |-> NoId, currentTreeName |-> NoName,
             currentClickNode |-> st.currentClickNode, updatetick |-> TRUE]
  <2>1. cleanTree(st) = [[[[[st EXCEPT !.currentTreeName = NoName] EXCEPT !.rootid = NoId]
                          EXCEPT !.history = <<>>] EXCEPT !.nodes = Empty] EXCEPT !.updatetick = TRUE]
    BY <1>1 DEF cleanTree, IsSlice
  <2> QED BY <2>1, <1>1 DEF IsSlice
<1> HIDE DEF new
<1>3. WellMounted(Empty)
  BY DEF WellMounted, Empty
<1>4. VersionsOf(new) = {Empty}
  BY <1>2 DEF VersionsOf, Elements
<1>5. /\ new.history = <<>> /\ new.updatetick = TRUE /\ new.currentTreeName = NoName
      /\ new.rootid = NoId /\ new.currentClickNode = st.currentClickNode
  BY <1>2
<1>6. Good(new)
  BY <1>1 DEF new
<1>7. SliceOK(new)
  BY <1>5, <1>6 DEF SliceOK
<1>8. Mounted(new)
  BY <1>3, <1>4 DEF Mounted
<1>9. SliceOK(new) /\ new.history = <<>> /\ new.updatetick /\ new.currentTreeName = NoName /\ Mounted(new)
  BY <1>5, <1>7, <1>8
<1> QED BY <1>9 DEF new

\* A tree is loaded.
LEMMA InitFollows ==
  ASSUME NEW st, IsSlice(st), st.currentClickNode \in Id \cup {NoId}, st.updatetick \in BOOLEAN,
         NEW T, TreeFile(T)
  PROVE  /\ SliceOK(initTree(st, T)) /\ initTree(st, T).history = <<>> /\ initTree(st, T).nodes = T
         /\ initTree(st, T).currentTreeName = NoName /\ initTree(st, T).updatetick = st.updatetick
         /\ initTree(st, T).currentClickNode = st.currentClickNode
         /\ WellMounted(T) => Mounted(initTree(st, T))
<1> DEFINE new == initTree(st, T)
<1>1. PICK r \in Ids(T) : T.kids[Top] = <<r>> /\ Ty[r] = "Root" /\ Only(T, r)
  BY DEF TreeFile
<1>2. T.kids[Top][1] = r /\ r \in Id /\ IsForest(T)
  BY <1>1 DEF TreeFile, IsForest
<1>3. /\ Good(new)
      /\ new = [nodes |-> T, history |-> <<>>, rootid |-> r, currentTreeName |-> NoName,
                currentClickNode |-> st.currentClickNode, updatetick |-> st.updatetick]
  BY <1>1, <1>2, InitTreeGood
<1> HIDE DEF new
<1>4. VersionsOf(new) = {T}
  BY <1>3 DEF VersionsOf, Elements
<1> QED BY <1>2, <1>3, <1>4 DEF SliceOK, Mounted, new

\* A set written as a sequence has as many places as elements.
LEMMA SetSequence ==
  ASSUME NEW S, IsFiniteSet(S)
  PROVE  /\ SetToSeq(S) \in Seq(S) /\ Len(SetToSeq(S)) = Cardinality(S) /\ Cardinality(S) \in Nat
<1>1. Cardinality(S) \in Nat /\ \E f \in [1..Cardinality(S) -> S] : IsInjective(f)
  BY FS_CardinalityType DEF ExistsBijection, Bijection, Injection, IsInjective
<1>2. SetToSeq(S) \in [1..Cardinality(S) -> S]
  BY <1>1 DEF SetToSeq
<1> QED BY <1>1, <1>2

\* An update of other fields leaves every node where it is.
LEMMA SameKids ==
  ASSUME NEW F, NEW r, Fine(F, r), NEW G, G.kids = F.kids, DOMAIN G.info = DOMAIN F.info
  PROVE  /\ Fine(G, r) /\ Ids(G) = Ids(F) /\ (WellMounted(F) => WellMounted(G))
         /\ \A x \in Ids(F) : Parent(G, x) = Parent(F, x)
<1>1. Ids(G) = Ids(F) /\ (\A y : Children(G, y) = Children(F, y)) /\ \A S : Closed(G, S) <=> Closed(F, S)
  BY DEF Ids, Children, Closed
<1>2. IsForest(F) /\ IsForest(G)
  BY <1>1 DEF Fine, IsForest
<1>3. Fine(G, r)
  BY <1>1, <1>2 DEF Fine, Only
<1>4. WellMounted(F) => WellMounted(G)
  BY <1>1 DEF WellMounted
<1>5. \A x \in Ids(F) : Parent(G, x) = Parent(F, x)
  BY <1>1, <1>2, SameParent
<1> QED BY <1>1, <1>3, <1>4, <1>5

\* A concatenation holds what its parts hold.
LEMMA ConcatHolds ==
  ASSUME NEW A, NEW s \in Seq(A), NEW B, NEW t \in Seq(B)
  PROVE  /\ s \o t \in Seq(A \cup B) /\ Len(s \o t) = Len(s) + Len(t)
         /\ Elements(s \o t) \subseteq Elements(s) \cup Elements(t)
<1>1. Len(s \o t) = Len(s) + Len(t) /\ DOMAIN (s \o t) = 1..(Len(s) + Len(t))
  OBVIOUS
<1>2. Len(s) \in Nat /\ Len(t) \in Nat /\ DOMAIN s = 1..Len(s) /\ DOMAIN t = 1..Len(t)
  OBVIOUS
<1>3. ASSUME NEW k \in DOMAIN (s \o t) PROVE (s \o t)[k] \in Elements(s) \cup Elements(t)
  <2>1. CASE k <= Len(s)
    <3>1. k \in DOMAIN s /\ (s \o t)[k] = s[k]
      BY <1>1, <1>2, <1>3, <2>1
    <3> QED BY <3>1 DEF Elements
  <2>2. CASE k > Len(s)
    <3>1. k - Len(s) \in DOMAIN t /\ (s \o t)[k] = t[k - Len(s)]
      BY <1>1, <1>2, <1>3, <2>2
    <3> QED BY <3>1 DEF Elements
  <2> QED BY <1>1, <1>2, <2>1, <2>2
<1>4. s \o t \in Seq(A \cup B)
  <2>1. s \in Seq(A \cup B) /\ t \in Seq(A \cup B)
    OBVIOUS
  <2> QED BY <2>1
<1>5. Elements(s \o t) \subseteq Elements(s) \cup Elements(t)
  <2> DEFINE c == s \o t
  <2>1. \A k \in DOMAIN c : c[k] \in Elements(s) \cup Elements(t)
    BY <1>3
  <2> HIDE DEF c
  <2>2. Elements(c) \subseteq Elements(s) \cup Elements(t)
    BY <2>1 DEF Elements
  <2> QED BY <2>2 DEF c
<1> QED BY <1>1, <1>4, <1>5

\* Every cell of a branch moved: the nodes stay where they are in the tree.
LEMMA MoveFollows ==
  ASSUME NEW st, SliceOK(st), NEW S, IsFiniteSet(S), NEW at
  PROVE  LET new == moveAll(st, SetToSeq(S), at)
         IN  /\ Follows(new, st, Cardinality(S)) /\ new.updatetick = st.updatetick
             /\ Ids(new.nodes) = Ids(st.nodes)
             /\ \A x \in Ids(st.nodes) : Parent(new.nodes, x) = Parent(st.nodes, x)
<1> DEFINE s == SetToSeq(S)
           N == st.nodes
           moved(X) == [kids |-> N.kids,
                        info |-> [x \in DOMAIN N.info |->
                          IF x \in X THEN [N.info[x] EXCEPT !.pos = at] ELSE N.info[x]]]
           h == st.history
           g == [i \in DOMAIN s |-> moved({s[j] : j \in 1..(i - 1)})]
           new == moveAll(st, s, at)
           G == moved(Elements(s))
<1>0. /\ IsSlice(st) /\ h \in Seq(Elements(h)) /\ Fine(N, st.rootid)
      /\ \A F \in Elements(h) : Fine(F, st.rootid)
  BY DEF SliceOK, Good
<1>1. s \in Seq(S) /\ Len(s) = Cardinality(S) /\ Cardinality(S) \in Nat
  BY SetSequence
<1>2. new = [nodes |-> G, history |-> h \o g, rootid |-> st.rootid,
             currentTreeName |-> st.currentTreeName, currentClickNode |-> st.currentClickNode,
             updatetick |-> st.updatetick]
  <2>1. new = [[st EXCEPT !.nodes = G] EXCEPT !.history = h \o g]
    BY <1>0 DEF moveAll, IsSlice
  <2> HIDE DEF G, g, new
  <2> QED BY <2>1, <1>0 DEF IsSlice
<1>3. ASSUME NEW X
      PROVE  /\ Fine(moved(X), st.rootid) /\ Ids(moved(X)) = Ids(N)
             /\ WellMounted(N) => WellMounted(moved(X))
             /\ \A x \in Ids(N) : Parent(moved(X), x) = Parent(N, x)
  <2> DEFINE M == moved(X)
  <2>1. M.kids = N.kids /\ DOMAIN M.info = DOMAIN N.info
    OBVIOUS
  <2> HIDE DEF M, N
  <2>2. /\ Fine(M, st.rootid) /\ Ids(M) = Ids(N) /\ (WellMounted(N) => WellMounted(M))
        /\ \A x \in Ids(N) : Parent(M, x) = Parent(N, x)
    BY <2>1, <1>0, SameKids
  <2> QED BY <2>2 DEF M
<1>4. /\ g \in Seq(Elements(g)) /\ Len(g) = Len(s)
      /\ \A F \in Elements(g) : Fine(F, st.rootid) /\ (WellMounted(N) => WellMounted(F))
  <2>1. DOMAIN g = 1..Len(s) /\ Len(s) \in Nat
    BY <1>1
  <2>2. \A i \in DOMAIN g : Fine(g[i], st.rootid) /\ (WellMounted(N) => WellMounted(g[i]))
    <3> TAKE i \in DOMAIN g
    <3> DEFINE X == {s[j] : j \in 1..(i - 1)}
    <3>1. g[i] = moved(X)
      OBVIOUS
    <3> HIDE DEF X, moved, g
    <3> QED BY <3>1, <1>3
  <2>3. g = [i \in 1..Len(s) |-> g[i]]
    BY <2>1
  <2> HIDE DEF g
  <2> QED BY <2>1, <2>2, <2>3 DEF Elements
<1>5. Fine(G, st.rootid) /\ Ids(G) = Ids(N) /\ (WellMounted(N) => WellMounted(G))
      /\ \A x \in Ids(N) : Parent(G, x) = Parent(N, x)
  <2> DEFINE X == Elements(s)
  <2>1. G = moved(X)
    OBVIOUS
  <2> HIDE DEF X, moved, G
  <2> QED BY <2>1, <1>3
<1> HIDE DEF s, moved, g, G, new
<1>6. /\ h \o g \in Seq(Elements(h \o g)) /\ Len(h \o g) = Len(h) + Len(g)
      /\ Elements(h \o g) \subseteq Elements(h) \cup Elements(g)
  <2> DEFINE A == Elements(h)
             B == Elements(g)
             c == h \o g
  <2>1. h \in Seq(A) /\ g \in Seq(B)
    BY <1>0, <1>4
  <2> HIDE DEF A, B
  <2>2. c \in Seq(A \cup B) /\ Len(c) = Len(h) + Len(g) /\ Elements(c) \subseteq Elements(h) \cup Elements(g)
    BY <2>1, ConcatHolds
  <2> HIDE DEF c
  <2>3. c \in Seq(Elements(c))
    BY <2>2, OwnElements
  <2> QED BY <2>2, <2>3 DEF c
<1>7. /\ new.nodes = G /\ new.history = h \o g /\ new.rootid = st.rootid /\ IsSlice(new)
      /\ new.currentTreeName = st.currentTreeName /\ new.currentClickNode = st.currentClickNode
      /\ new.updatetick = st.updatetick
  BY <1>2 DEF IsSlice
<1>8. Good(new)
  BY <1>0, <1>4, <1>5, <1>6, <1>7 DEF Good
<1>9. SliceOK(new)
  BY <1>7, <1>8 DEF SliceOK
<1>10. Mounted(st) => Mounted(new)
  BY <1>4, <1>5, <1>6, <1>7 DEF Mounted, VersionsOf
<1>11. Len(new.history) <= Len(st.history) + Cardinality(S)
  <2>1. Len(h) \in Nat
    BY <1>0
  <2> QED BY <2>1, <1>1, <1>4, <1>6, <1>7
<1>12. Follows(new, st, Cardinality(S))
  BY <1>7, <1>9, <1>10, <1>11 DEF Follows
<1> QED BY <1>5, <1>7, <1>12 DEF new, s

\* A save under a name: the slice keeps its nodes, and what is sent is a tree.
LEMMA SaveFollows ==
  ASSUME NEW st, SliceOK(st), NEW name \in Name \cup {NoName}
  PROVE  /\ SliceOK(nodeSave(st, name)) /\ nodeSave(st, name).nodes = st.nodes
         /\ nodeSave(st, name).history = st.history /\ nodeSave(st, name).updatetick = st.updatetick
         /\ nodeSave(st, name).currentTreeName = IF name = NoName THEN st.currentTreeName ELSE name
         /\ \A u \in Uploads(st, name) :
              /\ u = [name |-> u.name, file |-> u.file] /\ TreeFile(u.file)
              /\ u.name \in Name /\ u.name = nodeSave(st, name).currentTreeName
              /\ Mounted(st) => WellMounted(u.file)
<1>1. /\ SliceOK(nodeSave(st, name)) /\ nodeSave(st, name).nodes = st.nodes
      /\ nodeSave(st, name).history = st.history /\ nodeSave(st, name).updatetick = st.updatetick
      /\ nodeSave(st, name).currentTreeName = IF name = NoName THEN st.currentTreeName ELSE name
  <2>1. CASE name = NoName
    BY <2>1 DEF nodeSave
  <2>2. CASE name # NoName
    <3>1. nodeSave(st, name) = [st EXCEPT !.currentTreeName = name]
      BY <2>2 DEF nodeSave
    <3> QED BY <2>2, <3>1, NameFollows
  <2> QED BY <2>1, <2>2
<1> DEFINE n == IF name = NoName THEN st.currentTreeName ELSE name
<1>2. ASSUME NEW u \in Uploads(st, name)
      PROVE  /\ u = [name |-> u.name, file |-> u.file] /\ TreeFile(u.file)
             /\ u.name \in Name /\ u.name = n /\ (Mounted(st) => WellMounted(u.file))
  <2>1. n \in Name \cup {NoName}
    BY DEF SliceOK
  <2>2. n # NoName /\ \E r \in Roots(st.nodes) : u = [name |-> n, file |-> Subtree(st.nodes, r)]
    BY DEF Uploads
  <2> HIDE DEF n
  <2>3. PICK r \in Roots(st.nodes) : u = [name |-> n, file |-> Subtree(st.nodes, r)]
    BY <2>2
  <2>4. TreeFile(Subtree(st.nodes, r)) /\ (Mounted(st) => WellMounted(Subtree(st.nodes, r)))
    <3>1. Fine(st.nodes, st.rootid) /\ (Mounted(st) => WellMounted(st.nodes))
      BY NodesFine DEF Fine
    <3> QED BY <3>1, SubtreeFile
  <2> QED BY <2>1, <2>2, <2>3, <2>4
<1> QED BY <1>1, <1>2

-----------------------------------------------------------------------------
(* Redrawing. *)

\* A redraw keeps the slice, but for a new Root where there was no node, and shows it.
LEMMA RedrawFacts ==
  ASSUME NEW st, SliceOK(st), redrawTree(st)
  PROVE  /\ SliceOK(tree') /\ tree'.updatetick = FALSE /\ Len(tree'.history) <= Len(st.history)
         /\ tree'.currentTreeName \in {st.currentTreeName, NoName}
         /\ Mounted(st) => Mounted(tree')
         /\ CanvasOK(canvas') /\ Agrees(tree'.nodes, canvas') /\ canvas'.cells \subseteq Id
<1>0. Len(st.history) \in Nat
  BY NodesFine
<1>1. ASSUME NEW mid, SliceOK(mid), tree' = [mid EXCEPT !.updatetick = FALSE], canvas' = Draw(mid.nodes)
      PROVE  /\ SliceOK(tree') /\ tree'.updatetick = FALSE /\ Len(tree'.history) <= Len(mid.history)
             /\ tree'.currentTreeName = mid.currentTreeName /\ (Mounted(mid) => Mounted(tree'))
             /\ CanvasOK(canvas') /\ Agrees(tree'.nodes, canvas') /\ canvas'.cells \subseteq Id
  <2>1. Follows(tree', mid, 0) /\ tree'.nodes = mid.nodes /\ tree'.updatetick = FALSE
    BY <1>1, TickFollows
  <2>2. IsForest(mid.nodes) /\ Ids(mid.nodes) \subseteq Id /\ Len(mid.history) \in Nat
    BY <1>1, NodesFine
  <2>3. CanvasOK(canvas') /\ Agrees(mid.nodes, canvas') /\ canvas'.cells = Ids(mid.nodes)
    BY <1>1, <2>2, DrawFacts
  <2>4. Len(tree'.history) \in Nat
    BY <2>1, NodesFine DEF Follows
  <2> QED BY <2>1, <2>2, <2>3, <2>4 DEF Follows
<1>2. CASE st.nodes # Empty
  BY <1>1, <1>2 DEF redrawTree
<1>3. CASE st.nodes = Empty
  <2>1. PICK r \in {x \in Fresh : Ty[x] = "Root"}, at \in {Min(Positions)} :
          LET info == GetNodInfo(r, at)
              new  == initTree(nodeAdd(st, r, info), Single(r, info))
          IN  tree' = [new EXCEPT !.updatetick = FALSE] /\ canvas' = Draw(new.nodes)
    BY <1>3 DEF redrawTree
  <2> DEFINE info == GetNodInfo(r, at)
             T    == Single(r, info)
             mid  == nodeAdd(st, r, info)
             new  == initTree(mid, T)
  <2>2. tree' = [new EXCEPT !.updatetick = FALSE] /\ canvas' = Draw(new.nodes)
    BY <2>1
  <2>3. r \in Id /\ Ty[r] = "Root"
    BY DEF Fresh
  <2> HIDE DEF info
  <2>4. TreeFile(T) /\ WellMounted(T)
    BY <2>3, SingleFile
  <2>5. /\ IsSlice(mid) /\ mid.currentClickNode \in Id \cup {NoId} /\ mid.updatetick \in BOOLEAN
    BY EditIs DEF nodeAdd, SliceOK
  <2> HIDE DEF mid, T
  <2>6. /\ SliceOK(new) /\ new.history = <<>> /\ new.currentTreeName = NoName
        /\ WellMounted(T) => Mounted(new)
    BY <2>4, <2>5, InitFollows
  <2> HIDE DEF new
  <2>7. Len(new.history) = 0
    BY <2>6
  <2>8. /\ SliceOK(tree') /\ tree'.updatetick = FALSE /\ Len(tree'.history) <= Len(new.history)
        /\ tree'.currentTreeName = new.currentTreeName /\ (Mounted(new) => Mounted(tree'))
        /\ CanvasOK(canvas') /\ Agrees(tree'.nodes, canvas') /\ canvas'.cells \subseteq Id
    BY <1>1, <2>2, <2>6
  <2>9. Len(tree'.history) \in Nat
    BY <2>8, NodesFine
  <2> QED BY <1>0, <2>4, <2>6, <2>7, <2>8, <2>9
<1> QED BY <1>2, <1>3

\* What a handler leaves.
LEMMA CommitFacts ==
  ASSUME NEW st, SliceOK(st), NEW cv, CanvasOK(cv), Commit(st, cv)
  PROVE  /\ SliceOK(tree') /\ tree'.updatetick = FALSE /\ Len(tree'.history) <= Len(st.history)
         /\ tree'.currentTreeName \in {st.currentTreeName, NoName}
         /\ Mounted(st) => Mounted(tree')
         /\ CanvasOK(canvas')
         /\ IF st.updatetick THEN Agrees(tree'.nodes, canvas') /\ canvas'.cells \subseteq Id
            ELSE tree' = st /\ canvas' = cv
<1>1. st.updatetick \in BOOLEAN /\ Len(st.history) \in Nat
  BY NodesFine DEF SliceOK
<1>2. CASE st.updatetick
  <2>1. redrawTree(st)
    BY <1>2 DEF Commit
  <2> QED BY <1>2, <2>1, RedrawFacts
<1>3. CASE ~st.updatetick
  <2>1. tree' = st /\ canvas' = cv
    BY <1>3 DEF Commit
  <2> QED BY <1>1, <1>3, <2>1
<1> QED BY <1>2, <1>3

-----------------------------------------------------------------------------
(* The canvas under the hands of the user. *)

\* A cell added: a node, or a marker.
LEMMA AddCellFacts ==
  ASSUME NEW cv, CanvasOK(cv), NEW c \in Id \cup Markers
  PROVE  /\ CanvasOK(AddCell(cv, c)) /\ AddCell(cv, c).cells = cv.cells \cup {c}
         /\ AddCell(cv, c).parent[c] = NoId
         /\ \A d \in cv.cells \ {c} : AddCell(cv, c).parent[d] = cv.parent[d]
<1> DEFINE new == AddCell(cv, c)
           P == [d \in DOMAIN cv.parent \cup {c} |-> IF d = c THEN NoId ELSE cv.parent[d]]
<1>1. new = [cells |-> cv.cells \cup {c}, before |-> cv.before \cup (cv.cells \X {c}),
             parent |-> P, edges |-> cv.edges]
  <2>1. new = [[[cv EXCEPT !.cells = cv.cells \cup {c}] EXCEPT !.before = cv.before \cup (cv.cells \X {c})]
               EXCEPT !.parent = P]
    BY DEF AddCell, CanvasOK
  <2> HIDE DEF P, new
  <2> QED BY <2>1 DEF CanvasOK
<1>2. DOMAIN P = cv.cells \cup {c} /\ P[c] = NoId /\ \A d \in cv.cells \ {c} : P[d] = cv.parent[d]
  BY DEF CanvasOK
<1> HIDE DEF P, new
<1>3. CanvasOK(new)
  BY <1>1, <1>2 DEF CanvasOK
<1> QED BY <1>1, <1>2, <1>3 DEF new

\* A marker taken off: no node is embedded in it.
LEMMA DropCellFacts ==
  ASSUME NEW cv, CanvasOK(cv), NEW c
  PROVE  /\ CanvasOK(DropCell(cv, c)) /\ DropCell(cv, c).cells = cv.cells \ {c}
         /\ \A d \in cv.cells \ {c} :
              DropCell(cv, c).parent[d] = IF cv.parent[d] = c THEN NoId ELSE cv.parent[d]
BY DEF DropCell, CanvasOK

\* An edge drawn, the target embedded in the source.
Joined(cv, s, t) == [cv EXCEPT !.edges = @ \cup {<<s, t>>}, !.parent[t] = s]
\* It keeps the canvas well formed, and embeds t only.
LEMMA JoinedFacts ==
  ASSUME NEW cv, CanvasOK(cv), NEW s \in cv.cells, NEW t \in cv.cells
  PROVE  /\ CanvasOK(Joined(cv, s, t)) /\ Joined(cv, s, t).cells = cv.cells
         /\ \A d \in cv.cells : Joined(cv, s, t).parent[d] = IF d = t THEN s ELSE cv.parent[d]
<1> DEFINE P == [cv.parent EXCEPT ![t] = s]
           new == Joined(cv, s, t)
<1>1. new = [cells |-> cv.cells, before |-> cv.before, parent |-> P, edges |-> cv.edges \cup {<<s, t>>}]
  <2> DEFINE E == cv.edges \cup {<<s, t>>}
  <2>1. new = [[cv EXCEPT !.edges = E] EXCEPT !.parent = P]
    BY DEF CanvasOK, Joined
  <2> HIDE DEF P, E, new
  <2>2. new = [cells |-> cv.cells, before |-> cv.before, parent |-> P, edges |-> E]
    BY <2>1 DEF CanvasOK
  <2> QED BY <2>2 DEF E
<1>2. DOMAIN P = cv.cells /\ \A d \in cv.cells : P[d] = IF d = t THEN s ELSE cv.parent[d]
  BY DEF CanvasOK
<1> HIDE DEF P, new
<1>3. /\ cv.cells \subseteq Id \cup Markers /\ cv.before \subseteq cv.cells \X cv.cells
      /\ cv.edges \subseteq cv.cells \X cv.cells
  BY DEF CanvasOK
<1>4. /\ new.cells = cv.cells /\ new.before = cv.before /\ new.parent = P
      /\ new.edges = cv.edges \cup {<<s, t>>}
  BY <1>1
<1>5. new.edges \subseteq new.cells \X new.cells
  BY <1>3, <1>4
<1>6. CanvasOK(new)
  BY <1>1, <1>2, <1>3, <1>4, <1>5 DEF CanvasOK
<1> QED BY <1>2, <1>4, <1>6 DEF new

\* An edge moved.
Rejoined(cv, e, f) == [cv EXCEPT !.edges = (@ \ {e}) \cup {f}]
\* It keeps the cells and the embedding.
LEMMA RejoinedFacts ==
  ASSUME NEW cv, CanvasOK(cv), NEW e, NEW f \in cv.cells \X cv.cells
  PROVE  /\ CanvasOK(Rejoined(cv, e, f)) /\ Rejoined(cv, e, f).cells = cv.cells
         /\ Rejoined(cv, e, f).parent = cv.parent
<1> DEFINE new == Rejoined(cv, e, f)
<1>1. new = [cells |-> cv.cells, before |-> cv.before, parent |-> cv.parent, edges |-> (cv.edges \ {e}) \cup {f}]
  BY DEF CanvasOK, Rejoined
<1> HIDE DEF new
<1>2. /\ cv.cells \subseteq Id \cup Markers /\ cv.before \subseteq cv.cells \X cv.cells
      /\ cv.edges \subseteq cv.cells \X cv.cells /\ DOMAIN cv.parent = cv.cells
  BY DEF CanvasOK
<1>3. /\ new.cells = cv.cells /\ new.before = cv.before /\ new.parent = cv.parent
      /\ new.edges = (cv.edges \ {e}) \cup {f}
  BY <1>1
<1>4. new.edges \subseteq new.cells \X new.cells
  BY <1>2, <1>3
<1>5. CanvasOK(new)
  BY <1>1, <1>2, <1>3, <1>4 DEF CanvasOK
<1> QED BY <1>3, <1>5 DEF new

-----------------------------------------------------------------------------
(* The invariant. *)

\* Neither the name of the slice nor the one in the dialog is that of a former
\* tree, and a tree that has a name leaves nothing in the dialog.
Naming(name, gone, typed, open) ==
  /\ gone \subseteq Name /\ name \in (Name \ gone) \cup {NoName}
  /\ typed \in (Name \ gone) \cup {NoName}
  /\ open \/ typed # NoName => name = NoName

SliceInv ==
  /\ SliceOK(tree) /\ tree.updatetick = FALSE
  /\ calls \in Nat /\ Len(tree.history) + calls <= MaxWork
  /\ Naming(tree.currentTreeName, former, behaviorName, modalVisible)

PageInv ==
  /\ mounted \in BOOLEAN /\ misled \in BOOLEAN
  /\ modalVisible \in BOOLEAN /\ (modalVisible => mounted)
  /\ CanvasOK(canvas) /\ BpNodes \subseteq Id /\ tab \in Id \cup {NoId}
  /\ MarkersActive

\* What the handlers rely on, until a late answer has replaced the tree.
DrawInv == misled \/ (Mounted(tree) /\ (mounted => Agrees(tree.nodes, canvas)))

Stored == {files[n] : n \in Name} \cup {u.file : u \in uploads} \cup {l.file : l \in loads}

ServerInv ==
  /\ DOMAIN files = Name
  /\ \A u \in uploads : u = [name |-> u.name, file |-> u.file] /\ u.name \in Name /\ TreeFile(u.file)
  /\ \A l \in loads : /\ l = [by |-> l.by, name |-> l.name, read |-> l.read, file |-> l.file]
                      /\ l.name \in Name
  /\ \A F \in Stored : F = NoFile \/ TreeFile(F)

StoredInv == misled \/ \A F \in Stored : F = NoFile \/ WellMounted(F)

Inv == SliceInv /\ PageInv /\ DrawInv /\ ServerInv /\ StoredInv

-----------------------------------------------------------------------------
(* The handlers of the page. *)

\* No marker is a node.
LEMMA MarkerFacts ==
  /\ \A x \in Id : Marker(x) \in Markers /\ Marker(x) \notin Id
  /\ \A c \in Markers : c \notin Id
  /\ \A x, y : Marker(x) = Marker(y) => x = y
<1>1. \A x \in Id : Marker(x) \in Markers
  BY DEF Markers
<1>2. \A c \in Markers : c \notin Id
  BY GraphAssumption
<1>3. \A x, y : Marker(x) = Marker(y) => x = y
  BY DEF Marker
<1> QED BY <1>1, <1>2, <1>3

\* A handler that commits a slice and a canvas that agree, or has the slice redrawn.
LEMMA HandlerKeeps ==
  ASSUME Inv, mounted, mounted' = mounted, misled' = misled, BpNodes' = BpNodes,
         NEW st, SliceOK(st), NEW cv, CanvasOK(cv), Commit(st, cv),
         calls' \in Nat, Len(st.history) + calls' <= MaxWork,
         modalVisible' \in BOOLEAN, modalVisible' => mounted',
         Naming(st.currentTreeName, former', behaviorName', modalVisible'), tab' \in Id \cup {NoId},
         \A x \in Id : Marker(x) \in cv.cells => x \in BpNodes,
         misled \/ Mounted(st), st.updatetick \/ misled \/ Agrees(st.nodes, cv)
  PROVE  SliceInv' /\ PageInv' /\ DrawInv'
<1>1. /\ SliceOK(tree') /\ tree'.updatetick = FALSE /\ Len(tree'.history) <= Len(st.history)
      /\ tree'.currentTreeName \in {st.currentTreeName, NoName}
      /\ Mounted(st) => Mounted(tree')
      /\ CanvasOK(canvas')
      /\ IF st.updatetick THEN Agrees(tree'.nodes, canvas') /\ canvas'.cells \subseteq Id
         ELSE tree' = st /\ canvas' = cv
  BY CommitFacts
<1>2. Len(tree'.history) \in Nat /\ Len(st.history) \in Nat /\ MaxWork \in Nat
  BY <1>1, NodesFine, GraphAssumption
<1>3. Len(tree'.history) + calls' <= MaxWork
  BY <1>1, <1>2
<1>4. SliceInv'
  BY <1>1, <1>3 DEF SliceInv, Naming
<1>5. \A x \in Id : Marker(x) \in canvas'.cells => x \in BpNodes'
  BY <1>1, MarkerFacts
<1>6. PageInv'
  BY <1>1, <1>5 DEF Inv, PageInv, MarkersActive, Cells
<1>7. DrawInv'
  BY <1>1 DEF DrawInv
<1> QED BY <1>4, <1>6, <1>7

\* What holds before a handler runs.
LEMMA Before ==
  ASSUME Inv
  PROVE  /\ SliceOK(tree) /\ ~tree.updatetick /\ calls \in Nat /\ Len(tree.history) \in Nat
         /\ Len(tree.history) + calls <= MaxWork /\ MaxWork \in Nat
         /\ Naming(tree.currentTreeName, former, behaviorName, modalVisible)
         /\ modalVisible \in BOOLEAN /\ (modalVisible => mounted)
         /\ CanvasOK(canvas) /\ BpNodes \subseteq Id /\ tab \in Id \cup {NoId}
         /\ canvas.cells \subseteq Id \cup Markers
         /\ \A x \in Id : Marker(x) \in canvas.cells => x \in BpNodes
         /\ misled \/ Mounted(tree)
         /\ mounted => misled \/ Agrees(tree.nodes, canvas)
BY NodesFine, GraphAssumption DEF Inv, SliceInv, PageInv, DrawInv, MarkersActive, Cells, CanvasOK

\* The name of the tree that goes is in nobody's hands afterwards.
LEMMA FormerName ==
  ASSUME Inv
  PROVE  WithFormer \subseteq Name /\ Naming(NoName, WithFormer, behaviorName, modalVisible)
BY Before DEF Naming, WithFormer

\* The server is left alone.
LEMMA ServerSame ==
  ASSUME Inv, misled' = misled, UNCHANGED <<files, uploads, loads>>
  PROVE  ServerInv' /\ StoredInv'
BY DEF Inv, ServerInv, StoredInv, Stored

\* A handler that commits an edit of the slice, with nothing asked of the server.
LEMMA EditKeeps ==
  ASSUME Inv, mounted, UNCHANGED <<mounted, BpNodes, tab, dialog, server, former, misled>>,
         NEW n \in Nat, Room(n), NEW st, Follows(st, tree, n), NEW cv, CanvasOK(cv), Commit(st, cv),
         \A x \in Id : Marker(x) \in cv.cells => x \in BpNodes,
         st.updatetick \/ misled \/ Agrees(st.nodes, cv)
  PROVE  Inv'
<1>1. /\ SliceOK(st) /\ Len(st.history) <= Len(tree.history) + n
      /\ st.currentTreeName = tree.currentTreeName /\ (Mounted(tree) => Mounted(st))
  BY DEF Follows
<1>2. /\ files' = files /\ uploads' = uploads /\ loads' = loads /\ calls' = calls
      /\ mounted' = mounted /\ BpNodes' = BpNodes /\ tab' = tab /\ former' = former /\ misled' = misled
      /\ modalVisible' = modalVisible /\ behaviorName' = behaviorName
  BY DEF server, dialog
<1>3. Len(st.history) \in Nat
  BY <1>1, NodesFine
<1>4. Len(st.history) + calls' <= MaxWork
  BY <1>1, <1>2, <1>3, Before DEF Room
<1>5. SliceInv' /\ PageInv' /\ DrawInv'
  BY <1>1, <1>2, <1>4, Before, HandlerKeeps
<1> QED BY <1>2, <1>5, ServerSame DEF Inv

\* An edit followed by a redraw.
LEMMA RedrawnKeeps ==
  ASSUME Inv, mounted, UNCHANGED <<mounted, BpNodes, tab, dialog, server, former, misled>>,
         NEW n \in Nat, Room(n), NEW st, Follows(st, tree, n), Commit(nodeRedraw(st), canvas)
  PROVE  Inv'
<1> DEFINE new == nodeRedraw(st)
<1>1. SliceOK(st)
  BY DEF Follows
<1>2. Follows(new, st, 0) /\ new.updatetick = TRUE
  BY <1>1, TickFollows DEF nodeRedraw
<1> HIDE DEF new
<1>3. Len(new.history) \in Nat /\ Len(st.history) \in Nat /\ Len(tree.history) \in Nat
  BY <1>1, <1>2, NodesFine, Before DEF Follows
<1>4. Len(new.history) <= Len(tree.history) + n
  BY <1>2, <1>3 DEF Follows
<1>5. Follows(new, tree, n)
  BY <1>2, <1>4 DEF Follows
<1>6. Commit(new, canvas)
  BY DEF new
<1> QED BY <1>2, <1>5, <1>6, Before, EditKeeps

\* An id that has left no trace.
LEMMA FreshFacts ==
  ASSUME NEW x \in Fresh
  PROVE  x \in Id /\ x \notin Ids(tree.nodes) /\ x \notin canvas.cells
BY DEF Fresh, Versions, Cells

\* A node is dropped on the canvas: cell and node appear together.
LEMMA DropKeeps == ASSUME Inv, NEW x \in Id, Drop(x) PROVE Inv'
<1>1. /\ mounted /\ Room(1) /\ x \in Fresh /\ Ty[x] # "Root"
      /\ UNCHANGED <<mounted, BpNodes, tab, dialog, server, former, misled>>
  BY DEF Drop, AtHand
<1>2. PICK at \in Positions : Commit(nodeAdd(tree, x, GetNodInfo(x, at)), AddCell(canvas, x))
  BY DEF Drop
<1> DEFINE info == GetNodInfo(x, at)
           st   == nodeAdd(tree, x, info)
           cv   == AddCell(canvas, x)
<1>3. Commit(st, cv)
  BY <1>2
<1> HIDE DEF info
<1>4. x \in Id \ Ids(tree.nodes) /\ x \notin canvas.cells
  BY <1>1, FreshFacts
<1>5. Follows(st, tree, 1)
  BY <1>1, <1>4, Before, AddFollows
<1>6. /\ CanvasOK(cv) /\ cv.cells = canvas.cells \cup {x} /\ cv.parent[x] = NoId
      /\ \A d \in canvas.cells \ {x} : cv.parent[d] = canvas.parent[d]
  BY <1>4, Before, AddCellFacts
<1>7. ASSUME Agrees(tree.nodes, canvas) PROVE Agrees(st.nodes, cv)
  <2>1. IsForest(tree.nodes) /\ st.nodes = add(tree.nodes, x, info)
    BY Before, NodesFine, EditIs DEF nodeAdd
  <2>2. /\ Ids(st.nodes) = Ids(tree.nodes) \cup {x} /\ Parent(st.nodes, x) = NoId
        /\ \A z \in Ids(tree.nodes) : Parent(st.nodes, z) = Parent(tree.nodes, z)
    BY <1>4, <2>1, AddForest, AddFacts
  <2> QED BY <1>4, <1>6, <1>7, <2>2 DEF Agrees
<1>8. \A y \in Id : Marker(y) \in cv.cells => y \in BpNodes
  BY <1>6, Before, MarkerFacts
<1> HIDE DEF st, cv
<1> QED BY <1>1, <1>3, <1>5, <1>6, <1>7, <1>8, Before, EditKeeps

\* An edge is drawn.  The canvas is asked whether the source has a child, and the
\* store is changed: DrawInv carries the answer from one to the other.
LEMMA ConnectKeeps == ASSUME Inv, NEW s \in Cells, NEW t \in Cells, Connect(s, t) PROVE Inv'
<1>1. /\ mounted /\ Room(1) /\ TypeName(t) # "Root"
      /\ ~(IsScriptNode(TypeName(s)) /\ Embedded(s) # {})
      /\ UNCHANGED <<mounted, BpNodes, tab, dialog, server, former, misled>>
  BY DEF Connect, AtHand
<1> DEFINE st == nodeLink(tree, s, t)
           cv == Joined(canvas, s, t)
           N  == tree.nodes
<1>2. Commit(st, cv)
  BY DEF Connect, Joined
<1>3. SliceOK(tree) /\ IsForest(N) /\ Ids(N) \subseteq Id /\ N = tree.nodes
  BY Before, NodesFine
<1>4. /\ CanvasOK(cv) /\ cv.cells = canvas.cells
      /\ \A d \in canvas.cells : cv.parent[d] = IF d = t THEN s ELSE canvas.parent[d]
  BY Before, JoinedFacts DEF Cells
<1>5. st.nodes = link(N, s, t) /\ st.updatetick = tree.updatetick
  BY <1>3, EditIs DEF nodeLink
<1>6. SliceOK(st)
  BY <1>3, LinkFollows
<1>7. ASSUME ~misled PROVE Follows(st, tree, 1)
  <2>1. Agrees(N, canvas)
    BY <1>1, <1>7, Before
  <2>2. CASE t \in Markers
    <3>1. t \notin Ids(N)
      BY <1>3, <2>2, MarkerFacts
    <3>2. st = Edit(tree, N)
      BY <3>1 DEF nodeLink, link, _cut
    <3>3. Fine(N, tree.rootid)
      BY <1>3, NodesFine DEF Fine
    <3>4. Follows(Edit(tree, N), tree, 1)
      BY <1>3, <3>3, NodesFine, EditFollows
    <3> QED BY <3>2, <3>4
  <2>3. CASE t \notin Markers
    <3>1. Ty[t] # "Root"
      BY <1>1, <2>3 DEF TypeName
    <3>2. ASSUME s \in Ids(N), IsScriptNode(Ty[s]) PROVE Children(N, s) = {}
      <4>1. TypeName(s) = Ty[s]
        BY <1>3, <3>2, MarkerFacts DEF TypeName
      <4>2. Embedded(s) = {}
        BY <1>1, <3>2, <4>1
      <4>3. ASSUME NEW z \in Children(N, s) PROVE FALSE
        <5>1. z \in Ids(N) /\ s # Top /\ s \in DOMAIN N.kids
          BY <1>3, <3>2, <4>3 DEF IsForest, Children, Elements, Ids
        <5>2. Parent(N, z) = s
          BY <1>3, <4>3, <5>1, ParentFacts
        <5>3. z \in Cells /\ canvas.parent[z] = s
          BY <2>1, <5>1, <5>2 DEF Agrees, Cells
        <5> QED BY <4>2, <5>3 DEF Embedded
      <4> QED BY <4>3
    <3> QED BY <1>3, <3>1, <3>2, LinkFollows
  <2> QED BY <2>2, <2>3
<1>8. Follows(st, tree, 1) \/ (misled /\ st.currentTreeName = tree.currentTreeName
                                /\ Len(st.history) = Len(tree.history) + 1)
  BY <1>3, <1>7, EditIs DEF nodeLink
<1>9. ASSUME Agrees(N, canvas) PROVE Agrees(st.nodes, cv)
  <2>1. \A z \in Ids(link(N, s, t)) : Parent(link(N, s, t), z) = IF z = t THEN s ELSE Parent(N, z)
    BY <1>3, LinkFacts
  <2>2. Ids(link(N, s, t)) \subseteq Ids(N)
    BY <1>3, LinkForest
  <2> QED BY <1>4, <1>5, <1>9, <2>1, <2>2 DEF Agrees
<1>10. \A y \in Id : Marker(y) \in cv.cells => y \in BpNodes
  BY <1>4, Before
<1> HIDE DEF st, cv
<1>11. CASE Follows(st, tree, 1)
  BY <1>1, <1>2, <1>4, <1>9, <1>10, <1>11, Before, EditKeeps
<1>12. CASE ~Follows(st, tree, 1)
  <2>1. /\ files' = files /\ uploads' = uploads /\ loads' = loads /\ calls' = calls
        /\ mounted' = mounted /\ BpNodes' = BpNodes /\ tab' = tab /\ former' = former /\ misled' = misled
        /\ modalVisible' = modalVisible /\ behaviorName' = behaviorName
    BY <1>1 DEF server, dialog
  <2>2. misled /\ st.currentTreeName = tree.currentTreeName /\ Len(st.history) + calls' <= MaxWork
    BY <1>1, <1>8, <1>12, <2>1, Before DEF Room
  <2>3. SliceInv' /\ PageInv' /\ DrawInv'
    BY <1>1, <1>2, <1>4, <1>6, <1>10, <2>1, <2>2, Before, HandlerKeeps
  <2> QED BY <2>1, <2>3, ServerSame DEF Inv
<1> QED BY <1>11, <1>12

\* An end of an edge is moved: the embedding and the store stay.
LEMMA ReconnectKeeps ==
  ASSUME Inv, NEW e \in canvas.edges, NEW f \in Cells \X Cells, Reconnect(e, f)
  PROVE  Inv'
<1>1. /\ canvas' = Rejoined(canvas, e, f)
      /\ tree' = tree /\ mounted' = mounted /\ BpNodes' = BpNodes /\ tab' = tab /\ former' = former
      /\ modalVisible' = modalVisible /\ behaviorName' = behaviorName /\ misled' = misled
      /\ files' = files /\ uploads' = uploads /\ loads' = loads /\ calls' = calls
  BY DEF Reconnect, Rejoined, server, dialog
<1>2. CanvasOK(canvas') /\ canvas'.cells = canvas.cells /\ canvas'.parent = canvas.parent
  BY <1>1, Before, RejoinedFacts DEF Cells
<1>3. SliceInv'
  BY <1>1 DEF Inv, SliceInv
<1>4. PageInv'
  BY <1>1, <1>2 DEF Inv, PageInv, MarkersActive, Cells
<1>5. DrawInv'
  <2>1. Agrees(tree.nodes, canvas) => Agrees(tree'.nodes, canvas')
    BY <1>1, <1>2 DEF Agrees
  <2> QED BY <1>1, <2>1 DEF Inv, DrawInv
<1> QED BY <1>1, <1>3, <1>4, <1>5, ServerSame DEF Inv

\* An edge is removed.
LEMMA RemoveEdgeKeeps == ASSUME Inv, NEW e \in canvas.edges, RemoveEdge(e) PROVE Inv'
<1>1. /\ mounted /\ Room(1) /\ Commit(nodeRedraw(nodeUnlink(tree, e[2])), canvas)
      /\ UNCHANGED <<mounted, BpNodes, tab, dialog, server, former, misled>>
  BY DEF RemoveEdge, AtHand
<1>2. Follows(nodeUnlink(tree, e[2]), tree, 1)
  BY Before, OtherFollows
<1> QED BY <1>1, <1>2, RedrawnKeeps

\* One or two selected nodes are deleted.
LEMMA ClickDelKeeps == ASSUME Inv, NEW c \in Cells, NEW d \in Cells, ClickDel(c, d) PROVE Inv'
<1> DEFINE less == nodeRmv(tree, c)
           n    == Cardinality({c, d})
           st   == IF c = d THEN less ELSE nodeRmv(less, d)
<1>1. /\ mounted /\ Room(n) /\ Commit(nodeRedraw(st), canvas)
      /\ UNCHANGED <<mounted, BpNodes, tab, dialog, server, former, misled>>
  BY DEF ClickDel, AtHand
<1>2. Follows(less, tree, 1)
  BY Before, OtherFollows
<1>3. CASE c = d
  <2>1. n = 1
    BY <1>3, FS_Singleton
  <2> QED BY <1>1, <1>2, <1>3, <2>1, RedrawnKeeps
<1>4. CASE c # d
  <2>1. n = 2
    <3>1. IsFiniteSet({c}) /\ Cardinality({c}) = 1 /\ d \notin {c} /\ {c, d} = {c} \cup {d}
      BY <1>4, FS_Singleton
    <3> QED BY <3>1, FS_AddElement
  <2> HIDE DEF less
  <2>2. SliceOK(less) /\ Follows(nodeRmv(less, d), less, 1)
    BY <1>2, OtherFollows DEF Follows
  <2> DEFINE both == nodeRmv(less, d)
  <2> HIDE DEF both
  <2>3. Len(both.history) \in Nat /\ Len(less.history) \in Nat /\ Len(tree.history) \in Nat
    BY <2>2, NodesFine, Before DEF Follows, both
  <2>4. Len(both.history) <= Len(tree.history) + 2
    BY <1>2, <2>2, <2>3 DEF Follows, both
  <2>5. Follows(both, tree, 2)
    BY <1>2, <2>2, <2>4 DEF Follows, both
  <2> QED BY <1>1, <1>4, <2>1, <2>5, RedrawnKeeps DEF both
<1> QED BY <1>3, <1>4

\* A branch is moved: as many versions as it has cells.
LEMMA MoveKeeps == ASSUME Inv, NEW c \in Cells, NEW at \in Positions, Move(c, at) PROVE Inv'
<1> DEFINE S  == Branch(c)
           n  == Cardinality(S)
           st == moveAll(tree, SetToSeq(S), at)
<1>1. /\ mounted /\ Room(n) /\ Commit(st, canvas)
      /\ UNCHANGED <<mounted, BpNodes, tab, dialog, server, former, misled>>
  BY DEF Move, AtHand
<1>2. IsFiniteSet(S)
  <2>1. IsFiniteSet(Markers)
    <3> DEFINE g == [x \in Id |-> Marker(x)]
    <3>1. g \in Surjection(Id, Markers)
      BY DEF Surjection, Markers
    <3> HIDE DEF g
    <3> QED BY <3>1, GraphAssumption, FS_Surjection
  <2>2. IsFiniteSet(Id \cup Markers)
    BY <2>1, GraphAssumption, FS_Union
  <2>3. S \subseteq Id \cup Markers
    BY Before DEF Branch, Cells
  <2> QED BY <2>2, <2>3, FS_Subset
<1> HIDE DEF S
<1>3. n \in Nat
  BY <1>2, FS_CardinalityType
<1>4. /\ Follows(st, tree, n) /\ st.updatetick = tree.updatetick
      /\ Ids(st.nodes) = Ids(tree.nodes)
      /\ \A x \in Ids(tree.nodes) : Parent(st.nodes, x) = Parent(tree.nodes, x)
  BY <1>2, Before, MoveFollows
<1> HIDE DEF st, n
<1>5. Agrees(tree.nodes, canvas) => Agrees(st.nodes, canvas)
  BY <1>4 DEF Agrees
<1> QED BY <1>1, <1>3, <1>4, <1>5, Before, EditKeeps

\* A node, or nothing, is clicked.
LEMMA ClickKeeps == ASSUME Inv, NEW x \in Id \cup {NoId}, Click(x) PROVE Inv'
<1> DEFINE st == nodeClick(tree, x)
<1>1. /\ mounted /\ Commit(st, canvas) /\ tab' = Form(tree')
      /\ mounted' = mounted /\ BpNodes' = BpNodes /\ former' = former /\ misled' = misled
      /\ modalVisible' = modalVisible /\ behaviorName' = behaviorName
      /\ files' = files /\ uploads' = uploads /\ loads' = loads /\ calls' = calls
  BY DEF Click, AtHand, dialog, server
<1>2. /\ SliceOK(st) /\ st.nodes = tree.nodes /\ st.history = tree.history
      /\ st.updatetick = tree.updatetick /\ st.currentTreeName = tree.currentTreeName
  BY Before, ClickFollows DEF nodeClick
<1> HIDE DEF st
<1>3. tree' = st
  BY <1>1, <1>2, Before DEF Commit
<1>4. tab' \in Id \cup {NoId}
  BY <1>1, <1>2, <1>3 DEF Form, SliceOK
<1>5. Mounted(tree) => Mounted(st)
  BY <1>2 DEF Mounted, VersionsOf
<1>6. Len(st.history) + calls' <= MaxWork /\ calls' \in Nat
  BY <1>1, <1>2, Before
<1>7. Naming(st.currentTreeName, former', behaviorName', modalVisible')
  BY <1>1, <1>2, Before
<1>8. st.updatetick \/ misled \/ Agrees(st.nodes, canvas)
  BY <1>1, <1>2, Before
<1>9. SliceInv' /\ PageInv' /\ DrawInv'
  BY <1>1, <1>2, <1>4, <1>5, <1>6, <1>7, <1>8, Before, HandlerKeeps
<1> QED BY <1>1, <1>9, ServerSame DEF Inv

\* The form of a node is applied.
LEMMA ApplyKeeps == ASSUME Inv, NEW text \in Texts, Apply(text) PROVE Inv'
<1> DEFINE st == nodeUpdate(tree, tab, TabFields(Ty[tab]), [f \in Fields |-> text])
<1>1. /\ mounted /\ Room(1) /\ Commit(nodeRedraw(st), canvas)
      /\ UNCHANGED <<mounted, BpNodes, tab, dialog, server, former, misled>>
  BY DEF Apply, AtHand
<1>2. Follows(st, tree, 1)
  BY Before, OtherFollows
<1> HIDE DEF st
<1> QED BY <1>1, <1>2, RedrawnKeeps

\* The last edit is undone.
LEMMA UndoKeeps == ASSUME Inv, ClickUndo PROVE Inv'
<1> DEFINE st == nodeUndo(tree)
<1>1. /\ mounted /\ tree.history # <<>> /\ Commit(st, canvas)
      /\ UNCHANGED <<mounted, BpNodes, tab, dialog, server, former, misled>>
  BY DEF ClickUndo, AtHand
<1>2. Follows(st, tree, 0) /\ st.updatetick
  BY <1>1, Before, UndoFollows
<1> HIDE DEF st
<1>3. Room(0)
  BY Before DEF Room
<1> QED BY <1>1, <1>2, <1>3, Before, EditKeeps

\* The tree is cleaned away with its name; what the dialog holds is another name.
LEMMA CleanKeeps == ASSUME Inv, CleanTree PROVE Inv'
<1> DEFINE st == cleanTree(tree)
<1>1. /\ mounted /\ Commit(st, canvas) /\ former' = WithFormer
      /\ mounted' = mounted /\ BpNodes' = BpNodes /\ tab' = tab /\ misled' = misled
      /\ modalVisible' = modalVisible /\ behaviorName' = behaviorName
      /\ files' = files /\ uploads' = uploads /\ loads' = loads /\ calls' = calls
  BY DEF CleanTree, AtHand, dialog, server
<1>2. /\ SliceOK(st) /\ st.history = <<>> /\ st.updatetick /\ st.currentTreeName = NoName /\ Mounted(st)
  BY Before, CleanFollows
<1> HIDE DEF st
<1>3. Len(st.history) = 0
  BY <1>2
<1>4. Len(st.history) + calls' <= MaxWork /\ calls' \in Nat
  BY <1>1, <1>3, Before
<1>5. Naming(st.currentTreeName, former', behaviorName', modalVisible')
  BY <1>1, <1>2, FormerName
<1>6. SliceInv' /\ PageInv' /\ DrawInv'
  BY <1>1, <1>2, <1>4, <1>5, Before, HandlerKeeps
<1> QED BY <1>1, <1>6, ServerSame DEF Inv

\* A breakpoint is set or taken off, with its marker.
LEMMA ToggleKeeps == ASSUME Inv, ToggleBreakpoint PROVE Inv'
<1> DEFINE x == tree.currentClickNode
<1>1. /\ x # NoId
      /\ \/ x \in BpNodes /\ BpNodes' = BpNodes \ {x} /\ canvas' = DropCell(canvas, Marker(x))
         \/ x \notin BpNodes /\ BpNodes' = BpNodes \cup {x} /\ canvas' = AddCell(canvas, Marker(x))
      /\ tree' = tree /\ mounted' = mounted /\ tab' = tab /\ former' = former /\ misled' = misled
      /\ modalVisible' = modalVisible /\ behaviorName' = behaviorName
      /\ files' = files /\ uploads' = uploads /\ loads' = loads /\ calls' = calls
  BY DEF ToggleBreakpoint, dialog, server
<1>2. x \in Id /\ SliceOK(tree)
  BY <1>1, Before DEF SliceOK
<1> HIDE DEF x
<1> DEFINE m == Marker(x)
<1>3. m \in Markers /\ m \notin Id /\ \A y \in Id : Marker(y) = m => y = x
  BY <1>2, MarkerFacts
<1> HIDE DEF m
<1>4. IsForest(tree.nodes) /\ Ids(tree.nodes) \subseteq Id
  BY <1>2, NodesFine
<1>5. SliceInv'
  BY <1>1 DEF Inv, SliceInv
<1>6. CASE x \in BpNodes
  <2>1. canvas' = DropCell(canvas, m) /\ BpNodes' = BpNodes \ {x}
    BY <1>1, <1>6 DEF m
  <2>2. /\ CanvasOK(canvas') /\ canvas'.cells = canvas.cells \ {m}
        /\ \A d \in canvas.cells \ {m} :
             canvas'.parent[d] = IF canvas.parent[d] = m THEN NoId ELSE canvas.parent[d]
    BY <2>1, Before, DropCellFacts
  <2>3. \A y \in Id : Marker(y) \in canvas'.cells => y \in BpNodes'
    <3> SUFFICES ASSUME NEW y \in Id, Marker(y) \in canvas'.cells PROVE y \in BpNodes'
      OBVIOUS
    <3>1. y \in BpNodes /\ y # x
      BY <2>2, Before DEF m
    <3> QED BY <2>1, <3>1
  <2>4. Agrees(tree.nodes, canvas) => Agrees(tree'.nodes, canvas')
    <3> SUFFICES ASSUME Agrees(tree.nodes, canvas), NEW z \in Ids(tree.nodes)
                 PROVE  z \in canvas'.cells /\ canvas'.parent[z] = Parent(tree.nodes, z)
      BY <1>1 DEF Agrees
    <3>1. z \in canvas.cells \ {m} /\ canvas.parent[z] = Parent(tree.nodes, z)
      BY <1>3, <1>4 DEF Agrees
    <3>2. Parent(tree.nodes, z) \in Ids(tree.nodes) \cup {NoId}
      <4>1. PICK y \in DOMAIN tree.nodes.kids : z \in Children(tree.nodes, y)
        BY <1>4, ParentFacts
      <4>2. Parent(tree.nodes, z) = IF y = Top THEN NoId ELSE y
        BY <1>4, <4>1, ParentFacts
      <4> QED BY <4>2 DEF Ids
    <3> QED BY <1>3, <1>4, <2>2, <3>1, <3>2
  <2>5. PageInv'
    BY <1>1, <2>1, <2>2, <2>3 DEF Inv, PageInv, MarkersActive, Cells
  <2>6. DrawInv'
    BY <1>1, <2>4 DEF Inv, DrawInv
  <2> QED BY <1>1, <1>5, <2>5, <2>6, ServerSame DEF Inv
<1>7. CASE x \notin BpNodes
  <2>1. canvas' = AddCell(canvas, m) /\ BpNodes' = BpNodes \cup {x}
    BY <1>1, <1>7 DEF m
  <2>2. /\ CanvasOK(canvas') /\ canvas'.cells = canvas.cells \cup {m}
        /\ \A d \in canvas.cells \ {m} : canvas'.parent[d] = canvas.parent[d]
    BY <1>3, <2>1, Before, AddCellFacts
  <2>3. \A y \in Id : Marker(y) \in canvas'.cells => y \in BpNodes'
    BY <1>3, <2>1, <2>2, Before
  <2>4. Agrees(tree.nodes, canvas) => Agrees(tree'.nodes, canvas')
    BY <1>1, <1>3, <1>4, <2>2 DEF Agrees
  <2>5. PageInv'
    BY <1>1, <1>2, <2>1, <2>2, <2>3 DEF Inv, PageInv, MarkersActive, Cells
  <2>6. DrawInv'
    BY <1>1, <2>4 DEF Inv, DrawInv
  <2> QED BY <1>1, <1>5, <2>5, <2>6, ServerSame DEF Inv
<1> QED BY <1>6, <1>7

\* A save: the slice may take over a name, and the tree below each Root is on its way.
LEMMA SendKeeps ==
  ASSUME Inv, NEW name \in Name \cup {NoName}, Asks, tree' = nodeSave(tree, name),
         uploads' = uploads \cup Uploads(tree, name),
         UNCHANGED <<mounted, canvas, BpNodes, tab, files, loads, misled>>,
         modalVisible' \in BOOLEAN, modalVisible' => mounted',
         Naming(tree'.currentTreeName, former', behaviorName', modalVisible')
  PROVE  Inv'
<1> DEFINE st == nodeSave(tree, name)
<1>1. /\ Len(tree.history) + calls < MaxWork /\ calls' = calls + 1 /\ tree' = st
      /\ mounted' = mounted /\ canvas' = canvas /\ BpNodes' = BpNodes /\ tab' = tab /\ misled' = misled
      /\ files' = files /\ loads' = loads
  BY DEF Asks
<1>2. /\ SliceOK(st) /\ st.nodes = tree.nodes /\ st.history = tree.history
      /\ st.updatetick = tree.updatetick
      /\ \A u \in Uploads(tree, name) :
           /\ u = [name |-> u.name, file |-> u.file] /\ TreeFile(u.file)
           /\ u.name \in Name
           /\ Mounted(tree) => WellMounted(u.file)
  BY Before, SaveFollows
<1> HIDE DEF st
<1>3. Len(tree'.history) + calls' <= MaxWork /\ calls' \in Nat
  BY <1>1, <1>2, Before
<1>4. SliceInv'
  BY <1>1, <1>2, <1>3, Before DEF SliceInv
<1>5. PageInv'
  BY <1>1 DEF Inv, PageInv, MarkersActive, Cells
<1>6. Mounted(tree) => Mounted(st)
  BY <1>2 DEF Mounted, VersionsOf
<1>7. DrawInv'
  BY <1>1, <1>2, <1>6 DEF Inv, DrawInv
<1>8. ServerInv'
  BY <1>1, <1>2 DEF Inv, ServerInv, Stored
<1>9. StoredInv'
  BY <1>1, <1>2, Before DEF Inv, StoredInv, Stored
<1> QED BY <1>4, <1>5, <1>7, <1>8, <1>9 DEF Inv

\* Only the dialog changes, or what is known of former trees.
LEMMA DialogKeeps ==
  ASSUME Inv, UNCHANGED <<tree, mounted, canvas, BpNodes, tab, server, misled>>,
         modalVisible' \in BOOLEAN, modalVisible' => mounted,
         Naming(tree.currentTreeName, former', behaviorName', modalVisible')
  PROVE  Inv'
<1>1. /\ tree' = tree /\ mounted' = mounted /\ canvas' = canvas /\ BpNodes' = BpNodes /\ tab' = tab
      /\ misled' = misled /\ files' = files /\ uploads' = uploads /\ loads' = loads /\ calls' = calls
  BY DEF server
<1>2. SliceInv'
  BY <1>1 DEF Inv, SliceInv
<1>3. PageInv'
  BY <1>1 DEF Inv, PageInv, MarkersActive, Cells
<1>4. DrawInv'
  BY <1>1 DEF Inv, DrawInv
<1> QED BY <1>1, <1>2, <1>3, <1>4, ServerSame DEF Inv

\* The upload is clicked: the tree is sent under its name, or the dialog opens.
LEMMA UploadKeeps == ASSUME Inv, ClickUpload PROVE Inv'
<1>1. /\ mounted /\ ~modalVisible
      /\ UNCHANGED <<tree, mounted, canvas, BpNodes, tab, behaviorName, former, misled>>
  BY DEF ClickUpload, AtHand
<1>2. CASE tree.currentTreeName = NoName
  <2>1. modalVisible' = TRUE /\ UNCHANGED server
    BY <1>2 DEF ClickUpload
  <2>2. Naming(tree.currentTreeName, former', behaviorName', modalVisible')
    BY <1>1, <1>2, <2>1, Before DEF Naming
  <2> QED BY <1>1, <2>1, <2>2, DialogKeeps
<1>3. CASE tree.currentTreeName # NoName
  <2>1. Asks /\ uploads' = uploads \cup Uploads(tree, NoName) /\ UNCHANGED <<modalVisible, files, loads>>
    BY <1>3 DEF ClickUpload
  <2>2. tree' = nodeSave(tree, NoName)
    BY <1>1 DEF nodeSave
  <2>3. Naming(tree'.currentTreeName, former', behaviorName', modalVisible')
    BY <1>1, <2>1, Before
  <2> QED BY <1>1, <2>1, <2>2, <2>3, Before, SendKeeps
<1> QED BY <1>2, <1>3

\* A name is typed, and may be used again.
LEMMA ChangeKeeps ==
  ASSUME Inv, NEW name \in Name \cup {NoName}, behaviorNameChange(name)
  PROVE  Inv'
<1>1. /\ modalVisible /\ behaviorName' = name /\ former' = former \ {name}
      /\ UNCHANGED <<tree, mounted, canvas, BpNodes, tab, modalVisible, server, misled>>
  BY DEF behaviorNameChange
<1>2. Naming(tree.currentTreeName, former', behaviorName', modalVisible')
  BY <1>1, Before DEF Naming
<1> QED BY <1>1, <1>2, Before, DialogKeeps

\* The dialog is confirmed: it gives its name to the tree and is left empty.
LEMMA OkKeeps == ASSUME Inv, modalHandleOk PROVE Inv'
<1>1. /\ modalVisible /\ modalVisible' = FALSE /\ behaviorName' = NoName
      /\ UNCHANGED <<mounted, canvas, BpNodes, tab, former, misled>>
  BY DEF modalHandleOk
<1>2. CASE behaviorName = NoName
  <2>1. UNCHANGED <<tree, server>>
    BY <1>2 DEF modalHandleOk
  <2>2. Naming(tree.currentTreeName, former', behaviorName', modalVisible')
    BY <1>1, Before DEF Naming
  <2> QED BY <1>1, <2>1, <2>2, DialogKeeps
<1>3. CASE behaviorName # NoName
  <2>1. /\ Asks /\ tree' = nodeSave(tree, behaviorName)
        /\ uploads' = uploads \cup Uploads(tree, behaviorName) /\ UNCHANGED <<files, loads>>
    BY <1>3 DEF modalHandleOk
  <2>2. behaviorName \in Name \ former /\ former \subseteq Name
    BY <1>3, Before DEF Naming
  <2>3. tree'.currentTreeName = behaviorName
    BY <1>3, <2>1, <2>2, Before, SaveFollows
  <2>4. Naming(tree'.currentTreeName, former', behaviorName', modalVisible')
    BY <1>1, <2>2, <2>3 DEF Naming
  <2> QED BY <1>1, <2>1, <2>2, <2>4, SendKeeps
<1> QED BY <1>2, <1>3

\* The dialog is cancelled, and keeps its name.
LEMMA CancelKeeps == ASSUME Inv, modalHandleCancel PROVE Inv'
<1>1. /\ modalVisible' = FALSE
      /\ UNCHANGED <<tree, mounted, canvas, BpNodes, tab, behaviorName, server, former, misled>>
  BY DEF modalHandleCancel
<1>2. Naming(tree.currentTreeName, former', behaviorName', modalVisible')
  BY <1>1, Before DEF Naming
<1> QED BY <1>1, <1>2, DialogKeeps

-----------------------------------------------------------------------------
(* The server, and the page as it opens and closes. *)

\* Nothing is in flight or stored but what was before.
LEMMA ServerKeeps ==
  ASSUME Inv, misled => misled', DOMAIN files' = Name, uploads' \subseteq uploads,
         \A l \in loads' : /\ l = [by |-> l.by, name |-> l.name, read |-> l.read, file |-> l.file]
                           /\ l.name \in Name /\ l.file \in Stored \cup {NoFile},
         \A n \in Name : files'[n] \in Stored \cup {NoFile}
  PROVE  ServerInv' /\ StoredInv'
<1>1. \A F \in Stored' : F \in Stored \cup {NoFile}
  BY DEF Stored
<1>2. ServerInv'
  BY <1>1 DEF Inv, ServerInv
<1>3. StoredInv'
  BY <1>1 DEF Inv, StoredInv
<1> QED BY <1>2, <1>3

\* The page is left alone.
LEMMA PageSame ==
  ASSUME Inv, UNCHANGED <<tree, page, former, misled>>,
         calls' \in Nat, Len(tree.history) + calls' <= MaxWork
  PROVE  SliceInv' /\ PageInv' /\ DrawInv'
<1>1. /\ tree' = tree /\ mounted' = mounted /\ canvas' = canvas /\ BpNodes' = BpNodes /\ tab' = tab
      /\ former' = former /\ misled' = misled /\ modalVisible' = modalVisible /\ behaviorName' = behaviorName
  BY DEF page, dialog
<1>2. SliceInv'
  BY <1>1 DEF Inv, SliceInv
<1>3. PageInv'
  BY <1>1 DEF Inv, PageInv, MarkersActive, Cells
<1>4. DrawInv'
  BY <1>1 DEF Inv, DrawInv
<1> QED BY <1>2, <1>3, <1>4

\* What is stored, one by one.
LEMMA StoredFacts ==
  ASSUME Inv
  PROVE  /\ \A n \in Name : files[n] \in Stored
         /\ \A u \in uploads : u.file \in Stored /\ u.name \in Name
         /\ \A l \in loads : /\ l = [by |-> l.by, name |-> l.name, read |-> l.read, file |-> l.file]
                             /\ l.name \in Name /\ l.file \in Stored
         /\ DOMAIN files = Name
         /\ \A F \in Stored : F = NoFile \/ TreeFile(F)
         /\ misled \/ \A F \in Stored : F = NoFile \/ WellMounted(F)
BY DEF Inv, ServerInv, StoredInv, Stored

\* An upload arrives.
LEMMA UploadedKeeps == ASSUME Inv, Uploaded PROVE Inv'
<1>1. PICK u \in uploads :
        /\ uploads' = uploads \ {u} /\ files' = [files EXCEPT ![u.name] = u.file]
        /\ UNCHANGED <<tree, page, loads, calls, former, misled>>
  BY DEF Uploaded
<1>2. DOMAIN files' = Name /\ \A n \in Name : files'[n] = IF n = u.name THEN u.file ELSE files[n]
  BY <1>1, StoredFacts
<1>3. ServerInv' /\ StoredInv'
  BY <1>1, <1>2, StoredFacts, ServerKeeps
<1> QED BY <1>1, <1>3, Before, PageSame DEF Inv

\* An upload is lost.
LEMMA UploadFailsKeeps == ASSUME Inv, UploadFails PROVE Inv'
<1>1. /\ uploads' \subseteq uploads /\ UNCHANGED <<tree, page, files, loads, calls, former, misled>>
  BY DEF UploadFails
<1>2. ServerInv' /\ StoredInv'
  BY <1>1, StoredFacts, ServerKeeps
<1> QED BY <1>1, <1>2, Before, PageSame DEF Inv

\* A load asked for.
LEMMA AskKeeps ==
  ASSUME Inv, NEW by, NEW name \in Name, UNCHANGED <<files, uploads, misled>>,
         loads' = loads \cup {[by |-> by, name |-> name, read |-> FALSE, file |-> NoFile]}
  PROVE  ServerInv' /\ StoredInv'
BY StoredFacts, ServerKeeps

\* A load is asked for on the bots page.
LEMMA ClickLoadKeeps == ASSUME Inv, NEW name \in Name, ClickLoad(name) PROVE Inv'
<1>1. /\ Len(tree.history) + calls < MaxWork /\ calls' = calls + 1
      /\ loads' = loads \cup {[by |-> "bots", name |-> name, read |-> FALSE, file |-> NoFile]}
      /\ UNCHANGED <<tree, page, files, uploads, former, misled>>
  BY DEF ClickLoad, Asks
<1>2. calls' \in Nat /\ Len(tree.history) + calls' <= MaxWork
  BY <1>1, Before
<1> QED BY <1>1, <1>2, AskKeeps, PageSame DEF Inv

\* The server reads the file a load asks for.
LEMMA ReadKeeps == ASSUME Inv, Read PROVE Inv'
<1>1. PICK l \in loads :
        /\ loads' = (loads \ {l}) \cup {[l EXCEPT !.read = TRUE, !.file = files[l.name]]}
        /\ UNCHANGED <<tree, page, files, uploads, calls, former, misled>>
  BY DEF Read
<1> DEFINE f   == files[l.name]
           new == [l EXCEPT !.read = TRUE, !.file = f]
<1>2. l = [by |-> l.by, name |-> l.name, read |-> l.read, file |-> l.file] /\ l.name \in Name
  BY StoredFacts
<1>3. f \in Stored /\ loads' = (loads \ {l}) \cup {new}
  BY <1>1, <1>2, StoredFacts
<1> HIDE DEF f
<1>4. new = [by |-> l.by, name |-> l.name, read |-> TRUE, file |-> f]
  <2>1. new = [[l EXCEPT !.read = TRUE] EXCEPT !.file = f]
    BY <1>2
  <2> HIDE DEF new
  <2> QED BY <1>2, <2>1
<1> HIDE DEF new
<1>5. /\ new = [by |-> new.by, name |-> new.name, read |-> new.read, file |-> new.file]
      /\ new.name \in Name /\ new.file \in Stored
  BY <1>2, <1>3, <1>4
<1>6. ServerInv' /\ StoredInv'
  BY <1>1, <1>3, <1>5, StoredFacts, ServerKeeps
<1> QED BY <1>1, <1>6, Before, PageSame DEF Inv

\* The answer of a load: the tree of the file, drawn where a page opens or the
\* page itself has asked for it.
LEMMA LoadedKeeps == ASSUME Inv, Loaded PROVE Inv'
<1>1. PICK l \in loads :
        /\ l.read /\ loads' = loads \ {l} /\ UNCHANGED <<files, uploads, calls>>
        /\ IF l.file = NoFile THEN UNCHANGED <<tree, page, former, misled>>
           ELSE LET st == initTree(tree, LoadBehaviorWithFile(l.file)) IN
                /\ tree' = st /\ former' = WithFormer
                /\ CASE l.by = "share" -> canvas' = Draw(st.nodes) /\ UNCHANGED <<mounted, BpNodes, tab, dialog, misled>>
                     [] l.by = "bots" /\ ~mounted ->
                          /\ canvas' = Draw(st.nodes) /\ mounted' = TRUE /\ UNCHANGED <<BpNodes, dialog, misled>>
                          /\ tab' = Form(st)
                     [] OTHER -> misled' = (misled \/ mounted) /\ UNCHANGED page
  BY DEF Loaded
<1>2. CASE l.file = NoFile
  <2>1. UNCHANGED <<tree, page, former, misled>>
    BY <1>1, <1>2
  <2>2. ServerInv' /\ StoredInv'
    BY <1>1, <2>1, StoredFacts, ServerKeeps
  <2> QED BY <1>1, <2>1, <2>2, Before, PageSame DEF Inv
<1>3. CASE l.file # NoFile
  <2> DEFINE T  == LoadBehaviorWithFile(l.file)
             st == initTree(tree, T)
  <2>1. tree' = st /\ former' = WithFormer
    BY <1>1, <1>3
  <2>2. \/ canvas' = Draw(st.nodes) /\ UNCHANGED <<mounted, BpNodes, tab, dialog, misled>>
        \/ canvas' = Draw(st.nodes) /\ mounted' = TRUE /\ UNCHANGED <<BpNodes, dialog, misled>> /\ tab' = Form(st)
        \/ misled' = (misled \/ mounted) /\ UNCHANGED page
    BY <1>1, <1>3
  <2>3. TreeFile(T) /\ (misled \/ WellMounted(T))
    BY <1>3, StoredFacts, LoadedFile
  <2> HIDE DEF T
  <2>4. IsSlice(tree) /\ tree.currentClickNode \in Id \cup {NoId} /\ tree.updatetick \in BOOLEAN
    BY Before DEF SliceOK, Good
  <2>5. /\ SliceOK(st) /\ st.history = <<>> /\ st.nodes = T
        /\ st.currentTreeName = NoName /\ st.updatetick = tree.updatetick
        /\ misled \/ Mounted(st)
    BY <2>3, <2>4, InitFollows
  <2> HIDE DEF st
  <2>6. IsForest(T) /\ CanvasOK(Draw(T)) /\ Agrees(T, Draw(T)) /\ Draw(T).cells \subseteq Id
    BY <2>3, DrawFacts DEF TreeFile, IsForest
  <2>7. \A x \in Id : Marker(x) \notin Draw(T).cells
    BY <2>6, MarkerFacts
  <2>8. SliceInv'
    <3>1. Len(tree'.history) = 0
      BY <2>1, <2>5
    <3>2. calls' \in Nat /\ Len(tree'.history) + calls' <= MaxWork
      BY <1>1, <3>1, Before
    <3>3. /\ SliceOK(tree') /\ tree'.updatetick = FALSE /\ tree'.currentTreeName = NoName
      BY <2>1, <2>5, Before DEF Inv, SliceInv
    <3>4. modalVisible' = modalVisible /\ behaviorName' = behaviorName
      BY <2>2 DEF page, dialog
    <3>5. Naming(tree'.currentTreeName, former', behaviorName', modalVisible')
      BY <2>1, <3>3, <3>4, FormerName
    <3> QED BY <3>2, <3>3, <3>5 DEF SliceInv
  <2>9. Form(st) \in Id \cup {NoId}
    BY <2>5 DEF Form, SliceOK
  <2>10. PageInv'
    <3>1. modalVisible' \in BOOLEAN /\ (modalVisible' => mounted')
      BY <2>2, Before DEF page, dialog
    <3>2. /\ mounted' \in BOOLEAN /\ misled' \in BOOLEAN
          /\ BpNodes' \subseteq Id /\ tab' \in Id \cup {NoId}
      BY <2>2, <2>9 DEF Inv, PageInv, page
    <3>3. CanvasOK(canvas') /\ MarkersActive'
      BY <2>2, <2>5, <2>6, <2>7 DEF Inv, PageInv, MarkersActive, Cells, page
    <3> QED BY <3>1, <3>2, <3>3 DEF PageInv
  <2>11. DrawInv'
    BY <2>1, <2>2, <2>5, <2>6 DEF Inv, PageInv, DrawInv, page
  <2>12. misled => misled'
    BY <2>2
  <2>13. ServerInv' /\ StoredInv'
    BY <1>1, <2>12, StoredFacts, ServerKeeps
  <2> QED BY <2>8, <2>10, <2>11, <2>13 DEF Inv
<1> QED BY <1>2, <1>3

\* The page opens and draws the slice.
LEMMA MountKeeps == ASSUME Inv, NEW name \in Name \cup {NoName}, Mount(name) PROVE Inv'
<1>1. /\ ~mounted /\ mounted' = TRUE /\ redrawTree(tree) /\ tab' = Form(tree)
      /\ BpNodes' = BpNodes /\ files' = files /\ uploads' = uploads /\ former' = former /\ misled' = misled
      /\ modalVisible' = modalVisible /\ behaviorName' = behaviorName
      /\ \/ loads' = loads /\ calls' = calls
         \/ /\ name \in Name /\ Len(tree.history) + calls < MaxWork /\ calls' = calls + 1
            /\ loads' = loads \cup {[by |-> "share", name |-> name, read |-> FALSE, file |-> NoFile]}
  BY DEF Mount, Asks, dialog
<1>2. /\ SliceOK(tree') /\ tree'.updatetick = FALSE /\ Len(tree'.history) <= Len(tree.history)
      /\ tree'.currentTreeName \in {tree.currentTreeName, NoName}
      /\ Mounted(tree) => Mounted(tree')
      /\ CanvasOK(canvas') /\ Agrees(tree'.nodes, canvas') /\ canvas'.cells \subseteq Id
  BY <1>1, Before, RedrawFacts
<1>3. Len(tree'.history) \in Nat
  BY <1>2, NodesFine
<1>4. SliceInv'
  BY <1>1, <1>2, <1>3, Before DEF SliceInv, Naming
<1>5. Form(tree) \in Id \cup {NoId}
  BY Before DEF Form, SliceOK
<1>6. PageInv'
  BY <1>1, <1>2, <1>5, MarkerFacts DEF Inv, PageInv, MarkersActive, Cells
<1>7. DrawInv'
  BY <1>1, <1>2, Before DEF DrawInv
<1>8. ServerInv' /\ StoredInv'
  <2>1. CASE loads' = loads
    BY <1>1, <2>1, ServerSame
  <2>2. CASE loads' # loads
    BY <1>1, <2>2, AskKeeps
  <2> QED BY <2>1, <2>2
<1> QED BY <1>4, <1>6, <1>7, <1>8 DEF Inv

\* The page is left: its canvas and its breakpoints are gone.
LEMMA UnmountKeeps == ASSUME Inv, Unmount PROVE Inv'
<1>1. /\ mounted' = FALSE /\ canvas' = NoCanvas /\ BpNodes' = {} /\ tab' = NoId
      /\ modalVisible' = FALSE /\ behaviorName' = NoName
      /\ loads' = {[l EXCEPT !.by = IF @ = "share" THEN "gone" ELSE @] : l \in loads}
      /\ UNCHANGED <<tree, files, uploads, calls, former, misled>>
  BY DEF Unmount
<1>2. SliceInv'
  BY <1>1 DEF Inv, SliceInv, Naming
<1>3. CanvasOK(canvas') /\ canvas'.cells = {}
  BY <1>1 DEF CanvasOK, NoCanvas
<1>4. PageInv'
  BY <1>1, <1>3 DEF Inv, PageInv, MarkersActive, Cells
<1>5. DrawInv'
  BY <1>1 DEF Inv, DrawInv
<1>6. \A l \in loads' : /\ l = [by |-> l.by, name |-> l.name, read |-> l.read, file |-> l.file]
                        /\ l.name \in Name /\ l.file \in Stored
  <2> SUFFICES ASSUME NEW k \in loads,
                      NEW l, l = [k EXCEPT !.by = IF @ = "share" THEN "gone" ELSE @]
               PROVE  /\ l = [by |-> l.by, name |-> l.name, read |-> l.read, file |-> l.file]
                      /\ l.name \in Name /\ l.file \in Stored
    BY <1>1
  <2> DEFINE b == IF k.by = "share" THEN "gone" ELSE k.by
  <2>1. k = [by |-> k.by, name |-> k.name, read |-> k.read, file |-> k.file]
    BY StoredFacts
  <2>2. l = [k EXCEPT !.by = b]
    OBVIOUS
  <2> HIDE DEF b
  <2>3. l = [by |-> b, name |-> k.name, read |-> k.read, file |-> k.file]
    BY <2>1, <2>2
  <2> QED BY <2>3, StoredFacts
<1>7. ServerInv' /\ StoredInv'
  BY <1>1, <1>6, StoredFacts, ServerKeeps
<1> QED BY <1>2, <1>4, <1>5, <1>7 DEF Inv

-----------------------------------------------------------------------------
\* The invariant at the start.
LEMMA InitInv == Init => Inv
<1> SUFFICES ASSUME Init PROVE Inv
  OBVIOUS
<1>1. /\ TreeInit /\ mounted = FALSE /\ canvas = NoCanvas /\ BpNodes = {} /\ tab = NoId
      /\ files = Disk /\ uploads = {} /\ loads = {} /\ calls = 0 /\ former = {} /\ misled = FALSE
      /\ modalVisible = FALSE /\ behaviorName = NoName
  BY DEF Init
<1>2. /\ Good(tree) /\ tree.nodes = Empty /\ tree.history = <<>> /\ tree.rootid = NoId
      /\ tree.currentTreeName = NoName /\ tree.currentClickNode = NoId /\ tree.updatetick = FALSE
  BY <1>1, InitGood DEF TreeInit
<1>3. Len(tree.history) = 0 /\ MaxWork \in Nat
  BY <1>2, GraphAssumption
<1>4. SliceInv
  <2>1. SliceOK(tree)
    BY <1>2 DEF SliceOK
  <2>2. calls \in Nat /\ Len(tree.history) + calls <= MaxWork
    BY <1>1, <1>3
  <2> QED BY <1>1, <1>2, <2>1, <2>2 DEF SliceInv, Naming
<1>5. CanvasOK(canvas) /\ canvas.cells = {}
  BY <1>1 DEF CanvasOK, NoCanvas
<1>6. PageInv
  BY <1>1, <1>5 DEF PageInv, MarkersActive, Cells
<1>7. DrawInv
  <2>1. VersionsOf(tree) = {Empty}
    BY <1>2 DEF VersionsOf, Elements
  <2>2. WellMounted(Empty)
    BY DEF WellMounted, Empty
  <2> QED BY <1>1, <2>1, <2>2 DEF DrawInv, Mounted
<1>8. Stored \subseteq Trees \cup {NoFile} /\ DOMAIN files = Name
  BY <1>1, DiskAssumption DEF Stored
<1>9. \A T \in Trees : TreeFile(T) /\ WellMounted(T)
  BY TreeAssumption, DiskAssumption DEF TreeFile, Only
<1>10. ServerInv /\ StoredInv
  BY <1>1, <1>8, <1>9 DEF ServerInv, StoredInv
<1> QED BY <1>4, <1>6, <1>7, <1>10 DEF Inv

\* The invariant in every step.
LEMMA NextInv == Inv /\ [Next]_vars => Inv'
<1> SUFFICES ASSUME Inv, [Next]_vars PROVE Inv'
  OBVIOUS
<1>1. CASE UNCHANGED vars
  <2>1. UNCHANGED <<tree, page, former, misled, files, uploads, loads, calls>>
    BY <1>1 DEF vars, server
  <2> QED BY <2>1, Before, PageSame, ServerSame DEF Inv
<1>2. ASSUME NEW x \in Id, Drop(x) PROVE Inv'
  BY <1>2, DropKeeps
<1>3. ASSUME NEW s \in Cells, NEW t \in Cells, Connect(s, t) PROVE Inv'
  BY <1>3, ConnectKeeps
<1>4. ASSUME NEW e \in canvas.edges, NEW f \in Cells \X Cells, Reconnect(e, f) PROVE Inv'
  BY <1>4, ReconnectKeeps
<1>5. ASSUME NEW e \in canvas.edges, RemoveEdge(e) PROVE Inv'
  BY <1>5, RemoveEdgeKeeps
<1>6. ASSUME NEW c \in Cells, NEW d \in Cells, ClickDel(c, d) PROVE Inv'
  BY <1>6, ClickDelKeeps
<1>7. ASSUME NEW c \in Cells, NEW at \in Positions, Move(c, at) PROVE Inv'
  BY <1>7, MoveKeeps
<1>8. ASSUME NEW x \in Id \cup {NoId}, Click(x) PROVE Inv'
  BY <1>8, ClickKeeps
<1>9. ASSUME NEW text \in Texts, Apply(text) PROVE Inv'
  BY <1>9, ApplyKeeps
<1>10. CASE ClickUndo
  BY <1>10, UndoKeeps
<1>11. CASE CleanTree
  BY <1>11, CleanKeeps
<1>12. CASE ToggleBreakpoint
  BY <1>12, ToggleKeeps
<1>13. CASE ClickUpload
  BY <1>13, UploadKeeps
<1>14. ASSUME NEW name \in Name \cup {NoName}, Mount(name) PROVE Inv'
  BY <1>14, MountKeeps
<1>15. CASE Uploaded
  BY <1>15, UploadedKeeps
<1>16. CASE UploadFails
  BY <1>16, UploadFailsKeeps
<1>17. ASSUME NEW name \in Name, ClickLoad(name) PROVE Inv'
  BY <1>17, ClickLoadKeeps
<1>18. CASE Read
  BY <1>18, ReadKeeps
<1>19. CASE Loaded
  BY <1>19, LoadedKeeps
<1>20. CASE Unmount
  BY <1>20, UnmountKeeps
<1>21. ASSUME NEW name \in Name \cup {NoName}, behaviorNameChange(name) PROVE Inv'
  BY <1>21, ChangeKeeps
<1>22. CASE modalHandleOk
  BY <1>22, OkKeeps
<1>23. CASE modalHandleCancel
  BY <1>23, CancelKeeps
<1> QED
  BY <1>1, <1>2, <1>3, <1>4, <1>5, <1>6, <1>7, <1>8, <1>9, <1>10, <1>11, <1>12, <1>13, <1>14,
     <1>15, <1>16, <1>17, <1>18, <1>19, <1>20, <1>21, <1>22, <1>23 DEF Next

\* The invariant, always.
LEMMA AlwaysInv == Spec => []Inv
<1> QED BY InitInv, NextInv, PTL DEF Spec
-----------------------------------------------------------------------------
(* The page's state keeps its types, every reducer is followed by its redraw *)
(* (graph.tsx:541-679), and an embedding is one of cells there are.        *)
THEOREM EditorTypeCorrect == Spec => []TypeOK
<1>1. Inv => TypeOK
  <2> SUFFICES ASSUME Inv PROVE TypeOK
    OBVIOUS
  <2>1. Len(tree.history) <= MaxWork
    BY Before
  <2>2. \A u \in uploads : u.name \in Name /\ IsForest(u.file)
    BY DEF Inv, ServerInv, TreeFile
  <2>3. /\ mounted \in BOOLEAN /\ misled \in BOOLEAN /\ tree.updatetick = FALSE
        /\ DOMAIN canvas.parent = Cells /\ Cells \subseteq Id \cup Markers
        /\ canvas.edges \subseteq Cells \X Cells /\ canvas.before \subseteq Cells \X Cells
        /\ BpNodes \subseteq Id /\ tab \in Id \cup {NoId} /\ former \subseteq Name
        /\ behaviorName \in Name \cup {NoName} /\ (modalVisible => mounted)
    BY DEF Inv, SliceInv, PageInv, CanvasOK, Cells, Naming
  <2>4. /\ tree.currentTreeName \in Name \cup {NoName} /\ tree.currentClickNode \in Id \cup {NoId}
        /\ tree.rootid \in Id \cup {NoId}
    BY Before DEF SliceOK
  <2> QED BY <2>1, <2>2, <2>3, <2>4 DEF TypeOK
<1> QED BY <1>1, AlwaysInv, PTL

(* The canvas of an open page shows every node of the store, embedded where *)
(* the store has it, until a late answer has replaced the tree             *)
(* (graph.tsx:139-172, 541-679; CHANGELOG.md:66).                          *)
THEOREM CanvasShowsTree == Spec => []EmbeddingAgrees
<1>1. Inv => EmbeddingAgrees
  BY DEF Inv, DrawInv, Agrees, EmbeddingAgrees, DrawnFromTree, Cells
<1> QED BY <1>1, AlwaysInv, PTL

(* A script node mounts one node at most and no node mounts a Root, in every *)
(* version of the store and in every file, until a late answer has replaced *)
(* the tree under the canvas (graph.tsx:139-172).                          *)
THEOREM MountedOnce == Spec => []SingleMount
<1>1. Inv => SingleMount
  <2> SUFFICES ASSUME Inv, ~misled PROVE SingleMount
    BY DEF SingleMount
  <2>1. \A F \in Versions : WellMounted(F)
    BY Before DEF Mounted, VersionsOf, Versions
  <2>2. \A n \in Name : files[n] # NoFile => WellMounted(files[n])
    BY StoredFacts
  <2> QED BY <2>1, <2>2 DEF SingleMount
<1> QED BY <1>1, AlwaysInv, PTL

(* No breakpoint marker outlives its entry in BpNodes (graph.tsx:790-830). *)
THEOREM MarkersStop == Spec => []MarkersActive
<1>1. Inv => MarkersActive
  BY DEF Inv, PageInv
<1> QED BY <1>1, AlwaysInv, PTL

(* What the server holds is one whole tree with a Root on top, however edits, *)
(* uploads and loads overlap (tree.ts:200-233, 282-299).                   *)
THEOREM StoredTreesWhole == Spec => []FilesAreTrees
<1>1. Inv => FilesAreTrees
  BY StoredFacts DEF FilesAreTrees, TreeFile
<1> QED BY <1>1, AlwaysInv, PTL

(* Nothing the page does takes the slice from a forest, or mixes the Root of *)
(* another file into what undo brings back (graph.tsx, tree.ts:37-167).    *)
THEOREM EditorForests == Spec => [](ForestInv /\ OneRoot)
<1>1. Inv => ForestInv /\ OneRoot
  BY DEF Inv, SliceInv, SliceOK, Good, Fine, Only, ForestInv, OneRoot, Versions
<1> QED BY <1>1, AlwaysInv, PTL

(* A step that uploads a tree does so under a name that is not that of a   *)
(* former tree, unless the user has typed it again: neither the name of the *)
(* slice, which a clean, a load and a redraw of nothing drop, nor what the *)
(* dialog has kept of an earlier call (tree.ts:200-233, 310-323;           *)
(* graph.tsx:740-748, 917-933).                                            *)
THEOREM SavesOwnTree == Spec => NoForeignOverwrite
<1>1. Inv /\ [Next]_vars => [\A u \in uploads' \ uploads : u.name \notin former]_vars
  <2> SUFFICES ASSUME Inv, Next PROVE \A u \in uploads' \ uploads : u.name \notin former
    OBVIOUS
  <2>1. CASE ClickUpload
    <3>1. uploads' = uploads \/ uploads' = uploads \cup Uploads(tree, NoName)
      BY <2>1 DEF ClickUpload, server
    <3>2. \A u \in Uploads(tree, NoName) : u.name \in Name /\ u.name = tree.currentTreeName
      BY Before, SaveFollows
    <3> QED BY <3>1, <3>2, Before, TreeAssumption DEF Naming
  <2>2. CASE modalHandleOk
    <3>1. \/ uploads' = uploads
          \/ behaviorName # NoName /\ uploads' = uploads \cup Uploads(tree, behaviorName)
      BY <2>2 DEF modalHandleOk, server
    <3>2. behaviorName \in (Name \ former) \cup {NoName}
      BY Before DEF Naming
    <3>3. behaviorName # NoName => \A u \in Uploads(tree, behaviorName) : u.name = behaviorName
      BY <3>2, Before, SaveFollows
    <3> QED BY <3>1, <3>2, <3>3
  <2>3. CASE ~ClickUpload /\ ~modalHandleOk
    <3>1. uploads' \subseteq uploads
      BY <2>3 DEF Next, Drop, Connect, Reconnect, RemoveEdge, ClickDel, Move, Click, Apply, ClickUndo,
                CleanTree, ToggleBreakpoint, behaviorNameChange, modalHandleCancel, Mount, Uploaded,
                UploadFails, ClickLoad, Read, Loaded, Unmount, server
    <3> QED BY <3>1
  <2> QED BY <2>1, <2>2, <2>3
<1> QED BY <1>1, AlwaysInv, PTL DEF Spec, NoForeignOverwrite
=============================================================================
