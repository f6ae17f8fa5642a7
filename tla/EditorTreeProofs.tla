-------------------------- MODULE EditorTreeProofs --------------------------
(***************************************************************************)
(* The forest of the editor's slice stays a forest, for any set of ids,    *)
(* any types and texts, and any length of the history.                     *)
(*                                                                         *)
(* Below(F, x) is defined as the least set that holds x and is closed      *)
(* under children, and "reached from Top" by a quantifier over closed      *)
(* sets, so every argument about a moved or cut subtree is one about a     *)
(* closed set and needs no induction on the tree.                          *)
(***************************************************************************)
EXTENDS EditorTree, TLAPS

Distinct(s) == \A i, j \in DOMAIN s : s[i] = s[j] => i = j

\* What splice leaves: the other elements, each once.
LEMMA WithoutKeeps ==
  ASSUME NEW A, NEW s \in Seq(A), NEW x, Distinct(s)
  PROVE  /\ Without(s, x) \in Seq(A)
         /\ Elements(Without(s, x)) = Elements(s) \ {x}
         /\ Distinct(Without(s, x))
<1>1. CASE x \notin Elements(s)
  BY <1>1 DEF Without
<1>2. CASE x \in Elements(s)
  <2> DEFINE at == CHOOSE i \in DOMAIN s : s[i] = x
             w  == [i \in 1..(Len(s) - 1) |-> IF i < at THEN s[i] ELSE s[i + 1]]
  <2>1. at \in DOMAIN s /\ s[at] = x
    BY <1>2 DEF Elements
  <2>2. DOMAIN s = 1..Len(s) /\ Len(s) \in Nat /\ Len(s) > 0 /\ \A i \in DOMAIN s : s[i] \in A
    BY <2>1
  <2>3. Without(s, x) = w
    BY <1>2 DEF Without
  <2> HIDE DEF at
  <2>4. \A i \in 1..(Len(s) - 1) : w[i] = s[IF i < at THEN i ELSE i + 1]
    OBVIOUS
  <2>5. w \in Seq(A)
    <3>1. w \in [1..(Len(s) - 1) -> A]
      BY <2>1, <2>2
    <3>2. Len(s) - 1 \in Nat
      BY <2>2
    <3> QED BY <3>1, <3>2, SMT
  <2>6. DOMAIN w = 1..(Len(s) - 1)
    OBVIOUS
  <2>7. Distinct(w)
    BY <2>1, <2>2, <2>4, <2>6 DEF Distinct
  <2>8. ASSUME NEW i \in DOMAIN w PROVE w[i] \in Elements(s) \ {x}
    <3> DEFINE k == IF i < at THEN i ELSE i + 1
    <3>1. k \in DOMAIN s /\ k # at
      BY <2>1, <2>2, <2>6
    <3> QED BY <3>1, <2>1, <2>4, <2>6 DEF Elements, Distinct
  <2>9. ASSUME NEW i \in DOMAIN s, s[i] # x PROVE \E k \in DOMAIN w : w[k] = s[i]
    <3>1. i # at
      BY <2>1, <2>9
    <3>2. CASE i < at
      BY <3>2, <2>1, <2>2, <2>4, <2>6
    <3>3. CASE i > at
      <4>1. i - 1 \in DOMAIN w /\ ~(i - 1 < at) /\ (i - 1) + 1 = i
        BY <3>3, <2>1, <2>2, <2>6
      <4> QED BY <4>1, <2>4, <2>6
    <3> QED BY <3>1, <3>2, <3>3, <2>1, <2>2
  <2>10. Elements(w) = Elements(s) \ {x}
    BY <2>8, <2>9 DEF Elements
  <2> QED BY <2>3, <2>5, <2>7, <2>10
<1> QED BY <1>1, <1>2

\* A sequence is one over what it holds.
LEMMA OwnElements == ASSUME NEW A, NEW s \in Seq(A) PROVE s \in Seq(Elements(s))
<1>1. s \in [1..Len(s) -> A] /\ Len(s) \in Nat /\ DOMAIN s = 1..Len(s)
  OBVIOUS
<1>2. \A i \in 1..Len(s) : s[i] \in Elements(s)
  BY <1>1 DEF Elements
<1>3. s \in [1..Len(s) -> Elements(s)]
  BY <1>1, <1>2
<1> QED BY <1>1, <1>3

\* What push adds.
LEMMA AppendAdds ==
  ASSUME NEW A, NEW s \in Seq(A), NEW x
  PROVE  /\ Append(s, x) \in Seq(A \cup {x})
         /\ Elements(Append(s, x)) = Elements(s) \cup {x}
         /\ Distinct(s) /\ x \notin Elements(s) => Distinct(Append(s, x))
<1> DEFINE t == Append(s, x)
<1>1. Len(s) \in Nat /\ DOMAIN s = 1..Len(s) /\ DOMAIN t = 1..(Len(s) + 1)
  OBVIOUS
<1>2. \A i \in DOMAIN t : t[i] = IF i \in DOMAIN s THEN s[i] ELSE x
  BY <1>1
<1>3. t[Len(s) + 1] = x /\ Len(s) + 1 \in DOMAIN t
  BY <1>1
<1>4. t \in Seq(A \cup {x})
  OBVIOUS
<1> HIDE DEF t
<1>5. Elements(t) = Elements(s) \cup {x}
  BY <1>1, <1>2, <1>3 DEF Elements
<1>6. Distinct(s) /\ x \notin Elements(s) => Distinct(t)
  BY <1>1, <1>2, <1>3 DEF Elements, Distinct
<1> QED BY <1>4, <1>5, <1>6 DEF t
-----------------------------------------------------------------------------
(* Below. *)

\* What is below a node is closed under children, and only the node itself has its parent elsewhere.
LEMMA BelowFacts ==
  ASSUME NEW F, IsForest(F), NEW x \in Ids(F)
  PROVE  /\ x \in Below(F, x) /\ Below(F, x) \subseteq Ids(F)
         /\ Closed(F, Below(F, x))
         /\ \A y \in DOMAIN F.kids \ Below(F, x) : Children(F, y) \cap Below(F, x) \subseteq {x}
<1> DEFINE B == Below(F, x)
<1>1. x \in B /\ B \subseteq DOMAIN F.kids
  BY DEF Below, Ids
<1>2. \A y \in DOMAIN F.kids : Children(F, y) \subseteq Ids(F)
  BY DEF IsForest, Children, Elements
<1>3. B \subseteq Ids(F)
  <2>1. Ids(F) \in SUBSET DOMAIN F.kids /\ x \in Ids(F) /\ Closed(F, Ids(F))
    BY <1>2 DEF Ids, Closed
  <2> QED BY <2>1 DEF Below
<1>4. Closed(F, B)
  <2> SUFFICES ASSUME NEW y \in B, NEW z \in Children(F, y) PROVE z \in B
    BY DEF Closed
  <2>1. z \in DOMAIN F.kids
    BY <1>1, <1>2 DEF Ids
  <2>2. ASSUME NEW S \in SUBSET DOMAIN F.kids, x \in S, Closed(F, S) PROVE z \in S
    <3>1. y \in S
      BY <2>2 DEF Below
    <3> QED BY <3>1, <2>2 DEF Closed
  <2> QED BY <2>1, <2>2 DEF Below
<1>5. ASSUME NEW y \in DOMAIN F.kids \ B, NEW z \in Children(F, y), z \in B PROVE z = x
  <2> SUFFICES ASSUME z # x PROVE FALSE
    OBVIOUS
  <2> DEFINE S == B \ {z}
  <2>1. \A w \in B : z \notin Children(F, w)
    BY <1>1, <1>5 DEF IsForest
  <2>2. S \in SUBSET DOMAIN F.kids /\ x \in S
    BY <1>1
  <2>3. Closed(F, S)
    BY <1>4, <2>1 DEF Closed
  <2> QED BY <2>2, <2>3, <1>5 DEF Below
<1> QED BY <1>1, <1>3, <1>4, <1>5
-----------------------------------------------------------------------------
(* The operations on forests. *)

\* No root of another file among the nodes of F.
Only(F, r) == \A x \in Ids(F) : Ty[x] = "Root" => x = r
Fine(F, r) == IsForest(F) /\ Only(F, r)

\* No node at all is a forest.
LEMMA EmptyForest == IsForest(Empty) /\ Ids(Empty) = {}
<1>1. DOMAIN Empty.kids = {Top} /\ DOMAIN Empty.info = {} /\ Empty.kids[Top] = <<>>
  BY DEF Empty
<1>2. Ids(Empty) = {} /\ Children(Empty, Top) = {} /\ <<>> \in Seq({})
  BY <1>1 DEF Ids, Children, Elements
<1> HIDE DEF Empty
<1>3. \A i, j \in DOMAIN Empty.kids[Top] : i = j
  BY <1>1
<1>4. \A S \in SUBSET {Top} : Top \in S => S = {Top}
  OBVIOUS
<1> QED BY <1>1, <1>2, <1>3, <1>4 DEF IsForest

\* A node added at the end of state.nodes.
LEMMA AddForest ==
  ASSUME NEW F, IsForest(F), NEW x \in Id \ Ids(F), NEW info
  PROVE  IsForest(add(F, x, info)) /\ Ids(add(F, x, info)) = Ids(F) \cup {x}
<1> DEFINE G == add(F, x, info)
<1>a. x # Top /\ x \notin DOMAIN F.kids /\ Top \in DOMAIN F.kids
  BY TreeAssumption DEF IsForest, Ids
<1>1. /\ DOMAIN G.kids = DOMAIN F.kids \cup {x} /\ DOMAIN G.info = DOMAIN F.info \cup {x}
      /\ G.kids[x] = <<>> /\ G.kids[Top] = Append(F.kids[Top], x)
      /\ \A y \in DOMAIN F.kids \ {Top} : G.kids[y] = F.kids[y]
  BY <1>a DEF add
<1> HIDE DEF G
<1>2. Ids(G) = Ids(F) \cup {x}
  BY <1>1, <1>a DEF Ids
<1>3. \A y \in DOMAIN F.kids : F.kids[y] \in Seq(Ids(F)) /\ Distinct(F.kids[y]) /\ x \notin Children(F, y)
  BY DEF IsForest, Distinct, Children, Elements
<1>4. /\ G.kids[Top] \in Seq(Ids(G)) /\ Distinct(G.kids[Top])
      /\ Children(G, Top) = Children(F, Top) \cup {x}
  <2>1. F.kids[Top] \in Seq(Ids(F)) /\ Distinct(F.kids[Top]) /\ x \notin Elements(F.kids[Top])
    BY <1>3, <1>a DEF Children
  <2>2. /\ Append(F.kids[Top], x) \in Seq(Ids(F) \cup {x})
        /\ Elements(Append(F.kids[Top], x)) = Elements(F.kids[Top]) \cup {x}
        /\ Distinct(Append(F.kids[Top], x))
    BY <2>1, AppendAdds
  <2> QED BY <2>2, <1>1, <1>2 DEF Children
<1>5. G.kids[x] \in Seq(Ids(G)) /\ Distinct(G.kids[x]) /\ Children(G, x) = {}
  BY <1>1 DEF Distinct, Children, Elements
<1>6. \A y \in DOMAIN F.kids \ {Top} :
        G.kids[y] \in Seq(Ids(G)) /\ Distinct(G.kids[y]) /\ Children(G, y) = Children(F, y)
  BY <1>1, <1>2, <1>3 DEF Children
<1>7. \A y, z \in DOMAIN G.kids : y # z => Children(G, y) \cap Children(G, z) = {}
  BY <1>1, <1>3, <1>4, <1>5, <1>6, <1>a DEF IsForest
<1>8. ASSUME NEW S \in SUBSET DOMAIN G.kids, Top \in S, Closed(G, S) PROVE S = DOMAIN G.kids
  <2>1. x \in S /\ S \ {x} \in SUBSET DOMAIN F.kids /\ Top \in S \ {x}
    BY <1>1, <1>4, <1>8, <1>a DEF Closed
  <2>2. Closed(F, S \ {x})
    BY <1>1, <1>3, <1>4, <1>6, <1>8, <1>a DEF Closed
  <2> QED BY <2>1, <2>2, <1>1 DEF IsForest
<1>9. \A y \in DOMAIN G.kids : G.kids[y] \in Seq(Ids(G)) /\ Distinct(G.kids[y])
  BY <1>1, <1>4, <1>5, <1>6
<1> QED BY <1>1, <1>2, <1>7, <1>8, <1>9, <1>a DEF IsForest, Distinct, G

\* A node taken out with what is below it.
LEMMA CutForest ==
  ASSUME NEW F, IsForest(F), NEW x
  PROVE  IsForest(_cut(F, x)) /\ Ids(_cut(F, x)) \subseteq Ids(F)
<1>1. CASE x \notin Ids(F)
  BY <1>1 DEF _cut
<1>2. CASE x \in Ids(F)
  <2> DEFINE B == Below(F, x)
             G == _cut(F, x)
  <2>1. /\ x \in B /\ B \subseteq Ids(F) /\ Closed(F, B)
        /\ \A y \in DOMAIN F.kids \ B : Children(F, y) \cap B \subseteq {x}
    BY <1>2, BelowFacts
  <2> HIDE DEF B
  <2>2. Top \in DOMAIN F.kids /\ Top \notin Ids(F) /\ DOMAIN F.info = Ids(F) /\ Ids(F) \subseteq Id
    BY DEF IsForest, Ids
  <2>3. /\ DOMAIN G.kids = (Ids(F) \ B) \cup {Top} /\ DOMAIN G.info = Ids(F) \ B
        /\ \A y \in DOMAIN G.kids : y \in DOMAIN F.kids \ B /\ G.kids[y] = Without(F.kids[y], x)
    BY <1>2, <2>1, <2>2 DEF _cut, Keep, B, Ids
  <2> HIDE DEF G
  <2>4. Ids(G) = Ids(F) \ B
    BY <2>2, <2>3 DEF Ids
  <2>5. ASSUME NEW y \in DOMAIN G.kids
        PROVE  /\ G.kids[y] \in Seq(Ids(F)) /\ Distinct(G.kids[y])
               /\ Children(G, y) = Children(F, y) \ {x}
    <3>1. F.kids[y] \in Seq(Ids(F)) /\ Distinct(F.kids[y])
      BY <2>3 DEF IsForest, Distinct
    <3> QED BY <3>1, <2>3, WithoutKeeps DEF Children
  <2>6. ASSUME NEW y \in DOMAIN G.kids PROVE G.kids[y] \in Seq(Ids(G))
    <3>1. Children(G, y) \subseteq Ids(G)
      <4>1. Children(F, y) \subseteq Ids(F)
        BY <2>3 DEF IsForest, Children, Elements
      <4> QED BY <4>1, <2>1, <2>3, <2>4, <2>5
    <3> QED BY <3>1, <2>5 DEF Children, Elements
  <2>7. \A y, z \in DOMAIN G.kids : y # z => Children(G, y) \cap Children(G, z) = {}
    BY <2>3, <2>5 DEF IsForest
  <2>8. ASSUME NEW S \in SUBSET DOMAIN G.kids, Top \in S, Closed(G, S) PROVE S = DOMAIN G.kids
    <3>1. Closed(F, S \cup B)
      BY <2>1, <2>3, <2>5, <2>8 DEF Closed
    <3>2. S \cup B \in SUBSET DOMAIN F.kids /\ Top \in S \cup B
      BY <2>1, <2>3, <2>8 DEF Ids
    <3>3. S \cup B = DOMAIN F.kids
      BY <3>1, <3>2 DEF IsForest
    <3> QED BY <3>3, <2>3, <2>8
  <2> QED BY <2>2, <2>3, <2>4, <2>5, <2>6, <2>7, <2>8 DEF IsForest, Distinct, G
<1> QED BY <1>1, <1>2
\* A node that goes, with what is below it, to an array elsewhere.
LEMMA MovedForest ==
  ASSUME NEW F, IsForest(F), NEW x \in Ids(F), NEW q \in DOMAIN F.kids, q \notin Below(F, x)
  PROVE  IsForest(Moved(F, x, q)) /\ Ids(Moved(F, x, q)) = Ids(F)
<1> DEFINE B == Below(F, x)
           G == Moved(F, x, q)
           D == DOMAIN F.kids
<1>1. /\ x \in B /\ B \subseteq Ids(F) /\ Closed(F, B)
      /\ \A y \in DOMAIN F.kids \ B : Children(F, y) \cap B \subseteq {x}
  BY BelowFacts
<1> HIDE DEF B
<1>2. Top \in D /\ DOMAIN F.info = Ids(F) /\ Ids(F) \subseteq Id
  BY DEF IsForest
<1>3. /\ DOMAIN G.kids = D /\ G.info = F.info
      /\ \A y \in D : G.kids[y] = LET rest == Without(F.kids[y], x)
                                  IN  IF y = q THEN Append(rest, x) ELSE rest
  BY DEF Moved
<1> HIDE DEF G
<1>4. Ids(G) = Ids(F)
  BY <1>3 DEF Ids
<1>5. ASSUME NEW y \in D
      PROVE  /\ G.kids[y] \in Seq(Ids(F)) /\ Distinct(G.kids[y])
             /\ Children(G, y) = (Children(F, y) \ {x}) \cup (IF y = q THEN {x} ELSE {})
  <2> DEFINE rest == Without(F.kids[y], x)
  <2>1. F.kids[y] \in Seq(Ids(F)) /\ Distinct(F.kids[y])
    BY DEF IsForest, Distinct
  <2>2. rest \in Seq(Ids(F)) /\ Elements(rest) = Children(F, y) \ {x} /\ Distinct(rest)
    BY <2>1, WithoutKeeps DEF Children
  <2> HIDE DEF rest
  <2>3. /\ Append(rest, x) \in Seq(Ids(F) \cup {x}) /\ Distinct(Append(rest, x))
        /\ Elements(Append(rest, x)) = Elements(rest) \cup {x}
    BY <2>2, AppendAdds
  <2>4. G.kids[y] = IF y = q THEN Append(rest, x) ELSE rest
    BY <1>3 DEF rest
  <2>5. Ids(F) \cup {x} = Ids(F)
    OBVIOUS
  <2>6. CASE y = q
    BY <2>2, <2>3, <2>4, <2>5, <2>6 DEF Children
  <2>7. CASE y # q
    BY <2>2, <2>4, <2>7 DEF Children
  <2> QED BY <2>6, <2>7
<1>6. \A y, z \in D : y # z => Children(G, y) \cap Children(G, z) = {}
  BY <1>5 DEF IsForest
<1>7. ASSUME NEW S \in SUBSET D, Top \in S, Closed(G, S) PROVE S = D
  <2>1. Closed(F, S \cup B)
    BY <1>1, <1>5, <1>7 DEF Closed
  <2>2. S \cup B \in SUBSET D /\ Top \in S \cup B
    BY <1>1, <1>7 DEF Ids
  <2>3. S \cup B = D
    BY <2>1, <2>2 DEF IsForest
  <2>4. q \in S /\ x \in S
    BY <2>3, <1>5, <1>7 DEF B, Closed
  <2>5. Closed(F, S)
    BY <2>4, <1>5, <1>7 DEF Closed
  <2> QED BY <2>5, <1>7 DEF IsForest
<1>8. \A y \in D : G.kids[y] \in Seq(Ids(G)) /\ Distinct(G.kids[y])
  BY <1>4, <1>5
<1> QED BY <1>2, <1>3, <1>4, <1>6, <1>7, <1>8 DEF IsForest, Distinct, G

\* link, below any parent.
LEMMA LinkForest ==
  ASSUME NEW F, IsForest(F), NEW p, NEW x
  PROVE  IsForest(link(F, p, x)) /\ Ids(link(F, p, x)) \subseteq Ids(F)
<1>1. CASE x \in Ids(F) /\ p \in Ids(_cut(F, x))
  <2>1. _cut(F, x).kids = [y \in (Ids(F) \ Below(F, x)) \cup {Top} |-> Without(F.kids[y], x)]
    <3>1. Top \in DOMAIN F.kids
      BY DEF IsForest
    <3> QED BY <1>1, <3>1 DEF _cut, Keep, Ids
  <2>2. p \in DOMAIN F.kids /\ p \notin Below(F, x)
    BY <1>1, <2>1 DEF Ids
  <2> QED BY <1>1, <2>2, MovedForest DEF link
<1>2. CASE ~(x \in Ids(F) /\ p \in Ids(_cut(F, x)))
  BY <1>2, CutForest DEF link
<1> QED BY <1>1, <1>2

(* What a link does to a forest (tree.ts:90-97), whatever the parent: it   *)
(* leaves a forest.  Below a node of the store that is not below the child *)
(* nothing is lost.  Any other parent, one below the child or one that is  *)
(* not there, loses the child with all that is below it, and nothing else. *)
(* A child that is not there changes nothing.                              *)
THEOREM LinkKeeps ==
  ASSUME NEW F, IsForest(F), NEW p, NEW x
  PROVE  /\ IsForest(link(F, p, x))
         /\ x \in Ids(F) /\ p \in Ids(F) \ Below(F, x) =>
              Ids(link(F, p, x)) = Ids(F) /\ x \in Children(link(F, p, x), p)
         /\ x \in Ids(F) /\ p \notin Ids(F) \ Below(F, x) =>
              Ids(link(F, p, x)) = Ids(F) \ Below(F, x)
         /\ x \notin Ids(F) => link(F, p, x) = F
<1>1. IsForest(link(F, p, x))
  BY LinkForest
<1>2. ASSUME x \in Ids(F)
      PROVE  Ids(_cut(F, x)) = Ids(F) \ Below(F, x) /\ Top \in DOMAIN F.kids /\ Top \notin Ids(F)
  BY <1>2 DEF _cut, Keep, Ids, IsForest
<1>3. ASSUME x \in Ids(F), p \in Ids(F) \ Below(F, x)
      PROVE  Ids(link(F, p, x)) = Ids(F) /\ x \in Children(link(F, p, x), p)
  <2>1. p \in DOMAIN F.kids /\ link(F, p, x) = Moved(F, x, p)
    BY <1>2, <1>3 DEF link, Ids
  <2>2. Ids(Moved(F, x, p)) = Ids(F)
    BY <1>3, <2>1, MovedForest
  <2>3. Moved(F, x, p).kids[p] = Append(Without(F.kids[p], x), x)
    BY <2>1 DEF Moved
  <2>4. Without(F.kids[p], x) \in Seq(Ids(F))
    <3>1. F.kids[p] \in Seq(Ids(F)) /\ Distinct(F.kids[p])
      BY <2>1 DEF IsForest, Distinct
    <3> QED BY <3>1, WithoutKeeps
  <2>5. Elements(Append(Without(F.kids[p], x), x)) = Elements(Without(F.kids[p], x)) \cup {x}
    BY <2>4, AppendAdds
  <2>6. Children(Moved(F, x, p), p) = Elements(Without(F.kids[p], x)) \cup {x}
    BY <2>3, <2>5 DEF Children
  <2> QED BY <2>1, <2>2, <2>6
<1>4. ASSUME x \in Ids(F), p \notin Ids(F) \ Below(F, x)
      PROVE  Ids(link(F, p, x)) = Ids(F) \ Below(F, x)
  BY <1>2, <1>4 DEF link
<1>5. ASSUME x \notin Ids(F) PROVE link(F, p, x) = F
  BY <1>5 DEF link, _cut
<1> QED BY <1>1, <1>3, <1>4, <1>5

\* unlink, back to state.nodes.
LEMMA UnlinkForest ==
  ASSUME NEW F, IsForest(F), NEW x
  PROVE  IsForest(unlink(F, x)) /\ Ids(unlink(F, x)) \subseteq Ids(F)
<1>1. CASE x \in Ids(F)
  <2>1. Top \in DOMAIN F.kids /\ Top \notin Below(F, x)
    BY <1>1, BelowFacts DEF IsForest, Ids
  <2> QED BY <1>1, <2>1, MovedForest DEF unlink
<1>2. CASE x \notin Ids(F)
  BY <1>2 DEF unlink
<1> QED BY <1>1, <1>2

\* An update of the other fields.
LEMMA UpdateForest ==
  ASSUME NEW F, IsForest(F), NEW x, NEW fields, NEW up
  PROVE  IsForest(update(F, x, fields, up)) /\ Ids(update(F, x, fields, up)) = Ids(F)
<1> DEFINE G == update(F, x, fields, up)
<1>1. G.kids = F.kids /\ DOMAIN G.info = DOMAIN F.info
  BY DEF update
<1> HIDE DEF G
<1>2. Ids(G) = Ids(F) /\ (\A y : Children(G, y) = Children(F, y)) /\ \A S : Closed(G, S) <=> Closed(F, S)
  BY <1>1 DEF Ids, Children, Closed
<1> QED BY <1>1, <1>2 DEF IsForest, G
-----------------------------------------------------------------------------
(* The slice. *)

IsSlice(st) ==
  st = [nodes |-> st.nodes, history |-> st.history, rootid |-> st.rootid,
        currentTreeName |-> st.currentTreeName, currentClickNode |-> st.currentClickNode,
        updatetick |-> st.updatetick]

Good(st) ==
  /\ IsSlice(st) /\ st.history \in Seq(Elements(st.history))
  /\ Fine(st.nodes, st.rootid) /\ \A F \in Elements(st.history) : Fine(F, st.rootid)

\* An edit that leaves a forest without another Root.
LEMMA EditGood ==
  ASSUME NEW st, Good(st), NEW F, Fine(F, st.rootid)
  PROVE  Good(Edit(st, F))
<1> DEFINE new == Edit(st, F)
<1>1. IsSlice(st) /\ st.history \in Seq(Elements(st.history))
  BY DEF Good
<1>2. new = [nodes |-> F, history |-> Append(st.history, st.nodes), rootid |-> st.rootid,
             currentTreeName |-> st.currentTreeName, currentClickNode |-> st.currentClickNode,
             updatetick |-> st.updatetick]
  <2>1. Edit(st, F) = [[st EXCEPT !.nodes = F] EXCEPT !.history = Append(st.history, st.nodes)]
    BY <1>1 DEF Edit, IsSlice
  <2> QED BY <2>1, <1>1 DEF IsSlice
<1> HIDE DEF new
<1>3. /\ new.nodes = F /\ new.history = Append(st.history, st.nodes) /\ new.rootid = st.rootid
      /\ IsSlice(new)
  BY <1>2 DEF IsSlice
<1>4. /\ new.history \in Seq(Elements(st.history) \cup {st.nodes})
      /\ Elements(new.history) = Elements(st.history) \cup {st.nodes}
  <2> DEFINE A == Elements(st.history)
  <2>1. st.history \in Seq(A)
    BY <1>1
  <2> HIDE DEF A
  <2>2. /\ Append(st.history, st.nodes) \in Seq(A \cup {st.nodes})
        /\ Elements(Append(st.history, st.nodes)) = Elements(st.history) \cup {st.nodes}
    BY <2>1, AppendAdds
  <2> QED BY <2>2, <1>3 DEF A
<1> QED BY <1>3, <1>4 DEF Good, new

\* An undo brings back a version there was.
LEMMA UndoGood == ASSUME NEW st, Good(st) PROVE Good(nodeUndo(st))
<1>1. CASE st.history = <<>>
  BY <1>1 DEF nodeUndo
<1>2. CASE st.history # <<>>
  <2> DEFINE new == nodeUndo(st)
             h == st.history
             rest == SubSeq(h, 1, Len(h) - 1)
  <2>1. /\ new.nodes = h[Len(h)] /\ new.history = rest /\ new.rootid = st.rootid
        /\ IsSlice(new)
    <3>1. IsSlice(st)
      BY DEF Good
    <3>2. new = [nodes |-> h[Len(h)], history |-> rest, rootid |-> st.rootid,
                 currentTreeName |-> st.currentTreeName,
                 currentClickNode |-> st.currentClickNode, updatetick |-> TRUE]
      BY <1>2, <3>1 DEF nodeUndo, IsSlice
    <3> QED BY <3>2 DEF IsSlice
  <2>2. h \in Seq(Elements(h)) /\ Len(h) \in Nat /\ Len(h) > 0 /\ DOMAIN h = 1..Len(h)
    BY <1>2 DEF Good
  <2>3. h[Len(h)] \in Elements(h)
    BY <2>2 DEF Elements
  <2>4. DOMAIN rest = 1..(Len(h) - 1) /\ \A i \in DOMAIN rest : rest[i] = h[i] /\ i \in DOMAIN h
    BY <2>2
  <2>5. rest \in Seq(Elements(h))
    BY <2>2
  <2> HIDE DEF new, rest
  <2>6. rest \in Seq(Elements(rest)) /\ Elements(rest) \subseteq Elements(h)
    BY <2>4, <2>5, OwnElements DEF Elements
  <2> QED BY <2>1, <2>3, <2>6 DEF Good, new
<1> QED BY <1>1, <1>2

\* A tree is loaded, and the history starts anew.
LEMMA InitTreeGood ==
  ASSUME NEW st, IsSlice(st), NEW T, IsForest(T), Ty[T.kids[Top][1]] = "Root", Only(T, T.kids[Top][1])
  PROVE  /\ Good(initTree(st, T))
         /\ initTree(st, T) = [nodes |-> T, history |-> <<>>, rootid |-> T.kids[Top][1],
                               currentTreeName |-> NoName, currentClickNode |-> st.currentClickNode,
                               updatetick |-> st.updatetick]
<1> DEFINE r == T.kids[Top][1]
           new == initTree(st, T)
<1>1. IsForest(T) /\ Ty[r] = "Root" /\ Only(T, r)
  OBVIOUS
<1>2. IsSlice(st)
  OBVIOUS
<1> HIDE DEF r
<1>3. new = [nodes |-> T, history |-> <<>>, rootid |-> r, currentTreeName |-> NoName,
             currentClickNode |-> st.currentClickNode, updatetick |-> st.updatetick]
  BY <1>1, <1>2 DEF initTree, IsSlice, r
<1>4. IsSlice(new) /\ new.nodes = T /\ new.history = <<>> /\ new.rootid = r
  BY <1>3 DEF IsSlice
<1> HIDE DEF new
<1>5. Elements(<<>>) = {} /\ <<>> \in Seq({})
  BY DEF Elements
<1> QED BY <1>1, <1>3, <1>4, <1>5 DEF Good, Fine, new, r

\* Everything is cleaned away.
LEMMA CleanGood == ASSUME NEW st, Good(st) PROVE Good(cleanTree(st))
<1> DEFINE new == cleanTree(st)
<1>1. IsSlice(st)
  BY DEF Good
<1>2. new = [nodes |-> Empty, history |-> <<>>, rootid |-> NoId, currentTreeName |-> NoName,
             currentClickNode |-> st.currentClickNode, updatetick |-> TRUE]
  <2>1. cleanTree(st) = [[[[[st EXCEPT !.currentTreeName = NoName] EXCEPT !.rootid = NoId]
                          EXCEPT !.history = <<>>] EXCEPT !.nodes = Empty] EXCEPT !.updatetick = TRUE]
    BY <1>1 DEF cleanTree, IsSlice
  <2> QED BY <2>1, <1>1 DEF IsSlice
<1>3. IsSlice(new) /\ new.nodes = Empty /\ new.history = <<>>
  BY <1>2 DEF IsSlice
<1> HIDE DEF new
<1>4. Elements(<<>>) = {} /\ <<>> \in Seq({})
  BY DEF Elements
<1> QED BY <1>3, <1>4, EmptyForest DEF Good, Fine, Only, new

\* A change of the fields that no forest depends on.
LEMMA OtherGood ==
  ASSUME NEW st, Good(st), NEW name, NEW x, NEW tick
  PROVE  /\ Good([st EXCEPT !.currentTreeName = name])
         /\ Good([st EXCEPT !.currentClickNode = x])
         /\ Good([st EXCEPT !.updatetick = tick])
<1>1. IsSlice(st)
  BY DEF Good
<1>2. ASSUME NEW new, IsSlice(new), new.nodes = st.nodes, new.history = st.history, new.rootid = st.rootid
      PROVE  Good(new)
  BY <1>2 DEF Good
<1>3. Good([st EXCEPT !.currentTreeName = name])
  BY <1>1, <1>2 DEF IsSlice
<1>4. Good([st EXCEPT !.currentClickNode = x])
  BY <1>1, <1>2 DEF IsSlice
<1>5. Good([st EXCEPT !.updatetick = tick])
  BY <1>1, <1>2 DEF IsSlice
<1> QED BY <1>3, <1>4, <1>5
-----------------------------------------------------------------------------
\* The slice as it starts.
LEMMA InitGood == TreeInit => Good(tree)
<1> SUFFICES ASSUME TreeInit PROVE Good(tree)
  OBVIOUS
<1>1. IsSlice(tree) /\ tree.nodes = Empty /\ tree.history = <<>>
  BY DEF TreeInit, IsSlice
<1>2. Elements(<<>>) = {} /\ <<>> \in Seq({})
  BY DEF Elements
<1> QED BY <1>1, <1>2, EmptyForest DEF Good, Fine, Only

(* The edits, one by one: each keeps what is a forest one, and brings in   *)
(* no Root.                                                                *)
LEMMA NextGood == Good(tree) /\ [TreeNext]_tree => Good(tree)'
<1> SUFFICES ASSUME Good(tree), [TreeNext]_tree PROVE Good(tree')
  BY DEF Good, IsSlice, Fine, Only
<1>0. IsForest(tree.nodes) /\ Only(tree.nodes, tree.rootid)
  BY DEF Good, Fine
<1>1. ASSUME NEW x \in Id \ Ids(tree.nodes), NEW info \in Info, Ty[x] # "Root",
             tree' = nodeAdd(tree, x, info)
      PROVE  Good(tree')
  <2>1. Fine(add(tree.nodes, x, info), tree.rootid)
    BY <1>0, <1>1, AddForest DEF Fine, Only
  <2> QED BY <2>1, <1>1, EditGood DEF nodeAdd
<1>2. ASSUME NEW x \in Id, tree' = nodeRmv(tree, x) PROVE Good(tree')
  <2>1. Fine(rmv(tree.nodes, x), tree.rootid)
    BY <1>0, CutForest DEF Fine, Only, rmv
  <2> QED BY <2>1, <1>2, EditGood DEF nodeRmv
<1>3. ASSUME NEW x \in Id, tree' = nodeUnlink(tree, x) PROVE Good(tree')
  <2>1. Fine(unlink(tree.nodes, x), tree.rootid)
    BY <1>0, UnlinkForest DEF Fine, Only
  <2> QED BY <2>1, <1>3, EditGood DEF nodeUnlink
<1>4. ASSUME NEW p \in Id, NEW x \in Id, tree' = nodeLink(tree, p, x) PROVE Good(tree')
  <2>1. Fine(link(tree.nodes, p, x), tree.rootid)
    BY <1>0, LinkForest DEF Fine, Only
  <2> QED BY <2>1, <1>4, EditGood DEF nodeLink
<1>5. ASSUME NEW x \in Id, NEW fields \in SUBSET Fields, NEW up \in Info,
             tree' = nodeUpdate(tree, x, fields, up)
      PROVE  Good(tree')
  <2>1. Fine(update(tree.nodes, x, fields, up), tree.rootid)
    BY <1>0, UpdateForest DEF Fine, Only
  <2> QED BY <2>1, <1>5, EditGood DEF nodeUpdate
<1>6. ASSUME NEW x \in Id, tree' = nodeClick(tree, x) PROVE Good(tree')
  BY <1>6, OtherGood DEF nodeClick
<1>7. CASE tree' = nodeRedraw(tree)
  BY <1>7, OtherGood DEF nodeRedraw
<1>8. CASE tree' = nodeUndo(tree)
  BY <1>8, UndoGood
<1>9. CASE tree' = cleanTree(tree)
  BY <1>9, CleanGood
<1>10. ASSUME NEW T \in Trees, tree' = initTree(tree, T) PROVE Good(tree')
  <2>1. IsForest(T) /\ Ty[T.kids[Top][1]] = "Root" /\ Only(T, T.kids[Top][1])
    BY TreeAssumption DEF Only
  <2> QED BY <2>1, <1>10, InitTreeGood DEF Good
<1>11. ASSUME NEW name \in Name \cup {NoName}, tree' = nodeSave(tree, name) PROVE Good(tree')
  BY <1>11, OtherGood DEF nodeSave
<1>12. CASE tree' = [tree EXCEPT !.updatetick = FALSE]
  BY <1>12, OtherGood
<1>13. CASE UNCHANGED tree
  BY <1>13
<1> QED
  BY <1>1, <1>2, <1>3, <1>4, <1>5, <1>6, <1>7, <1>8, <1>9, <1>10, <1>11, <1>12, <1>13 DEF TreeNext

\* The invariant, always.
LEMMA AlwaysGood == TreeSpec => []Good(tree)
<1> QED BY InitGood, NextGood, PTL DEF TreeSpec

(* Whatever is dispatched, the nodes and everything undo can bring back    *)
(* are forests (tree.ts:37-167, 235-309).                                  *)
THEOREM ForestAlways == TreeSpec => []ForestInv
<1>1. Good(tree) => ForestInv
  BY DEF Good, Fine, ForestInv, Versions
<1> QED BY <1>1, AlwaysGood, PTL

(* No version of the tree holds the Root of another file                   *)
(* (tree.ts:282-309).                                                      *)
THEOREM OneRootAlways == TreeSpec => []OneRoot
<1>1. Good(tree) => OneRoot
  BY DEF Good, Fine, Only, OneRoot, Versions
<1> QED BY <1>1, AlwaysGood, PTL
=============================================================================
