---------------------------- MODULE BehaviorTreeProofs ----------------------
(***************************************************************************)
(* Proofs about BehaviorTree, for every tree, every result of the scripts  *)
(* and any number of bots in turn.                                         *)
(*                                                                         *)
(* TypeCorrect holds for every tree.  The other theorems are about the     *)
(* trees without a fork below a fork (Flat): with one, Do hands over from  *)
(* nodes it has not ticked, which is what the run about FrozenWasExecuted  *)
(* shows.                                                                  *)
(*                                                                         *)
(* The inductive invariant InvA looks at what is `active': the nodes that  *)
(* the two ranges of Do have yet to handle, as one sequence in which every *)
(* handler replaces one element (the node in hand) by a child, by its      *)
(* parent or by nothing, and a fork replaces the only one by its children. *)
(* Slices keeps what is appended clear of what has yet to be read; Placed  *)
(* says that one node is active, or one fork is open and each of its       *)
(* branches has joined or holds one active node; Progress and Waits say    *)
(* that whatever has not been opened is as reset left it.  RangeIntact,    *)
(* NothingLeftBehind and NoPanic are read off it.                          *)
(***************************************************************************)
EXTENDS BehaviorTree, SequenceTheorems, TLAPS

-----------------------------------------------------------------------------
(* The tree. *)

\* The nodes below a node, and the parallel nodes, which are the forks of the tree.
Below(n) == Subtree(n) \ {n}
Parallels == {p \in Nodes : Kind(p) = "Parallel"}

\* What IsTree says of the bot's tree.
LEMMA TreeFacts ==
  ASSUME tree \in Trees
  PROVE  /\ tree.root \in Nodes /\ None \notin Nodes
         /\ \A n \in Nodes : Kind(n) \in Kinds /\ Children(n) \in Seq(Nodes)
         /\ \A n \in Nodes : Kind(n) = "Root" <=> n = tree.root
         /\ \A n \in Nodes \ {tree.root} : Parent(n) \in Nodes
         /\ \A n \in Nodes : Limit(n) \in Int
         /\ \A n \in Nodes : \A k \in DOMAIN Children(n) :
              /\ Children(n)[k] \in Nodes \ {tree.root} /\ Parent(Children(n)[k]) = n
              /\ \A j \in DOMAIN Children(n) : Children(n)[j] = Children(n)[k] => j = k
<1>1. IsTree(tree) /\ Forever \in Int
  BY TreesAssumption, BoundsAssumption
<1>2. \A n \in Nodes : Children(n) \in Seq(Nodes)
  BY <1>1 DEF IsTree, Nodes, Children
<1>3. \A n \in Nodes : \A k \in DOMAIN Children(n) : Children(n)[k] \in Nodes
  BY <1>2
<1> QED BY <1>1, <1>2, <1>3 DEF IsTree, Nodes, Kind, Children, Parent, Limit

\* The children of its nodes are in a closed set.
ClosedSet(S) == \A n \in S : \A k \in DOMAIN Children(n) : Children(n)[k] \in S

\* The subtree of a node is the least closed set with it.
LEMMA SubtreeDef ==
  ASSUME tree \in Trees, NEW n \in Nodes
  PROVE  Subtree(n) = {m \in Nodes : \A S \in SUBSET Nodes : ClosedSet(S) /\ n \in S => m \in S}
<1>1. SubtreeOf[tree] = [x \in tree.nodes |->
        {m \in tree.nodes : \A S \in ClosedSets(tree) : x \in S => m \in S}]
  BY DEF SubtreeOf
<1>2. Subtree(n) = {m \in Nodes : \A S \in ClosedSets(tree) : n \in S => m \in S}
  BY <1>1 DEF Subtree, Nodes
<1>3. ClosedSets(tree) = {S \in SUBSET Nodes : ClosedSet(S)}
  BY DEF ClosedSets, ClosedSet, Nodes, Children
<1> QED BY <1>2, <1>3

\* Induction over the tree: a closed set with the root holds every node.
LEMMA FromRoot ==
  ASSUME tree \in Trees, NEW S \in SUBSET Nodes, ClosedSet(S), tree.root \in S
  PROVE  S = Nodes
<1>1. IsTree(tree)
  BY TreesAssumption
<1>2. S \in ClosedSets(tree)
  BY DEF ClosedSets, ClosedSet, Nodes, Children
<1> QED BY <1>1, <1>2 DEF IsTree, Nodes

\* A subtree holds its top and what is below it, and the subtrees of its nodes.
LEMMA SubtreeFacts ==
  ASSUME tree \in Trees, NEW n \in Nodes
  PROVE  /\ n \in Subtree(n) /\ Subtree(n) \subseteq Nodes
         /\ ClosedSet(Subtree(n))
         /\ \A S \in SUBSET Nodes : ClosedSet(S) /\ n \in S => Subtree(n) \subseteq S
         /\ \A k \in DOMAIN Children(n) : Children(n)[k] \in Subtree(n)
         /\ \A m \in Subtree(n) : Subtree(m) \subseteq Subtree(n)
<1>1. n \in Subtree(n) /\ Subtree(n) \subseteq Nodes
  BY SubtreeDef
<1>2. \A S \in SUBSET Nodes : ClosedSet(S) /\ n \in S => Subtree(n) \subseteq S
  BY SubtreeDef
<1>3. ClosedSet(Subtree(n))
  <2> SUFFICES ASSUME NEW x \in Subtree(n), NEW k \in DOMAIN Children(x)
               PROVE  Children(x)[k] \in Subtree(n)
    BY DEF ClosedSet
  <2>1. Children(x)[k] \in Nodes
    BY <1>1, TreeFacts
  <2>2. ASSUME NEW S \in SUBSET Nodes, ClosedSet(S), n \in S PROVE Children(x)[k] \in S
    BY <2>2, <1>2 DEF ClosedSet
  <2> QED BY <2>1, <2>2, SubtreeDef
<1>4. \A k \in DOMAIN Children(n) : Children(n)[k] \in Subtree(n)
  BY <1>1, <1>3 DEF ClosedSet
<1>5. ASSUME NEW m \in Subtree(n) PROVE Subtree(m) \subseteq Subtree(n)
  <2>1. m \in Nodes
    BY <1>1
  <2> QED BY <1>1, <1>3, <2>1, SubtreeDef
<1> QED BY <1>1, <1>2, <1>3, <1>4, <1>5

\* A node of a subtree is its top or has its parent there.
LEMMA ParentInside ==
  ASSUME tree \in Trees, NEW n \in Nodes, NEW m \in Subtree(n), m # n
  PROVE  m # tree.root /\ Parent(m) \in Subtree(n)
<1> DEFINE S == {x \in Subtree(n) : x = n \/ (x # tree.root /\ Parent(x) \in Subtree(n))}
<1>1. n \in S /\ S \in SUBSET Nodes
  BY SubtreeFacts
<1>2. ClosedSet(S)
  BY SubtreeFacts, TreeFacts DEF ClosedSet
<1>3. Subtree(n) \subseteq S
  BY <1>1, <1>2, SubtreeFacts
<1> QED BY <1>3

\* No two nodes are below each other.
LEMMA Antisymmetry ==
  ASSUME tree \in Trees, NEW n \in Nodes, NEW m \in Nodes, m \in Subtree(n), n \in Subtree(m)
  PROVE  m = n
<1> DEFINE S == {x \in Nodes : \A y \in Nodes : y \in Subtree(x) /\ x \in Subtree(y) => y = x}
<1>1. tree.root \in S
  BY ParentInside, TreeFacts
<1>2. \A x \in Nodes \ {tree.root} : Parent(x) # x
  <2> SUFFICES ASSUME NEW x \in Nodes \ {tree.root}, Parent(x) = x PROVE FALSE
    OBVIOUS
  <2>1. ClosedSet(Nodes \ {x})
    BY TreeFacts DEF ClosedSet
  <2> QED BY <2>1, FromRoot, TreeFacts
<1>3. ClosedSet(S)
  <2> SUFFICES ASSUME NEW x \in S, NEW k \in DOMAIN Children(x), NEW y \in Nodes,
                      y \in Subtree(Children(x)[k]), Children(x)[k] \in Subtree(y),
                      y # Children(x)[k]
               PROVE  FALSE
    BY TreeFacts DEF ClosedSet
  <2> DEFINE c == Children(x)[k]
  <2>1. c \in Nodes \ {tree.root} /\ Parent(c) = x /\ c # x
    BY TreeFacts, <1>2
  <2>2. x \in Subtree(y)
    BY <2>1, ParentInside
  <2>3. y \in Subtree(x)
    BY <2>1, SubtreeFacts
  <2>4. y = x
    BY <2>2, <2>3
  <2>5. x # tree.root /\ Parent(x) \in Subtree(c)
    BY <2>1, <2>4, ParentInside
  <2>6. Parent(x) \in Nodes /\ Parent(x) \in Subtree(x)
    BY <2>1, <2>5, SubtreeFacts, TreeFacts
  <2>7. x \in Subtree(Parent(x))
    <3>1. \E j \in DOMAIN Children(Parent(x)) : Children(Parent(x))[j] = x
      <4> SUFFICES ASSUME \A j \in DOMAIN Children(Parent(x)) : Children(Parent(x))[j] # x
                   PROVE  FALSE
        OBVIOUS
      <4>1. ClosedSet(Nodes \ {x})
        BY TreeFacts DEF ClosedSet
      <4> QED BY <4>1, <2>5, FromRoot, TreeFacts
    <3> QED BY <3>1, <2>6, SubtreeFacts
  <2>8. Parent(x) = x
    BY <2>6, <2>7
  <2> QED BY <2>8, <2>5, <1>2
<1>4. S = Nodes
  BY <1>1, <1>3, FromRoot
<1> QED BY <1>4

\* A child is below its parent, and no other child of the parent is below it.
LEMMA ChildFacts ==
  ASSUME tree \in Trees, NEW p \in Nodes, NEW c \in ChildSet(p)
  PROVE  /\ c \in Nodes \ {tree.root} /\ Parent(c) = p /\ c # p
         /\ c \in Below(p) /\ Subtree(c) \subseteq Below(p) /\ p \notin Subtree(c)
         /\ \A d \in ChildSet(p) : d \in Subtree(c) => d = c
<1>1. PICK k \in DOMAIN Children(p) : c = Children(p)[k]
  BY DEF ChildSet
<1>2. c \in Nodes \ {tree.root} /\ Parent(c) = p
  BY <1>1, TreeFacts
<1>3. c \in Subtree(p) /\ Subtree(c) \subseteq Subtree(p)
  BY <1>1, <1>2, SubtreeFacts
<1>4. c # p
  <2> SUFFICES ASSUME c = p PROVE FALSE
    OBVIOUS
  <2>1. ClosedSet(Nodes \ {p})
    BY <1>2, TreeFacts DEF ClosedSet
  <2> QED BY <2>1, <1>2, FromRoot, TreeFacts
<1>5. p \notin Subtree(c)
  BY <1>2, <1>3, <1>4, Antisymmetry
<1>6. ASSUME NEW d \in ChildSet(p), d \in Subtree(c) PROVE d = c
  <2>1. d \in Nodes /\ Parent(d) = p
    BY TreeFacts DEF ChildSet
  <2> QED BY <2>1, <1>2, <1>5, <1>6, ParentInside
<1> QED BY <1>2, <1>3, <1>4, <1>5, <1>6, SubtreeFacts DEF Below

\* What is below a node is in the subtree of one of its children.
LEMMA InBranch ==
  ASSUME tree \in Trees, NEW p \in Nodes, NEW x \in Below(p)
  PROVE  \E c \in ChildSet(p) : x \in Subtree(c)
<1> DEFINE S == {p} \cup UNION {Subtree(c) : c \in ChildSet(p)}
<1>1. \A c \in ChildSet(p) : c \in Nodes /\ c \in Subtree(c) /\ Subtree(c) \subseteq Nodes /\ ClosedSet(Subtree(c))
  BY ChildFacts, SubtreeFacts
<1>2. S \in SUBSET Nodes /\ p \in S
  BY <1>1
<1>3. ClosedSet(S)
  BY <1>1 DEF ClosedSet, ChildSet
<1>4. Subtree(p) \subseteq S
  BY <1>2, <1>3, SubtreeFacts
<1> QED BY <1>4 DEF Below

\* Above a node of a subtree, up to the top of the subtree, one stays in it.
LEMMA OpenStays ==
  ASSUME tree \in Trees, NEW n \in Nodes, NEW x \in Nodes, NEW c \in ChildSet(x)
  PROVE  /\ x \in Subtree(n) => c \in Subtree(n)
         /\ c \in Subtree(n) => c = n \/ x \in Subtree(n)
<1>1. c \in Nodes /\ Parent(c) = x
  BY ChildFacts
<1>2. x \in Subtree(n) => c \in Subtree(n)
  BY SubtreeFacts DEF ClosedSet, ChildSet
<1>3. c \in Subtree(n) => c = n \/ x \in Subtree(n)
  BY <1>1, ParentInside
<1> QED BY <1>2, <1>3

\* Every node but the root is a child of its parent.
LEMMA HasChild ==
  ASSUME tree \in Trees, NEW x \in Nodes \ {tree.root}
  PROVE  x \in ChildSet(Parent(x)) /\ \E k \in DOMAIN Children(Parent(x)) : Children(Parent(x))[k] = x
<1> SUFFICES ASSUME \A j \in DOMAIN Children(Parent(x)) : Children(Parent(x))[j] # x
             PROVE  FALSE
  BY DEF ChildSet
<1>1. ClosedSet(Nodes \ {x})
  BY TreeFacts DEF ClosedSet
<1> QED BY <1>1, FromRoot, TreeFacts

\* In a flat tree nothing below a fork is a fork, or the root.
LEMMA FlatFacts ==
  ASSUME tree \in Trees, Flat(tree), NEW p \in Parallels
  PROVE  p \in Nodes /\ p # tree.root /\ \A x \in Below(p) : x \in Nodes /\ x # tree.root /\ Kind(x) # "Parallel"
<1>1. p \in Nodes /\ Kind(p) = "Parallel" /\ p # tree.root
  BY TreeFacts DEF Parallels
<1>2. ASSUME NEW x \in Below(p) PROVE x \in Nodes /\ x # tree.root /\ Kind(x) # "Parallel"
  <2>1. x \in Subtree(p) /\ x # p
    BY DEF Below
  <2>2. x \in Nodes /\ x # tree.root
    BY <1>1, <2>1, SubtreeFacts, ParentInside
  <2> QED BY <1>1, <2>1, <2>2 DEF Flat, Nodes, Kind, Subtree
<1> QED BY <1>1, <1>2

\* The capacity append grows to is a number.
LEMMA GrowType == ASSUME NEW c \in Nat, NEW n \in Nat PROVE Grow(c, n) \in Nat
<1> DEFINE doubled == {c * 2^k : k \in 1..n} \cap n .. 2 * n - 1
<1>1. CASE n <= c
  BY <1>1 DEF Grow
<1>2. CASE ~(n <= c)
  <2>1. n \in n .. 2 * n - 1 /\ doubled \subseteq n .. 2 * n - 1
    BY <1>2
  <2> HIDE DEF doubled
  <2>2. \E m \in n .. 2 * n - 1 : doubled # {} => m \in doubled
    BY <2>1
  <2>3. (CHOOSE m \in n .. 2 * n - 1 : doubled # {} => m \in doubled) \in n .. 2 * n - 1
    BY <2>2
  <2>4. Grow(c, n) = CHOOSE m \in n .. 2 * n - 1 : doubled # {} => m \in doubled
    BY <1>2 DEF Grow, doubled
  <2> QED BY <2>3, <2>4
<1> QED BY <1>1, <1>2

\* A step that leaves the tree leaves all that is read off it.
LEMMA SameTree ==
  ASSUME tree' = tree
  PROVE  /\ Nodes' = Nodes /\ Parallels' = Parallels
         /\ \A n : Kind(n)' = Kind(n) /\ Children(n)' = Children(n) /\ Parent(n)' = Parent(n)
         /\ \A n : Limit(n)' = Limit(n) /\ ChildSet(n)' = ChildSet(n)
         /\ \A n : Subtree(n)' = Subtree(n) /\ Below(n)' = Below(n)
BY DEF Nodes, Kind, Children, Parent, ChildSet, Limit, Subtree, Below, Parallels

\* What Blackboard.Append leaves in both slices; past its new elements nods is as it was.
LEMMA AppendFacts ==
  ASSUME open \in Seq(Nodes), nods \in Seq(Nodes), cap \in Nat, shared \in BOOLEAN,
         NEW ns \in Seq(Nodes), BlackboardAppend(ns)
  PROVE  /\ open' = open \o ns /\ open' \in Seq(Nodes)
         /\ Len(open') = Len(open) + Len(ns)
         /\ \A j \in 1 .. Len(open) : open'[j] = open[j]
         /\ \A j \in 1 .. Len(ns) : open'[Len(open) + j] = ns[j]
         /\ nods' \in Seq(Nodes) /\ Len(nods') = Len(nods)
         /\ \A k \in DOMAIN nods : k > Len(open) + Len(ns) => nods'[k] = nods[k]
         /\ cap' \in Nat /\ shared' \in BOOLEAN
<1> DEFINE all == open \o ns
<1>1. all \in Seq(Nodes) /\ Len(all) = Len(open) + Len(ns) /\ Len(all) \in Nat /\ DOMAIN nods = 1 .. Len(nods)
  OBVIOUS
<1>2. \A j \in 1 .. Len(all) : all[j] \in Nodes
  BY <1>1
<1>3. \A j \in 1 .. Len(open) : all[j] = open[j]
  OBVIOUS
<1>4. \A j \in 1 .. Len(ns) : all[Len(open) + j] = ns[j]
  OBVIOUS
<1> HIDE DEF all
<1>5. /\ open' = all /\ cap' = Grow(cap, Len(all)) /\ shared' \in BOOLEAN
      /\ nods' = [k \in DOMAIN nods |->
                    IF shared /\ k \in Len(open) + 1 .. Len(all) /\ k <= cap THEN all[k] ELSE nods[k]]
  BY DEF BlackboardAppend, all
<1>6. \A k \in DOMAIN nods : nods'[k] \in Nodes /\ (k > Len(all) => nods'[k] = nods[k])
  BY <1>1, <1>2, <1>5
<1>7. nods' \in [1 .. Len(nods) -> Nodes] /\ Len(nods) \in Nat
  BY <1>1, <1>5, <1>6
<1>8. nods' \in Seq(Nodes) /\ Len(nods') = Len(nods)
  BY <1>7
<1> QED BY <1>1, <1>3, <1>4, <1>5, <1>6, <1>8, GrowType DEF all

\* What onReset leaves is a node as NewNode makes one, but for a thread number.
LEMMA ResetTypes ==
  ASSUME TypeOK, tree \in Trees
  PROVE  /\ \A n \in Nodes : FreshNode(tree, n) \in NodeFields /\ ResetNode(n) \in NodeFields
         /\ \A n \in Nodes : ResetNode(n).step = 0 /\ ResetNode(n).curLoop = 0
         /\ \A S : AfterReset(S) \in [Nodes -> NodeFields]
<1>1. \A n \in Nodes : FreshNode(tree, n) \in NodeFields
  BY DEF FreshNode, NodeFields
<1>2. \A n \in Nodes : nod[n] \in NodeFields /\ nod[n].threadNumber \in Nat
  BY DEF TypeOK, NodeFields
<1>3. \A n \in Nodes : /\ ResetNode(n) \in NodeFields
                       /\ ResetNode(n).step = 0 /\ ResetNode(n).curLoop = 0
  BY <1>1, <1>2 DEF ResetNode, FreshNode, NodeFields
<1> QED BY <1>1, <1>2, <1>3 DEF AfterReset

\* Two nodes agree but for the fields F.
But(r, s, F) ==
  /\ "freeze" \notin F => r.freeze = s.freeze
  /\ "step" \notin F => r.step = s.step
  /\ "curLoop" \notin F => r.curLoop = s.curLoop
  /\ "succ" \notin F => r.succ = s.succ
  /\ "waiting" \notin F => r.waiting = s.waiting
  /\ "threadNumber" \notin F => r.threadNumber = s.threadNumber

\* The fields F of node n are all that differs.
Only(g, f, n, F) ==
  /\ g \in [Nodes -> NodeFields]
  /\ \A m \in Nodes \ {n} : g[m] = f[m]
  /\ But(g[n], f[n], F)

\* The types of the fields of a node.
LEMMA FieldTypes ==
  ASSUME NEW f \in [Nodes -> NodeFields], NEW n \in Nodes
  PROVE  /\ f[n].freeze \in BOOLEAN /\ f[n].succ \in BOOLEAN /\ f[n].waiting \in BOOLEAN
         /\ f[n].step \in Nat /\ f[n].curLoop \in Nat /\ f[n].threadNumber \in Nat
BY DEF NodeFields

\* Each assignment to one field changes that field of that node only.
LEMMA SetFreeze ==
  ASSUME NEW f \in [Nodes -> NodeFields], NEW n \in Nodes, NEW g, g = [f EXCEPT ![n].freeze = TRUE]
  PROVE  Only(g, f, n, {"freeze"}) /\ g[n].freeze
BY DEF NodeFields, Only, But

\* The same for step ...
LEMMA SetStep ==
  ASSUME NEW f \in [Nodes -> NodeFields], NEW n \in Nodes, NEW g, g = [f EXCEPT ![n].step = @ + 1]
  PROVE  Only(g, f, n, {"step"}) /\ g[n].step = f[n].step + 1
BY DEF NodeFields, Only, But

\* ... for the count of a loop ...
LEMMA SetCurLoop ==
  ASSUME NEW f \in [Nodes -> NodeFields], NEW n \in Nodes, NEW g, g = [f EXCEPT ![n].curLoop = @ + 1]
  PROVE  Only(g, f, n, {"curLoop"}) /\ g[n].curLoop = f[n].curLoop + 1
BY DEF NodeFields, Only, But

\* ... for the result of a condition ...
LEMMA SetSucc ==
  ASSUME NEW f \in [Nodes -> NodeFields], NEW n \in Nodes, NEW b \in BOOLEAN, NEW g, g = [f EXCEPT ![n].succ = b]
  PROVE  Only(g, f, n, {"succ"}) /\ g[n].succ = b
BY DEF NodeFields, Only, But

\* ... for the waiting of a wait ...
LEMMA SetWaiting ==
  ASSUME NEW f \in [Nodes -> NodeFields], NEW n \in Nodes, NEW b \in BOOLEAN, NEW g, g = [f EXCEPT ![n].waiting = b]
  PROVE  Only(g, f, n, {"waiting"}) /\ g[n].waiting = b
BY DEF NodeFields, Only, But

\* ... for a thread number ...
LEMMA SetNumber ==
  ASSUME NEW f \in [Nodes -> NodeFields], NEW n \in Nodes, NEW g, g = [f EXCEPT ![n].threadNumber = @ + 1]
  PROVE  Only(g, f, n, {"threadNumber"}) /\ g[n].threadNumber = f[n].threadNumber + 1
BY DEF NodeFields, Only, But

\* ... and for the two fields a wait sets at once.
LEMMA SetBoth ==
  ASSUME NEW f \in [Nodes -> NodeFields], NEW n \in Nodes, NEW g,
         g = [f EXCEPT ![n].freeze = TRUE, ![n].waiting = FALSE]
  PROVE  Only(g, f, n, {"freeze", "waiting"}) /\ g[n].freeze /\ ~g[n].waiting
BY DEF NodeFields, Only, But

-----------------------------------------------------------------------------
(* Types. *)

\* TypeOK in parts: the nodes, the slices, the rest.
NodesOK ==
  /\ nod \in [Nodes -> NodeFields]
  /\ \A n \in Nodes :
        /\ nod[n].step <= Len(Children(n))
        /\ nod[n].curLoop = 0 \/ nod[n].curLoop <= Limit(n)

SlicesOK == open \in Seq(Nodes) /\ nods \in Seq(Nodes) /\ ticked \in Seq(Nodes)

ScalarsOK ==
  /\ tree \in Trees /\ mode \in Modes
  /\ cap \in Nat /\ threads \in Nat /\ i \in Nat \ {0} /\ runs \in Nat
  /\ end \in BOOLEAN /\ shared \in BOOLEAN
  /\ phase \in {"idle", "tick", "next", "ended", "pooled"}
  /\ at \in Nodes \cup {None}
  /\ state \in {"", "Succ"} \cup Results \cup {"Exit"}
  /\ outcome \in {"running", "done", "err", "panic"}
  /\ visits \in [Nodes -> Nat] /\ passed \in [Nodes -> Nat]

\* TypeOK is its parts.
LEMMA TypeParts ==
  /\ TypeOK <=> NodesOK /\ SlicesOK /\ ScalarsOK
  /\ TypeOK' <=> NodesOK' /\ SlicesOK' /\ ScalarsOK'
BY DEF TypeOK, NodesOK, SlicesOK, ScalarsOK

\* A node in hand that is not the root has a parent.
LEMMA HandTypes ==
  ASSUME TypeOK, NEW K \in SUBSET (Kinds \ {"Root"}), Advancing(K)
  PROVE  at \in Nodes \ {tree.root} /\ Parent(at) \in Nodes /\ at # None
BY TreeFacts DEF TypeOK, Advancing

\* Opening a child keeps the types of the slices.
LEMMA OpenTypes ==
  ASSUME TypeOK, at \in Nodes, NEW k \in DOMAIN Children(at), OpenChild(k), tree' = tree
  PROVE  /\ open' \in Seq(Nodes) /\ cap' \in Nat /\ nods' \in Seq(Nodes) /\ shared' \in BOOLEAN
         /\ at' \in Nodes' \cup {None} /\ threads' \in Nat
<1>0. Children(at)[k] \in Nodes
  BY TreeFacts DEF TypeOK
<1>1. <<Children(at)[k]>> \in Seq(Nodes)
  BY <1>0
<1> QED BY <1>1, AppendFacts, SameTree DEF TypeOK, OpenChild

\* Calling the parent does so too.
LEMMA CallTypes ==
  ASSUME TypeOK, Parent(at) \in Nodes, CallParent, tree' = tree
  PROVE  /\ open' \in Seq(Nodes) /\ cap' \in Nat /\ nods' \in Seq(Nodes) /\ shared' \in BOOLEAN
         /\ at' \in Nodes' \cup {None} /\ threads' \in Nat
BY SameTree DEF TypeOK, CallParent

\* Every onNext keeps TypeOK.
LEMMA OnNextTypes == ASSUME TypeOK, OnNext PROVE TypeOK'
<1> SUFFICES ASSUME NextUnchanged, TypeOK
             PROVE  /\ NodesOK' /\ end' \in BOOLEAN
                    /\ open' \in Seq(Nodes) /\ cap' \in Nat /\ nods' \in Seq(Nodes) /\ shared' \in BOOLEAN
                    /\ at' \in Nodes \cup {None} /\ threads' \in Nat
  <2>1. NextUnchanged
    BY DEF OnNext, RootNext, ScriptNext, ConditionNext, WaitOver, WaitAgain, LoopNext, LoopWhile,
           StepNext, ParallelFork, ForkWith, ParallelJoin, JoinWhen
  <2>2. tree' = tree
    BY <2>1 DEF NextUnchanged
  <2> QED BY <2>1, <2>2, SameTree DEF NextUnchanged, TypeOK, NodesOK, history
<1>0. tree' = tree /\ tree \in Trees
  BY DEF NextUnchanged, TypeOK
<1>a. /\ nod \in [Nodes -> NodeFields] /\ NodesOK
      /\ \A n \in Nodes : /\ nod[n].step \in Nat /\ nod[n].curLoop \in Nat /\ nod[n].threadNumber \in Nat
                          /\ Len(Children(n)) \in Nat /\ Limit(n) \in Int
                          /\ DOMAIN Children(n) = 1 .. Len(Children(n))
  <2>1. nod \in [Nodes -> NodeFields] /\ NodesOK
    BY DEF TypeOK, NodesOK
  <2>2. \A n \in Nodes : Children(n) \in Seq(Nodes) /\ Limit(n) \in Int
    BY <1>0, TreeFacts
  <2> QED BY <2>1, <2>2, FieldTypes
<1>b. ASSUME nod' \in [Nodes -> NodeFields],
             \A n \in Nodes : nod'[n].step <= Len(Children(n)) /\ (nod'[n].curLoop = 0 \/ nod'[n].curLoop <= Limit(n))
      PROVE  NodesOK'
  BY <1>b, <1>0, SameTree DEF NodesOK
<1>c. ASSUME NEW F, "step" \notin F, "curLoop" \notin F, Only(nod', nod, at, F) PROVE NodesOK'
  BY <1>c, <1>a, <1>b DEF NodesOK, Only, But
<1>e. nod' = nod => NodesOK'
  BY <1>a, <1>b DEF NodesOK
<1>f. nod' = [nod EXCEPT ![at].freeze = TRUE] /\ at \in Nodes => NodesOK'
  BY <1>a, <1>c, SetFreeze
<1>d. ASSUME CanDescend, at \in Nodes PROVE 1 \in DOMAIN Children(at)
  BY <1>d, <1>0, TreeFacts DEF CanDescend
<1>1. CASE RootNext
  <2>1. at \in Nodes
    BY <1>1 DEF RootNext, Advancing, TypeOK
  <2>2. CASE CanDescend
    BY <2>1, <2>2, <1>0, <1>1, <1>e, <1>f, <1>d, OpenTypes, SameTree DEF RootNext, Descend, TypeOK
  <2>3. CASE ~CanDescend
    BY <2>1, <2>3, <1>0, <1>1, <1>e, <1>f, SameTree DEF RootNext, TypeOK
  <2> QED BY <2>2, <2>3
<1>2. CASE ScriptNext
  <2>1. at \in Nodes \ {tree.root} /\ Parent(at) \in Nodes
    BY <1>2, HandTypes DEF ScriptNext, Kinds
  <2>2. CASE CanDescend
    BY <2>1, <2>2, <1>0, <1>2, <1>e, <1>f, <1>d, OpenTypes, SameTree DEF ScriptNext, Descend, TypeOK
  <2>3. CASE ~CanDescend
    BY <2>1, <2>3, <1>0, <1>2, <1>e, <1>f, CallTypes, SameTree DEF ScriptNext, TypeOK
  <2> QED BY <2>2, <2>3
<1>3. CASE ConditionNext
  <2>1. at \in Nodes \ {tree.root} /\ Parent(at) \in Nodes
    BY <1>3, HandTypes DEF ConditionNext, Kinds
  <2>2. CASE CanDescend /\ nod[at].succ
    BY <2>1, <2>2, <1>0, <1>3, <1>e, <1>f, <1>d, OpenTypes, SameTree DEF ConditionNext, Descend, TypeOK
  <2>3. CASE ~(CanDescend /\ nod[at].succ)
    BY <2>1, <2>3, <1>0, <1>3, <1>e, <1>f, CallTypes, SameTree DEF ConditionNext, TypeOK
  <2> QED BY <2>2, <2>3
<1>4. CASE WaitOver
  <2>1. at \in Nodes \ {tree.root} /\ Parent(at) \in Nodes
    BY <1>4, HandTypes DEF WaitOver, Kinds
  <2>2. NodesOK'
    <3>1. \/ nod' = [nod EXCEPT ![at].freeze = TRUE, ![at].waiting = FALSE]
          \/ nod' = [nod EXCEPT ![at].waiting = FALSE]
      BY <1>4 DEF WaitOver
    <3> QED BY <3>1, <2>1, <1>a, <1>c, SetBoth, SetWaiting
  <2>3. CASE CanDescend
    BY <2>1, <2>2, <2>3, <1>0, <1>4, <1>d, OpenTypes, SameTree DEF WaitOver, TypeOK
  <2>4. CASE ~CanDescend
    BY <2>1, <2>2, <2>4, <1>0, <1>4, CallTypes, SameTree DEF WaitOver, TypeOK
  <2> QED BY <2>3, <2>4
<1>5. CASE WaitAgain
  <2>1. at \in Nodes \ {tree.root} /\ Parent(at) \in Nodes
    BY <1>5, HandTypes DEF WaitAgain, Kinds
  <2>2. <<at>> \in Seq(Nodes)
    BY <2>1
  <2> QED BY <2>1, <2>2, <1>0, <1>5, <1>e, AppendFacts DEF WaitAgain, TypeOK
<1>6. CASE LoopNext
  <2> DEFINE more == Children(at) # <<>> /\ nod[at].curLoop < Limit(at)
  <2>1. at \in Nodes \ {tree.root} /\ Parent(at) \in Nodes
    BY <1>6, HandTypes DEF LoopNext, LoopWhile, Kinds
  <2>2. CASE more
    <3> DEFINE r == AfterReset(Subtree(at) \ {at})
    <3>1. r \in [Nodes -> NodeFields] /\ r[at] = nod[at]
      BY <1>0, <2>1, ResetTypes DEF AfterReset
    <3>2. \A n \in Nodes : \/ r[n].step = 0 /\ r[n].curLoop = 0
                           \/ r[n].step = nod[n].step /\ r[n].curLoop = nod[n].curLoop
      BY <1>0, ResetTypes DEF AfterReset
    <3>3. nod' = [r EXCEPT ![at].curLoop = @ + 1] /\ OpenChild(1) /\ UNCHANGED end
      BY <1>6, <2>2 DEF LoopNext, LoopWhile
    <3> HIDE DEF r
    <3>4. Only(nod', r, at, {"curLoop"}) /\ nod'[at].curLoop = nod[at].curLoop + 1
      BY <2>1, <3>1, <3>3, SetCurLoop
    <3>8. \A n \in Nodes : nod'[n].step <= Len(Children(n)) /\ (nod'[n].curLoop = 0 \/ nod'[n].curLoop <= Limit(n))
      <4> TAKE n \in Nodes
      <4>1. CASE n = at
        <5>1. nod'[at].step = nod[at].step
          BY <3>1, <3>4 DEF Only, But
        <5> QED BY <4>1, <5>1, <3>4, <1>a, <2>2 DEF NodesOK
      <4>2. CASE n # at
        <5>1. nod'[n] = r[n]
          BY <4>2, <3>4 DEF Only
        <5> QED BY <4>2, <5>1, <3>2, <1>a DEF NodesOK
      <4> QED BY <4>1, <4>2
    <3>9. 1 \in DOMAIN Children(at)
      BY <2>1, <2>2, <1>0, TreeFacts
    <3> QED BY <3>3, <3>4, <3>8, <3>9, <1>b, <1>0, <2>1, OpenTypes, SameTree DEF TypeOK, Only
  <2>3. CASE ~more
    BY <2>1, <2>3, <1>0, <1>6, <1>e, CallTypes, SameTree DEF LoopNext, LoopWhile, TypeOK
  <2> QED BY <2>2, <2>3
<1>7. CASE StepNext
  <2>1. at \in Nodes \ {tree.root} /\ Parent(at) \in Nodes
    BY <1>7, HandTypes DEF StepNext, Kinds
  <2>2. CASE nod[at].step < Len(Children(at))
    <3>1. nod' = [nod EXCEPT ![at].step = @ + 1] /\ OpenChild(nod[at].step + 1) /\ UNCHANGED end
      BY <1>7, <2>2 DEF StepNext
    <3>2. Only(nod', nod, at, {"step"}) /\ nod'[at].step = nod[at].step + 1
      BY <3>1, <1>a, <2>1, SetStep
    <3>3. \A n \in Nodes : /\ nod'[n].curLoop = nod[n].curLoop
                           /\ nod'[n].step = IF n = at THEN nod[n].step + 1 ELSE nod[n].step
      BY <3>2 DEF Only, But
    <3>4. NodesOK'
      BY <3>2, <3>3, <2>1, <2>2, <1>a, <1>b DEF NodesOK, Only
    <3>5. nod[at].step + 1 \in DOMAIN Children(at)
      BY <2>1, <2>2, <1>a
    <3> QED BY <3>1, <3>4, <3>5, <1>0, <2>1, OpenTypes, SameTree DEF TypeOK
  <2>3. CASE ~(nod[at].step < Len(Children(at)))
    BY <2>1, <2>3, <1>0, <1>7, <1>e, CallTypes, SameTree DEF StepNext, TypeOK
  <2> QED BY <2>2, <2>3
<1>8. CASE ParallelFork
  <2> DEFINE k(n) == CHOOSE j \in DOMAIN Children(at) : Children(at)[j] = n
  <2>1. at \in Nodes \ {tree.root}
    BY <1>8, HandTypes DEF ParallelFork, ForkWith, Kinds
  <2>2. Children(at) \in Seq(Nodes) /\ Len(Children(at)) \in Nat
    BY <2>1, <1>0, TreeFacts
  <2>3. /\ BlackboardAppend(Children(at)) /\ at' = None /\ threads' = threads + Len(Children(at)) /\ end' = end
        /\ nod' = [n \in Nodes |->
             IF n = at THEN [nod[n] EXCEPT !.freeze = TRUE]
             ELSE IF n \in ChildSet(at) /\ nod[n].threadNumber = 0
             THEN [nod[n] EXCEPT !.threadNumber = [j \in DOMAIN Children(at) |-> threads + j][k(n)]]
             ELSE nod[n]]
    BY <1>8 DEF ParallelFork, ForkWith
  <2>4. \A n \in ChildSet(at) : k(n) \in DOMAIN Children(at)
    BY DEF ChildSet
  <2> HIDE DEF k
  <2>x. threads \in Nat
    BY DEF TypeOK
  <2>y. DOMAIN Children(at) = 1 .. Len(Children(at))
    BY <2>2
  <2>5. \A n \in ChildSet(at) : [j \in DOMAIN Children(at) |-> threads + j][k(n)] \in Nat
    BY <2>2, <2>4, <2>x, <2>y
  <2>6. \A n \in Nodes : /\ nod'[n] \in NodeFields
                         /\ nod'[n].step = nod[n].step /\ nod'[n].curLoop = nod[n].curLoop
    BY <2>3, <2>5, <1>a DEF NodeFields
  <2>7. NodesOK'
    BY <2>3, <2>6, <1>a, <1>b DEF NodesOK
  <2>8. threads' \in Nat /\ at' \in Nodes \cup {None}
    BY <2>2, <2>3, <2>x
  <2>10. end' \in BOOLEAN
    BY <2>3 DEF TypeOK
  <2>9. open' \in Seq(Nodes) /\ cap' \in Nat /\ nods' \in Seq(Nodes) /\ shared' \in BOOLEAN
    BY <2>2, <2>3, AppendFacts DEF TypeOK
  <2> QED BY <2>7, <2>8, <2>9, <2>10
<1>9. CASE ParallelJoin
  <2>1. at \in Nodes \ {tree.root} /\ Parent(at) \in Nodes
    BY <1>9, HandTypes DEF ParallelJoin, JoinWhen, Kinds
  <2>2. nod' = [nod EXCEPT ![at].threadNumber = @ + 1] /\ end' = end
    BY <1>9 DEF ParallelJoin, JoinWhen
  <2>4. NodesOK'
    BY <2>1, <2>2, <1>a, <1>c, SetNumber
  <2> QED BY <2>1, <2>2, <2>4, <1>0, <1>9, CallTypes, SameTree DEF ParallelJoin, JoinWhen, TypeOK
<1> QED BY <1>1, <1>2, <1>3, <1>4, <1>5, <1>6, <1>7, <1>8, <1>9 DEF OnNext

\* The state check keeps the types of what it writes.
LEMMA StateCheckTypes ==
  ASSUME TypeOK, NEW n \in Nodes, NEW r \in Results \cup {"Succ"}, StateCheck(n, r),
         NodesOK', visits' \in [Nodes -> Nat], passed' \in [Nodes -> Nat]
  PROVE  TypeOK'
<1>1. tree' = tree
  BY DEF StateCheck
<1>2. SlicesOK'
  <2>1. ticked' = Append(ticked, n) /\ open' = open /\ nods' = nods /\ SlicesOK
    BY TypeParts DEF StateCheck, blackboard
  <2> QED BY <1>1, <2>1, SameTree DEF SlicesOK
<1>3. i' \in Nat \ {0}
  <2>1. i \in Nat \ {0} /\ i' = i + 1
    BY TypeParts DEF StateCheck, ScalarsOK
  <2> QED BY <2>1
<1>4. ScalarsOK'
  BY <1>1, <1>3, SameTree, TypeParts DEF StateCheck, ScalarsOK, blackboard
<1> QED BY <1>2, <1>4, TypeParts

\* Every onTick keeps TypeOK.
LEMMA OnTickTypes == ASSUME TypeOK, NEW n \in Nodes,
                            ScriptTick(n) \/ ConditionTick(n) \/ WaitTick(n) \/ SelectorTick(n) \/ PlainTick(n)
                     PROVE TypeOK'
<1>0. tree \in Trees /\ nod \in [Nodes -> NodeFields] /\ visits \in [Nodes -> Nat] /\ passed \in [Nodes -> Nat] /\ NodesOK
  BY DEF TypeOK, NodesOK
<1>1. Visit(n) => visits' \in [Nodes -> Nat]
  BY <1>0 DEF Visit
<1>2. ASSUME tree' = tree, NEW F, "step" \notin F, "curLoop" \notin F, Only(nod', nod, n, F) PROVE NodesOK'
  BY <1>2, <1>0, SameTree DEF NodesOK, Only, But
<1>3. tree' = tree /\ nod' = nod => NodesOK'
  BY <1>0, SameTree DEF NodesOK
<1>4. CASE ScriptTick(n)
  BY <1>4, <1>0, <1>1, <1>3, StateCheckTypes DEF ScriptTick, StateCheck
<1>5. CASE ConditionTick(n)
  <2>1. PICK s \in BOOLEAN : /\ nod' = [nod EXCEPT ![n].succ = s]
                             /\ passed' = IF s THEN [passed EXCEPT ![n] = @ + 1] ELSE passed
    BY <1>5 DEF ConditionTick
  <2>2. passed' \in [Nodes -> Nat]
    BY <2>1, <1>0
  <2>3. Only(nod', nod, n, {"succ"})
    BY <2>1, <1>0, SetSucc
  <2>4. tree' = tree /\ StateCheck(n, "Succ") /\ Visit(n)
    BY <1>5 DEF ConditionTick, StateCheck
  <2> QED BY <2>2, <2>3, <2>4, <1>1, <1>2, StateCheckTypes
<1>6. CASE WaitTick(n)
  <2>1. nod' = [nod EXCEPT ![n].waiting = TRUE] /\ StateCheck(n, "Succ") /\ tree' = tree /\ passed' = passed
        /\ (visits' = visits \/ Visit(n))
    BY <1>6 DEF WaitTick, StateCheck
  <2>2. Only(nod', nod, n, {"waiting"})
    BY <2>1, <1>0, SetWaiting
  <2> QED BY <2>1, <2>2, <1>0, <1>1, <1>2, StateCheckTypes
<1>7. CASE SelectorTick(n)
  <2>1. CASE UNCHANGED <<tree, mode, nod, blackboard, nods, shared, i, at, state, runs, history>>
             /\ phase' = "ended" /\ outcome' = "panic"
    BY <2>1, SameTree DEF TypeOK, blackboard, history
  <2>2. CASE /\ nod' = nod \/ nod' = [nod EXCEPT ![n].step = Len(Children(n))]
             /\ StateCheck(n, "Succ") /\ Visit(n) /\ passed' = passed
    <3>1. tree' = tree
      BY <2>2 DEF StateCheck
    <3>2. ASSUME nod' = [nod EXCEPT ![n].step = Len(Children(n))] PROVE NodesOK'
      <4>1. Len(Children(n)) \in Nat
        BY <1>0, TreeFacts
      <4>2. Only(nod', nod, n, {"step"}) /\ nod'[n].step = Len(Children(n))
        BY <3>2, <4>1, <1>0 DEF Only, But, NodeFields
      <4> QED BY <4>1, <4>2, <3>1, <1>0, SameTree DEF NodesOK, Only, But
    <3> QED BY <2>2, <3>1, <3>2, <1>0, <1>1, <1>3, StateCheckTypes
  <2> QED BY <1>7, <2>1, <2>2 DEF SelectorTick
<1>8. CASE PlainTick(n)
  BY <1>8, <1>0, <1>1, <1>3, StateCheckTypes DEF PlainTick, StateCheck
<1> QED BY <1>4, <1>5, <1>6, <1>7, <1>8

\* TypeOK holds of a bot that begins.
LEMMA InitTypes == Init => TypeOK
<1> SUFFICES ASSUME Init PROVE TypeOK
  OBVIOUS
<1>1. tree \in Trees
  BY DEF Init
<1>2. NodesOK
  <2>1. \A n \in Nodes : FreshNode(tree, n) \in NodeFields
    BY DEF FreshNode, NodeFields
  <2>2. \A n \in Nodes : FreshNode(tree, n).step = 0 /\ FreshNode(tree, n).curLoop = 0
    BY DEF FreshNode
  <2>3. nod = [n \in Nodes |-> FreshNode(tree, n)]
    BY DEF Init, Fresh, Nodes
  <2>4. \A n \in Nodes : Len(Children(n)) \in Nat
    BY <1>1, TreeFacts
  <2> QED BY <2>1, <2>2, <2>3, <2>4 DEF NodesOK
<1>3. SlicesOK
  <2>1. <<tree.root>> \in Seq(Nodes) /\ <<>> \in Seq(Nodes)
    BY <1>1, TreeFacts
  <2> QED BY <2>1 DEF Init, SlicesOK
<1>4. visits \in [Nodes -> Nat] /\ passed \in [Nodes -> Nat]
  BY DEF Init, Zero, Nodes
<1>5. 1 \in Nat \ {0} /\ 1 \in Nat
  OBVIOUS
<1>6. ScalarsOK
  BY <1>1, <1>4, <1>5 DEF Init, ScalarsOK
<1> QED BY <1>2, <1>3, <1>6, TypeParts

\* Every step keeps TypeOK.
LEMMA NextTypes == TypeOK /\ [Next]_vars => TypeOK'
<1> SUFFICES ASSUME TypeOK, [Next]_vars PROVE TypeOK'
  OBVIOUS
<1>0. tree \in Trees
  BY DEF TypeOK
<1>a. NodesOK /\ SlicesOK /\ ScalarsOK
  BY TypeParts
<1>b. tree' = tree /\ nod' = nod => NodesOK'
  BY <1>a, SameTree DEF NodesOK
<1>d. 1 \in Nat \ {0}
  OBVIOUS
<1>c. <<>> \in Seq(Nodes) /\ <<tree.root>> \in Seq(Nodes)
  BY <1>0, TreeFacts
<1>1. CASE DoBegin
  <2>1. tree' = tree /\ nod' = nod /\ nods' = open /\ open' = open /\ ticked' = <<>>
    BY <1>1 DEF DoBegin, blackboard
  <2>2. SlicesOK'
    BY <2>1, <1>a, <1>c, SameTree DEF SlicesOK
  <2>3. ScalarsOK'
    BY <1>1, <1>a, <1>d, <2>1, SameTree DEF DoBegin, ScalarsOK, blackboard
  <2> QED BY <2>1, <2>2, <2>3, <1>b, TypeParts
<1>2. CASE OnTick
  BY <1>2, OnTickTypes DEF OnTick
<1>3. CASE TickEnd
  <2>1. tree' = tree /\ nod' = nod /\ nods' = nods /\ open' = <<>> /\ ticked' = ticked
    BY <1>3 DEF TickEnd, history
  <2>2. SlicesOK'
    BY <2>1, <1>a, <1>c, SameTree DEF SlicesOK
  <2>3. ScalarsOK'
    BY <1>3, <1>a, <1>d, <2>1, SameTree DEF TickEnd, ScalarsOK, history
  <2> QED BY <2>1, <2>2, <2>3, <1>b, TypeParts
<1>4. CASE RangeNext
  <2>1. nods[i] \in Nodes
    <3>1. i <= Len(nods) /\ i \in Nat \ {0} /\ nods \in Seq(Nodes)
      BY <1>4, <1>a DEF RangeNext, SlicesOK, ScalarsOK
    <3> QED BY <3>1
  <2>2. tree' = tree /\ nod' = nod /\ UNCHANGED <<nods, open, ticked>>
    BY <1>4 DEF RangeNext, blackboard, history
  <2>3. SlicesOK'
    BY <2>2, <1>a, SameTree DEF SlicesOK
  <2>5. i' \in Nat \ {0}
    <3>1. i \in Nat \ {0} /\ i' = i + 1
      BY <1>4, <1>a DEF RangeNext, ScalarsOK
    <3> QED BY <3>1
  <2>4. ScalarsOK'
    BY <1>4, <1>a, <2>1, <2>2, <2>5, SameTree DEF RangeNext, ScalarsOK, blackboard, history
  <2> QED BY <2>2, <2>3, <2>4, <1>b, TypeParts
<1>5. CASE OnNext
  BY <1>5, OnNextTypes
<1>6. CASE DoEnd
  <2>1. tree' = tree /\ nod' = nod /\ nods' = <<>> /\ ticked' = <<>> /\ open' = open
    BY <1>6 DEF DoEnd, blackboard
  <2>2. SlicesOK'
    BY <2>1, <1>a, <1>c, SameTree DEF SlicesOK
  <2>3. ScalarsOK'
    BY <1>6, <1>a, <1>d, <2>1, SameTree DEF DoEnd, ScalarsOK, blackboard
  <2> QED BY <2>1, <2>2, <2>3, <1>b, TypeParts
<1>7. CASE Close
  <2>1. AfterReset(Nodes) \in [Nodes -> NodeFields]
    BY <1>0, ResetTypes
  <2>2. \A n \in Nodes : AfterReset(Nodes)[n].step = 0 /\ AfterReset(Nodes)[n].curLoop = 0
    BY <1>0, ResetTypes DEF AfterReset
  <2>3. \A n \in Nodes : Len(Children(n)) \in Nat
    BY <1>0, TreeFacts
  <2>4. nod' = AfterReset(Nodes) /\ tree' = tree /\ nods' = <<>> /\ ticked' = <<>> /\ open' = open
    BY <1>7 DEF Close, blackboard
  <2>5. NodesOK'
    BY <2>1, <2>2, <2>3, <2>4, SameTree DEF NodesOK
  <2>6. SlicesOK'
    BY <2>4, <1>a, <1>c, SameTree DEF SlicesOK
  <2>7. ScalarsOK'
    BY <1>7, <1>a, <1>d, <2>4, SameTree DEF Close, ScalarsOK, blackboard
  <2> QED BY <2>5, <2>6, <2>7, TypeParts
<1>8. CASE NewBot
  <2>1. tree' = tree /\ nod' = nod /\ open' = <<tree.root>> /\ UNCHANGED <<nods, ticked>>
    BY <1>8 DEF NewBot
  <2>2. SlicesOK'
    BY <2>1, <1>a, <1>c, SameTree DEF SlicesOK
  <2>3. visits' \in [Nodes -> Nat] /\ passed' \in [Nodes -> Nat]
    BY <1>8 DEF NewBot, Zero, Nodes
  <2>5. runs' \in Nat
    <3>1. runs \in Nat /\ runs' = runs + 1
      BY <1>8, <1>a DEF NewBot, ScalarsOK
    <3> QED BY <3>1
  <2>4. ScalarsOK'
    BY <1>8, <1>a, <2>1, <2>3, <2>5, SameTree DEF NewBot, ScalarsOK
  <2> QED BY <2>1, <2>2, <2>4, <1>b, TypeParts
<1>9. CASE UNCHANGED vars
  BY <1>9, SameTree DEF vars, blackboard, local, history, TypeOK
<1> QED BY <1>1, <1>2, <1>3, <1>4, <1>5, <1>6, <1>7, <1>8, <1>9 DEF Next, Do

\* The fields of the nodes, the slices and the places in them stay within their types, for
\* every tree: the handlers index the children of a node only where there is one.
THEOREM TypeCorrect == Spec => []TypeOK
BY InitTypes, NextTypes, PTL DEF Spec

-----------------------------------------------------------------------------
(* What is active, and how the handlers move it. *)

\* The node in hand, when an onNext is running, comes after what has been appended.
Hand == IF phase = "next" /\ at # None THEN 1 ELSE 0
HandAt(j) == Hand = 1 /\ j = Len(open) + 1

\* What is yet to be handled: the open nodes, or in the second range what has been
\* appended, the node in hand, and what the range has yet to read.
Active ==
  CASE phase = "idle" -> open
    [] phase = "tick" -> nods
    [] phase = "next" ->
         [j \in 1 .. (Len(open) + Hand + (Len(nods) - i + 1)) |->
            IF j <= Len(open) THEN open[j]
            ELSE IF HandAt(j) THEN at ELSE nods[j - Len(open) - Hand + (i - 1)]]
    [] OTHER -> <<>>

\* The active nodes that have been ticked and whose onNext is still to come, or running.
Executed(j) ==
  \/ phase = "tick" /\ j < i
  \/ phase = "next" /\ j > Len(open)

\* Where the two ranges of Do are.  The last conjunct keeps what onNext appends to the
\* blackboard behind the elements the second range has read.
Slices ==
  /\ phase # "next" => at = None
  /\ end => phase \in {"next", "ended", "pooled"}
  /\ phase = "tick" =>
       /\ i \in 1 .. (Len(nods) + 1) /\ Len(ticked) = i - 1
       /\ \A k \in 1 .. (i - 1) : ticked[k] = nods[k]
  /\ phase = "next" =>
       /\ i \in 1 .. (Len(nods) + 1) /\ Len(ticked) = Len(nods)
       /\ \A k \in i .. Len(nods) : ticked[k] = nods[k]
       /\ i > Len(nods) \/ Len(open) + Hand <= i - 1

\* The types of the slices.
LEMMA SliceTypes ==
  ASSUME TypeOK
  PROVE  /\ tree \in Trees /\ i \in Nat \ {0} /\ at \in Nodes \cup {None}
         /\ open \in Seq(Nodes) /\ nods \in Seq(Nodes) /\ ticked \in Seq(Nodes)
         /\ Len(open) \in Nat /\ Len(nods) \in Nat /\ Len(ticked) \in Nat
         /\ \A j \in 1 .. Len(open) : open[j] \in Nodes
         /\ \A j \in 1 .. Len(nods) : nods[j] \in Nodes
         /\ DOMAIN open = 1 .. Len(open) /\ DOMAIN nods = 1 .. Len(nods)
         /\ cap \in Nat /\ shared \in BOOLEAN
<1>1. open \in Seq(Nodes) /\ nods \in Seq(Nodes) /\ ticked \in Seq(Nodes)
  BY DEF TypeOK
<1>2. tree \in Trees /\ i \in Nat \ {0} /\ at \in Nodes \cup {None} /\ cap \in Nat /\ shared \in BOOLEAN
  BY DEF TypeOK
<1> QED BY <1>1, <1>2

\* In the second range: what is appended, the node in hand, what is yet to be read.
LEMMA NextActive ==
  ASSUME TypeOK, Slices, phase = "next"
  PROVE  /\ Active \in Seq(Nodes) /\ DOMAIN Active = 1 .. Len(Active)
         /\ Len(Active) = Len(open) + Hand + (Len(nods) - i + 1) /\ Hand \in {0, 1}
         /\ \A j \in 1 .. Len(open) : Active[j] = open[j]
         /\ Hand = 1 => Active[Len(open) + 1] = at
         /\ \A j \in DOMAIN Active : j > Len(open) + Hand => Active[j] = nods[j - Len(open) - Hand + (i - 1)]
<1> DEFINE L == Len(open) + Hand + (Len(nods) - i + 1)
<1>1. L \in Nat /\ Hand \in {0, 1} /\ (Hand = 1 => at \in Nodes) /\ Len(open) + Hand <= L
  BY SliceTypes DEF Slices, Hand
<1>2. Active = [j \in 1 .. L |-> IF j <= Len(open) THEN open[j]
                  ELSE IF HandAt(j) THEN at ELSE nods[j - Len(open) - Hand + (i - 1)]]
  BY DEF Active
<1> HIDE DEF L
<1>3. \A j \in 1 .. L : /\ j <= Len(open) => Active[j] = open[j]
                        /\ HandAt(j) => Active[j] = at
                        /\ j > Len(open) + Hand => Active[j] = nods[j - Len(open) - Hand + (i - 1)]
  BY <1>1, <1>2, SliceTypes DEF HandAt
<1>4. \A j \in 1 .. L : j > Len(open) + Hand => j - Len(open) - Hand + (i - 1) \in 1 .. Len(nods)
  BY <1>1, SliceTypes DEF L, Slices
<1>5. \A j \in 1 .. L : j <= Len(open) \/ HandAt(j) \/ j > Len(open) + Hand
  BY <1>1, SliceTypes DEF HandAt
<1>6. \A j \in 1 .. L : Active[j] \in Nodes
  BY <1>1, <1>3, <1>4, <1>5, SliceTypes DEF HandAt
<1>7. Active \in [1 .. L -> Nodes]
  BY <1>2, <1>6
<1>8. Active \in Seq(Nodes) /\ Len(Active) = L /\ DOMAIN Active = 1 .. L
  BY <1>1, <1>7
<1>9. \A j \in 1 .. Len(open) : j \in 1 .. L
  BY <1>1, SliceTypes
<1>10. Hand = 1 => Len(open) + 1 \in 1 .. L /\ HandAt(Len(open) + 1)
  BY <1>1, SliceTypes DEF HandAt
<1>11. \A j \in 1 .. Len(open) : Active[j] = open[j]
  BY <1>3, <1>9
<1>12. Hand = 1 => Active[Len(open) + 1] = at
  BY <1>3, <1>10
<1> QED BY <1>1, <1>3, <1>8, <1>11, <1>12 DEF L

\* What is active are nodes.
LEMMA ActiveType ==
  ASSUME TypeOK, Slices
  PROVE  /\ Active \in Seq(Nodes) /\ DOMAIN Active = 1 .. Len(Active) /\ Len(Active) \in Nat
         /\ \A j \in DOMAIN Active : Active[j] \in Nodes
<1>1. CASE phase = "next"
  <2>1. Active \in Seq(Nodes)
    BY <1>1, NextActive
  <2> QED BY <2>1
<1>2. CASE phase # "next"
  <2>1. Active \in {open, nods, <<>>}
    BY <1>2 DEF Active
  <2>2. <<>> \in Seq(Nodes) /\ open \in Seq(Nodes) /\ nods \in Seq(Nodes)
    BY SliceTypes
  <2>3. Active \in Seq(Nodes)
    BY <2>1, <2>2
  <2> QED BY <2>3
<1> QED BY <1>1, <1>2

\* What is active, place by place.
ActiveShape ==
  /\ Active \in Seq(Nodes) /\ Len(Active) \in Nat /\ DOMAIN Active = 1 .. Len(Active)
  /\ \A j \in DOMAIN Active : Active[j] \in Nodes
  /\ phase = "next" =>
       /\ Len(Active) = Len(open) + Hand + (Len(nods) - i + 1) /\ Hand \in {0, 1}
       /\ \A j \in 1 .. Len(open) : Active[j] = open[j]
       /\ Hand = 1 => Active[Len(open) + 1] = at
       /\ \A j \in DOMAIN Active :
            j > Len(open) + Hand => Active[j] = nods[j - Len(open) - Hand + (i - 1)]

\* The types and the slices give the shape of what is active ...
LEMMA Shape == TypeOK /\ Slices => ActiveShape
BY NextActive, ActiveType DEF ActiveShape

\* ... also after a step.
LEMMA ShapeNext == TypeOK' /\ Slices' => ActiveShape'
BY Shape, PTL

\* Sequences with the same elements are the same.
LEMMA SameSeq ==
  ASSUME NEW S, NEW s \in Seq(S), NEW t \in Seq(S), Len(s) = Len(t),
         \A j \in 1 .. Len(s) : s[j] = t[j]
  PROVE  s = t
BY SeqEqual

\* The steps that move on to the next phase or the next element: what is active stays.
LEMMA QuietMoves ==
  ASSUME TypeOK, Slices, TypeOK', DoBegin \/ TickEnd \/ RangeNext \/ (DoEnd /\ phase' = "idle")
  PROVE  /\ Slices' /\ Active' = Active
         /\ \A j \in DOMAIN Active : (Executed(j)' <=> Executed(j)) /\ ~HandAt(j)
<1>0. ActiveShape
  BY Shape
<1>t. tree' = tree
  BY DEF DoBegin, TickEnd, RangeNext, DoEnd
<1>1. CASE DoBegin
  <2>0. /\ phase = "idle" /\ phase' = "tick" /\ i' = 1 /\ ticked' = <<>> /\ nods' = open
        /\ open' = open /\ end' = end /\ at' = at
    BY <1>1 DEF DoBegin, blackboard
  <2>4. at = None /\ ~end /\ Len(ticked') = 0 /\ Len(nods') \in Nat
    BY <2>0, SliceTypes DEF Slices
  <2>1. Slices'
    BY <2>0, <2>4 DEF Slices
  <2>2. Active = open /\ Active' = open
    BY <1>1 DEF DoBegin, Active
  <2>3. \A j \in DOMAIN Active : ~Executed(j)' /\ ~Executed(j) /\ ~HandAt(j)
    <3>1. \A j \in DOMAIN Active : j >= 1
      BY <1>0 DEF ActiveShape
    <3> QED BY <3>1, <2>0 DEF Executed, HandAt, Hand
  <2> QED BY <2>1, <2>2, <2>3
<1>2. CASE TickEnd
  <2>0. /\ phase = "tick" /\ phase' = "next" /\ i > Len(nods) /\ i' = 1 /\ open' = <<>> /\ nods' = nods
        /\ at' = at /\ end' = end /\ ticked' = ticked
    BY <1>2 DEF TickEnd, history
  <2>1. i = Len(nods) + 1 /\ Len(ticked) = Len(nods) /\ at = None /\ ~end
    BY <2>0, SliceTypes DEF Slices
  <2>2. Hand' = 0 /\ Hand = 0 /\ Len(open') = 0
    BY <2>0, <2>1 DEF Hand
  <2>3. Slices'
    BY <2>0, <2>1, <2>2, SliceTypes DEF Slices
  <2>4. ActiveShape'
    BY <2>3, ShapeNext
  <2>5. Active = nods
    BY <2>0 DEF Active
  <2>6. /\ Active' \in Seq(Nodes) /\ Len(Active') = Len(nods)
        /\ DOMAIN Active' = 1 .. Len(Active')
        /\ \A j \in DOMAIN Active' : j > 0 => Active'[j] = nods[j]
    <3>1. Len(Active') = 0 + 0 + (Len(nods) - 1 + 1)
      BY <2>0, <2>2, <2>4 DEF ActiveShape
    <3>2. \A j \in DOMAIN Active' : j > 0 + 0 => Active'[j] = nods[j - 0 - 0 + (1 - 1)]
      BY <2>0, <2>2, <2>4 DEF ActiveShape
    <3>3. Active' \in Seq(Nodes) /\ DOMAIN Active' = 1 .. Len(Active')
      BY <2>4, <1>t, SameTree DEF ActiveShape
    <3> QED BY <3>1, <3>2, <3>3, SliceTypes
  <2>7. Active' = Active
    <3>1. nods \in Seq(Nodes) /\ \A j \in 1 .. Len(nods) : Active'[j] = nods[j]
      BY <2>6, SliceTypes
    <3> QED BY <2>5, <2>6, <3>1, SameSeq
  <2>8. \A j \in DOMAIN Active : Executed(j)' /\ Executed(j) /\ ~HandAt(j)
    BY <2>0, <2>1, <2>2, <2>5, SliceTypes DEF Executed, HandAt
  <2> QED BY <2>3, <2>7, <2>8
<1>3. CASE RangeNext
  <2>0. /\ phase = "next" /\ phase' = "next" /\ at = None /\ i <= Len(nods) /\ at' = nods[i] /\ i' = i + 1
        /\ open' = open /\ nods' = nods /\ end' = end /\ ticked' = ticked
    BY <1>3 DEF RangeNext, blackboard, history
  <2>1. nods[i] \in Nodes /\ nods[i] # None
    BY <2>0, SliceTypes, TreeFacts
  <2>2. Hand = 0 /\ Hand' = 1
    BY <2>0, <2>1 DEF Hand
  <2>3. Slices'
    BY <2>0, <2>2, SliceTypes DEF Slices
  <2>4. ActiveShape'
    BY <2>3, ShapeNext
  <2>5. Len(Active') = Len(Active) /\ Active' \in Seq(Nodes) /\ DOMAIN Active' = 1 .. Len(Active')
    <3>1. Len(Active') = Len(open) + 1 + (Len(nods) - (i + 1) + 1)
      BY <2>0, <2>2, <2>4 DEF ActiveShape
    <3>2. Len(Active) = Len(open) + 0 + (Len(nods) - i + 1)
      BY <1>0, <2>0, <2>2 DEF ActiveShape
    <3>3. Active' \in Seq(Nodes) /\ DOMAIN Active' = 1 .. Len(Active')
      BY <2>4, <1>t, SameTree DEF ActiveShape
    <3> QED BY <3>1, <3>2, <3>3, SliceTypes
  <2>6. ASSUME NEW j \in 1 .. Len(Active) PROVE Active'[j] = Active[j]
    <3>0. j \in DOMAIN Active /\ j \in DOMAIN Active' /\ j \in Int
      BY <1>0, <2>5 DEF ActiveShape
    <3>1. CASE j <= Len(open)
      <4>1. j \in 1 .. Len(open)
        BY <3>1, SliceTypes
      <4> QED BY <4>1, <1>0, <2>0, <2>4 DEF ActiveShape
    <3>2. CASE j = Len(open) + 1
      <4>0. j > Len(open) + 0
        BY <3>2, SliceTypes
      <4>1. Active[j] = nods[j - Len(open) - 0 + (i - 1)]
        BY <1>0, <2>0, <2>2, <3>0, <4>0 DEF ActiveShape
      <4>2. j - Len(open) - 0 + (i - 1) = i
        BY <3>2, SliceTypes
      <4>3. Active'[j] = nods[i]
        BY <3>2, <2>0, <2>2, <2>4 DEF ActiveShape
      <4> QED BY <4>1, <4>2, <4>3
    <3>3. CASE j > Len(open) + 1
      <4>0. j > Len(open) + 0
        BY <3>0, <3>3, SliceTypes
      <4>1. Active[j] = nods[j - Len(open) - 0 + (i - 1)]
        BY <1>0, <2>0, <2>2, <3>0, <4>0 DEF ActiveShape
      <4>2. Active'[j] = nods[j - Len(open) - 1 + ((i + 1) - 1)]
        BY <2>0, <2>2, <2>4, <3>0, <3>3 DEF ActiveShape
      <4>3. j - Len(open) - 1 + ((i + 1) - 1) = j - Len(open) - 0 + (i - 1)
        BY SliceTypes
      <4> QED BY <4>1, <4>2, <4>3
    <3> QED BY <3>0, <3>1, <3>2, <3>3, SliceTypes
  <2>7. Active' = Active
    BY <2>5, <2>6, <1>0, SameSeq DEF ActiveShape
  <2>8. \A j \in DOMAIN Active : (Executed(j)' <=> Executed(j)) /\ ~HandAt(j)
    BY <2>0, <2>2 DEF Executed, HandAt
  <2> QED BY <2>3, <2>7, <2>8
<1>4. CASE DoEnd /\ phase' = "idle"
  <2>0. /\ phase = "next" /\ at = None /\ i > Len(nods) /\ ~end /\ at' = at /\ open' = open /\ end' = end
    BY <1>4 DEF DoEnd, blackboard
  <2>1. Hand = 0 /\ i = Len(nods) + 1
    BY <2>0, SliceTypes DEF Hand, Slices
  <2>2. Slices'
    BY <1>4, <2>0 DEF Slices
  <2>3. Active' = open
    BY <1>4, <2>0 DEF Active
  <2>4. Active \in Seq(Nodes) /\ Len(Active) = Len(open) /\ \A j \in 1 .. Len(open) : Active[j] = open[j]
    <3>1. Len(Active) = Len(open) + 0 + (Len(nods) - i + 1)
      BY <1>0, <2>0, <2>1 DEF ActiveShape
    <3> QED BY <3>1, <2>1, <1>0, <2>0, SliceTypes DEF ActiveShape
  <2>5. Active = open
    BY <2>4, SliceTypes, SameSeq
  <2>6. \A j \in DOMAIN Active : ~Executed(j)' /\ ~Executed(j) /\ ~HandAt(j)
    BY <1>4, <2>0, <2>1, <2>5, SliceTypes DEF Executed, HandAt
  <2> QED BY <2>2, <2>3, <2>5, <2>6
<1> QED BY <1>1, <1>2, <1>3, <1>4

\* What the range and the blackboard hold while a node is in hand.
LEMMA InHand ==
  ASSUME TypeOK, Slices, phase = "next", at # None
  PROVE  /\ Hand = 1 /\ at \in Nodes /\ Len(open) + 1 \in DOMAIN Active
         /\ Active[Len(open) + 1] = at
         /\ Len(Active) = Len(open) + 1 + (Len(nods) - i + 1)
         /\ \A j : HandAt(j) <=> j = Len(open) + 1
         /\ \A j \in DOMAIN Active : Executed(j) <=> j > Len(open)
         /\ i > Len(nods) \/ Len(open) + 1 <= i - 1
         /\ i \in 1 .. (Len(nods) + 1) /\ Len(ticked) = Len(nods)
         /\ \A k \in i .. Len(nods) : ticked[k] = nods[k]
<1>1. Hand = 1 /\ at \in Nodes /\ \A j : HandAt(j) <=> j = Len(open) + 1
  BY SliceTypes DEF Hand, HandAt
<1>2. Active[Len(open) + 1] = at /\ Len(Active) = Len(open) + 1 + (Len(nods) - i + 1) /\ DOMAIN Active = 1 .. Len(Active)
  BY <1>1, Shape DEF ActiveShape
<1>3. /\ i \in 1 .. (Len(nods) + 1) /\ Len(ticked) = Len(nods)
      /\ \A k \in i .. Len(nods) : ticked[k] = nods[k]
      /\ i > Len(nods) \/ Len(open) + 1 <= i - 1
  BY <1>1 DEF Slices
<1>4. Len(open) + 1 \in DOMAIN Active
  BY <1>2, <1>3, SliceTypes
<1> QED BY <1>1, <1>2, <1>3, <1>4 DEF Executed

\* The node at place h is replaced by x, all other places stay as they are.
Replaced(h, x) ==
  /\ h \in DOMAIN Active /\ Len(Active') = Len(Active) /\ Active'[h] = x
  /\ \A j \in DOMAIN Active : j # h =>
       Active'[j] = Active[j] /\ (Executed(j)' <=> Executed(j)) /\ ~HandAt(j) /\ ~HandAt(j)'

\* A node is appended to the blackboard: it takes the place of the node in hand.
LEMMA PutMoves ==
  ASSUME TypeOK, Slices, TypeOK', phase = "next", at # None, NextUnchanged, end' = end,
         NEW x \in Nodes, BlackboardAppend(<<x>>), at' = None
  PROVE  /\ Slices'
         /\ \E h \in DOMAIN Active : /\ h = Len(open) + 1 /\ Replaced(h, x)
                                     /\ ~HandAt(h)' /\ ~Executed(h)'
<1> PICK h \in DOMAIN Active : h = Len(open) + 1
  BY InHand
<1>0. phase' = "next" /\ i' = i /\ ticked' = ticked /\ tree' = tree /\ Hand' = 0
  BY DEF NextUnchanged, history, Hand
<1>1. /\ Len(open') = h /\ open'[h] = x /\ \A j \in 1 .. Len(open) : open'[j] = open[j]
      /\ Len(nods') = Len(nods) /\ \A k \in DOMAIN nods : k > h => nods'[k] = nods[k]
  <2>1. <<x>> \in Seq(Nodes) /\ Len(<<x>>) = 1 /\ <<x>>[1] = x /\ 1 \in 1 .. 1
    OBVIOUS
  <2> QED BY <2>1, AppendFacts, SliceTypes
<1>2. \A k \in i .. Len(nods) : nods'[k] = nods[k]
  <2>1. ASSUME NEW k \in i .. Len(nods) PROVE nods'[k] = nods[k]
    <3>1. i \in Nat \ {0} /\ Len(nods) \in Nat /\ Len(open) \in Nat /\ DOMAIN nods = 1 .. Len(nods)
          /\ (i > Len(nods) \/ Len(open) + 1 <= i - 1)
      BY InHand, SliceTypes
    <3>2. k \in DOMAIN nods /\ k > h
      BY <3>1
    <3> QED BY <3>2, <1>1
  <2> QED BY <2>1
<1>3. Slices'
  <2>1. end => FALSE \/ phase' = "next"
    BY <1>0
  <2>2. i > Len(nods) \/ h + 0 <= i - 1
    BY InHand, SliceTypes
  <2>3. \A k \in i .. Len(nods) : ticked[k] = nods'[k]
    BY <1>2, InHand
  <2>4. i > Len(nods) \/ Len(open') + Hand' <= i - 1
    BY <2>2, <1>0, <1>1
  <2> QED BY <1>0, <1>1, <2>3, <2>4, InHand DEF Slices
<1>4. ActiveShape'
  BY <1>3, ShapeNext
<1>5. Len(Active') = Len(Active) /\ DOMAIN Active' = 1 .. Len(Active') /\ h \in DOMAIN Active /\ DOMAIN Active = 1 .. Len(Active)
  <2>1. Len(Active') = h + 0 + (Len(nods) - i + 1)
    BY <1>0, <1>1, <1>4 DEF ActiveShape
  <2> QED BY <2>1, <1>4, InHand, SliceTypes, Shape DEF ActiveShape
<1>6. Active'[h] = x
  <2>1. h \in 1 .. Len(open')
    BY <1>1, SliceTypes
  <2> QED BY <2>1, <1>0, <1>1, <1>4 DEF ActiveShape
<1>7. ASSUME NEW j \in DOMAIN Active, j # h
      PROVE  Active'[j] = Active[j] /\ (Executed(j)' <=> Executed(j)) /\ ~HandAt(j) /\ ~HandAt(j)'
  <2>0. j \in 1 .. Len(Active) /\ j \in DOMAIN Active'
    BY <1>5
  <2>1. CASE j < h
    <3>1. j \in 1 .. Len(open) /\ j \in 1 .. Len(open')
      BY <2>0, <2>1, <1>1, SliceTypes
    <3>2. Active'[j] = open'[j] /\ Active[j] = open[j]
      BY <3>1, <1>0, <1>4, Shape DEF ActiveShape
    <3> QED BY <3>1, <3>2, <1>0, <1>1, <1>7, InHand, SliceTypes DEF Executed, HandAt
  <2>2. CASE j > h
    <3>1. Active[j] = nods[j - Len(open) - 1 + (i - 1)]
      <4>1. Len(open) + 1 = h
        OBVIOUS
      <4> QED BY <4>1, <2>2, <2>0, InHand, Shape DEF ActiveShape
    <3>2. Active'[j] = nods'[j - h - 0 + (i - 1)]
      <4>1. h + 0 = h
        BY SliceTypes
      <4> QED BY <4>1, <2>2, <2>0, <1>0, <1>1, <1>4 DEF ActiveShape
    <3>3. j - Len(open) - 1 + (i - 1) = j - h - 0 + (i - 1) /\ j - h - 0 + (i - 1) \in i .. Len(nods)
      <4>1. /\ Len(open) \in Nat /\ i \in Nat /\ Len(nods) \in Nat /\ j \in Int
            /\ j <= Len(open) + 1 + (Len(nods) - i + 1) /\ i <= Len(nods) + 1
        BY <2>0, InHand, SliceTypes
      <4> QED BY <4>1, <2>2
    <3>4. Active'[j] = Active[j]
      BY <3>1, <3>2, <3>3, <1>2
    <3>5. j > Len(open) /\ j > Len(open')
      BY <2>2, <2>0, <1>1, SliceTypes
    <3> QED BY <3>4, <3>5, <1>0, <1>7, InHand DEF Executed, HandAt
  <2> QED BY <2>0, <2>1, <2>2, <1>7, SliceTypes
<1>8. ~HandAt(h)' /\ ~Executed(h)'
  <2>1. h \in Nat /\ ~(h > Len(open'))
    BY <1>1, SliceTypes
  <2> QED BY <1>0, <2>1 DEF HandAt, Executed
<1> QED BY <1>3, <1>5, <1>6, <1>7, <1>8 DEF Replaced

\* The onNext of another node is called: it takes the place too, and is in hand.
LEMMA CallMoves ==
  ASSUME TypeOK, Slices, TypeOK', phase = "next", at # None, NextUnchanged, end' = end,
         NEW x \in Nodes, at' = x, UNCHANGED <<open, nods>>
  PROVE  /\ Slices'
         /\ \E h \in DOMAIN Active : /\ h = Len(open) + 1 /\ Replaced(h, x)
                                     /\ HandAt(h)' /\ Executed(h)'
<1> PICK h \in DOMAIN Active : h = Len(open) + 1
  BY InHand
<1>0. phase' = "next" /\ i' = i /\ ticked' = ticked /\ tree' = tree /\ Hand' = 1 /\ Hand = 1 /\ at' # None
  BY TreeFacts, SliceTypes, InHand DEF NextUnchanged, history, Hand
<1>3. Slices'
  BY <1>0, InHand DEF Slices
<1>4. ActiveShape'
  BY <1>3, ShapeNext
<1>5. Len(Active') = Len(Active) /\ DOMAIN Active' = 1 .. Len(Active') /\ h \in DOMAIN Active /\ DOMAIN Active = 1 .. Len(Active)
  BY <1>0, <1>4, InHand, SliceTypes, Shape DEF ActiveShape
<1>6. Active'[h] = x
  BY <1>0, <1>4 DEF ActiveShape
<1>7. ASSUME NEW j \in DOMAIN Active, j # h
      PROVE  Active'[j] = Active[j] /\ (Executed(j)' <=> Executed(j)) /\ ~HandAt(j) /\ ~HandAt(j)'
  <2>0. j \in 1 .. Len(Active) /\ j \in DOMAIN Active'
    BY <1>5
  <2>1. CASE j < h
    <3>1. j \in 1 .. Len(open)
      BY <2>0, <2>1, SliceTypes
    <3>2. Active'[j] = open[j] /\ Active[j] = open[j]
      BY <3>1, <1>0, <1>4, Shape DEF ActiveShape
    <3> QED BY <3>1, <3>2, <1>0, <1>7, SliceTypes DEF Executed, HandAt
  <2>2. CASE j > h
    <3>1. Active[j] = nods[j - Len(open) - 1 + (i - 1)]
      BY <2>2, <2>0, <1>5, InHand, Shape DEF ActiveShape
    <3>2. Active'[j] = nods[j - Len(open) - 1 + (i - 1)]
      BY <2>2, <2>0, <1>0, <1>4 DEF ActiveShape
    <3> QED BY <3>1, <3>2, <1>0, <1>7 DEF Executed, HandAt
  <2> QED BY <2>0, <2>1, <2>2, <1>7, SliceTypes
<1>8. HandAt(h)' /\ Executed(h)'
  BY <1>0, SliceTypes DEF HandAt, Executed
<1> QED BY <1>3, <1>5, <1>6, <1>7, <1>8 DEF Replaced

\* The first call at a fork: it is the only active node, and its children take its place.
LEMMA ForkMoves ==
  ASSUME TypeOK, Slices, TypeOK', phase = "next", at # None, NextUnchanged, end' = end,
         Len(Active) = 1, BlackboardAppend(Children(at)), at' = None
  PROVE  /\ Slices' /\ Active' = Children(at) /\ Active[1] = at /\ HandAt(1)
         /\ \A j : ~HandAt(j)'
         /\ \A j \in DOMAIN Children(at) : ~Executed(j)'
<1>0. phase' = "next" /\ i' = i /\ ticked' = ticked /\ tree' = tree /\ Hand' = 0
  BY DEF NextUnchanged, history, Hand
<1>1. Len(open) = 0 /\ i = Len(nods) + 1
  <2>1. /\ Len(open) \in Nat /\ Len(nods) \in Nat /\ i \in Nat /\ i <= Len(nods) + 1
        /\ Len(open) + 1 + (Len(nods) - i + 1) = 1
    BY InHand, SliceTypes
  <2> QED BY <2>1
<1>2. Children(at) \in Seq(Nodes) /\ DOMAIN Children(at) = 1 .. Len(Children(at)) /\ Len(Children(at)) \in Nat
  BY InHand, SliceTypes, TreeFacts
<1>3. /\ Len(open') = Len(Children(at)) /\ \A j \in 1 .. Len(Children(at)) : open'[j] = Children(at)[j]
      /\ Len(nods') = Len(nods)
  <2>1. /\ Len(open') = 0 + Len(Children(at)) /\ \A j \in 1 .. Len(Children(at)) : open'[0 + j] = Children(at)[j]
        /\ Len(nods') = Len(nods)
    BY <1>1, <1>2, AppendFacts, SliceTypes
  <2> QED BY <2>1, <1>2
<1>4. Slices'
  <2>1. \A k \in i .. Len(nods) : ticked[k] = nods'[k]
    BY <1>1, SliceTypes
  <2>2. i' > Len(nods')
    BY <1>0, <1>1, <1>3, SliceTypes
  <2> QED BY <1>0, <1>1, <1>3, <2>1, <2>2, InHand DEF Slices
<1>5. ActiveShape'
  BY <1>4, ShapeNext
<1>6. Len(Active') = Len(Children(at)) /\ Active' \in Seq(Nodes)
  <2>1. Len(Active') = Len(Children(at)) + 0 + (Len(nods) - (Len(nods) + 1) + 1)
    BY <1>0, <1>1, <1>3, <1>5 DEF ActiveShape
  <2> QED BY <2>1, <1>0, <1>2, <1>5, SliceTypes, SameTree DEF ActiveShape
<1>7. \A j \in 1 .. Len(Children(at)) : Active'[j] = Children(at)[j]
  BY <1>0, <1>3, <1>5 DEF ActiveShape
<1>8. Active' = Children(at)
  BY <1>2, <1>6, <1>7, SameSeq
<1>9. \A j \in DOMAIN Children(at) : ~Executed(j)'
  BY <1>0, <1>2, <1>3 DEF Executed
<1> QED BY <1>0, <1>1, <1>4, <1>8, <1>9, InHand DEF HandAt

\* The place of the j-th node of those that stay when place h is left.
Skip(h, j) == IF j < h THEN j ELSE j + 1

\* The node in hand is dropped.
LEMMA DropMoves ==
  ASSUME TypeOK, Slices, TypeOK', phase = "next", at # None, NextUnchanged, end' = end,
         at' = None, UNCHANGED <<open, nods>>
  PROVE  /\ Slices' /\ Len(Active') = Len(Active) - 1
         /\ \A j : ~HandAt(j)'
         /\ \A j \in DOMAIN Active' : LET f == Skip(Len(open) + 1, j) IN
              /\ f \in DOMAIN Active /\ f # Len(open) + 1
              /\ Active'[j] = Active[f] /\ (Executed(j)' <=> Executed(f)) /\ ~HandAt(f)
<1> DEFINE h == Len(open) + 1
<1>0. phase' = "next" /\ i' = i /\ ticked' = ticked /\ tree' = tree /\ Hand' = 0 /\ Hand = 1
  BY InHand DEF NextUnchanged, history, Hand
<1>3. Slices'
  <2>1. i > Len(nods) \/ Len(open) + 0 <= i - 1
    BY InHand, SliceTypes
  <2> QED BY <2>1, <1>0, InHand DEF Slices
<1>4. ActiveShape'
  BY <1>3, ShapeNext
<1>5. Len(Active') = Len(Active) - 1 /\ DOMAIN Active' = 1 .. Len(Active') /\ h \in DOMAIN Active /\ DOMAIN Active = 1 .. Len(Active)
      /\ Len(Active) \in Nat
  <2>1. Len(Active') = Len(open) + 0 + (Len(nods) - i + 1)
    BY <1>0, <1>4 DEF ActiveShape
  <2>2. Len(Active) = Len(open) + 1 + (Len(nods) - i + 1) /\ h \in DOMAIN Active /\ DOMAIN Active = 1 .. Len(Active)
    BY InHand, Shape DEF ActiveShape
  <2>3. DOMAIN Active' = 1 .. Len(Active')
    BY <1>4 DEF ActiveShape
  <2> QED BY <2>1, <2>2, <2>3, InHand, SliceTypes
<1>6. ASSUME NEW j \in DOMAIN Active'
      PROVE  LET f == Skip(h, j) IN
              /\ f \in DOMAIN Active /\ f # h
              /\ Active'[j] = Active[f] /\ (Executed(j)' <=> Executed(f)) /\ ~HandAt(f)
  <2>0. j \in 1 .. (Len(Active) - 1) /\ j \in Nat /\ Len(open) \in Nat
    BY <1>5, SliceTypes
  <2>1. CASE j < h
    <3>1. j \in 1 .. Len(open) /\ Skip(h, j) = j /\ j \in DOMAIN Active
      BY <2>0, <2>1, <1>5 DEF Skip
    <3>2. Active'[j] = open[j] /\ Active[j] = open[j]
      BY <3>1, <1>0, <1>4, Shape DEF ActiveShape
    <3> QED BY <3>1, <3>2, <1>0, <2>0, <2>1 DEF Executed, HandAt
  <2>2. CASE ~(j < h)
    <3>0. Skip(h, j) = j + 1 /\ j + 1 \in DOMAIN Active /\ j + 1 > Len(open) + 1 /\ j > Len(open) + 0
      BY <2>0, <2>2, <1>5 DEF Skip
    <3>1. Active[j + 1] = nods[(j + 1) - Len(open) - 1 + (i - 1)]
      <4>1. j + 1 > Len(open) + Hand
        BY <3>0, <1>0
      <4>2. ASSUME NEW k \in DOMAIN Active, k > Len(open) + Hand
            PROVE  Active[k] = nods[k - Len(open) - 1 + (i - 1)]
        BY <4>2, <1>0, Shape DEF ActiveShape
      <4>3. PICK k \in DOMAIN Active : k = j + 1
        BY <3>0
      <4>4. Active[k] = nods[k - Len(open) - 1 + (i - 1)]
        BY <4>1, <4>2, <4>3
      <4> QED BY <4>3, <4>4
    <3>2. Active'[j] = nods[j - Len(open) - 0 + (i - 1)]
      BY <3>0, <1>0, <1>4 DEF ActiveShape
    <3>3. (j + 1) - Len(open) - 1 + (i - 1) = j - Len(open) - 0 + (i - 1)
      BY <2>0, SliceTypes
    <3>4. j > Len(open) /\ j + 1 > Len(open) /\ j + 1 # h
      BY <3>0, <2>0
    <3> QED BY <3>0, <3>1, <3>2, <3>3, <3>4, <1>0 DEF Executed, HandAt
  <2> QED BY <2>1, <2>2
<1> QED BY <1>0, <1>3, <1>5, <1>6 DEF HandAt

\* The root ends the bot when it is the only active node.
LEMMA EndMoves ==
  ASSUME TypeOK, Slices, TypeOK', phase = "next", at # None, NextUnchanged, end',
         at' = None, UNCHANGED <<open, nods>>, Len(Active) = 1
  PROVE  Slices' /\ Len(Active') = 0 /\ open' = <<>> /\ i' > Len(nods')
<1>0. phase' = "next" /\ i' = i /\ ticked' = ticked /\ tree' = tree /\ Hand' = 0 /\ Hand = 1
  BY InHand DEF NextUnchanged, history, Hand
<1>1. Len(open) = 0 /\ i = Len(nods) + 1
  <2>1. /\ Len(open) \in Nat /\ Len(nods) \in Nat /\ i \in Nat /\ i <= Len(nods) + 1
        /\ Len(open) + 1 + (Len(nods) - i + 1) = 1
    BY InHand, SliceTypes
  <2> QED BY <2>1
<1>3. Slices'
  <2>1. i > Len(nods)
    BY <1>1, SliceTypes
  <2> QED BY <2>1, <1>0, InHand DEF Slices
<1>4. ActiveShape'
  BY <1>3, ShapeNext
<1>5. Len(Active') = 0 + 0 + (Len(nods) - (Len(nods) + 1) + 1)
  BY <1>0, <1>1, <1>4 DEF ActiveShape
<1>6. open = <<>>
  BY <1>1, SliceTypes
<1> QED BY <1>0, <1>1, <1>3, <1>5, <1>6, SliceTypes

\* The tick of a node executes it and moves nothing.
LEMMA TickMoves ==
  ASSUME TypeOK, Slices, TypeOK', NEW n \in Nodes, NEW r, NEW K, Ticking(n, K), StateCheck(n, r)
  PROVE  /\ Slices' /\ ~end /\ ~end'
         /\ i \in DOMAIN Active /\ Active[i] = n /\ ~Executed(i)
         /\ phase' = "tick" => Active' = Active
         /\ \A j \in DOMAIN Active :
              /\ ~HandAt(j) /\ ~HandAt(j)'
              /\ phase' = "tick" => (Executed(j)' <=> Executed(j) \/ j = i)
<1>0. /\ phase = "tick" /\ i \in DOMAIN nods /\ n = nods[i] /\ i' = i + 1 /\ ticked' = Append(ticked, n)
      /\ phase' \in {"tick", "ended"} /\ nods' = nods /\ open' = open /\ at' = at /\ end' = end
      /\ tree' = tree
  BY DEF Ticking, StateCheck, blackboard
<1>1. at = None /\ ~end /\ Len(ticked) = i - 1 /\ \A k \in 1 .. (i - 1) : ticked[k] = nods[k]
  BY <1>0 DEF Slices
<1>2. i \in 1 .. Len(nods) /\ i \in Nat /\ Len(nods) \in Nat /\ ticked \in Seq(Nodes)
  BY <1>0, SliceTypes
<1>3. Len(ticked') = i /\ \A k \in 1 .. i : ticked'[k] = nods[k]
  BY <1>0, <1>1, <1>2
<1>4. Slices'
  <2>1. i' \in 1 .. (Len(nods) + 1) /\ i' - 1 = i
    BY <1>0, <1>2
  <2> QED BY <2>1, <1>0, <1>1, <1>3 DEF Slices
<1>5. Active = nods /\ (phase' = "tick" => Active' = nods) /\ \A j : ~HandAt(j) /\ ~HandAt(j)'
  BY <1>0 DEF Active, HandAt, Hand
<1>6. ~Executed(i) /\ \A j \in 1 .. Len(nods) : phase' = "tick" => (Executed(j)' <=> Executed(j) \/ j = i)
  BY <1>0, <1>2 DEF Executed
<1> QED BY <1>0, <1>1, <1>4, <1>5, <1>6, SliceTypes

-----------------------------------------------------------------------------
(* The places of a bot and the progress of its nodes. *)

\* No fork is open: one node is active, and it is no fork that has forked, nor below one.
Alone ==
  /\ Len(Active) = IF end THEN 0 ELSE 1
  /\ \A j \in DOMAIN Active : \A p \in Parallels :
       Active[j] \notin Below(p) /\ (Active[j] = p => ~nod[p].freeze)

\* Two active nodes are in different branches of every fork.
Apart(j, l) ==
  \A p \in Parallels : \A c \in ChildSet(p) :
    Active[j] \in Subtree(c) /\ Active[l] \in Subtree(c) => j = l

\* The fork p is open: what is active is below it, but for p itself when a branch joins,
\* and each of its children has either joined or an active node of its own.
Forked(p) ==
  /\ p \in Parallels /\ nod[p].freeze /\ ~end
  /\ Len(Active) + nod[p].threadNumber = Len(Children(p))
  /\ Len(Active) = 0 => Children(p) = <<>>
  /\ \A j \in DOMAIN Active : Active[j] \in Below(p) \/ (HandAt(j) /\ Active[j] = p)
  /\ \A j, l \in DOMAIN Active : Apart(j, l)

\* Where a bot is.
Placed == Alone \/ \E p \in Nodes : Forked(p)

\* Node p has opened its k-th child, in the current iteration if it is a loop.
Opened(p, k) ==
  CASE Kind(p) \in {"Sequence", "Selector"} -> k <= nod[p].step
    [] Kind(p) = "Loop" -> k = 1 /\ nod[p].curLoop > 0
    [] Kind(p) = "Parallel" -> nod[p].freeze
    [] OTHER -> k = 1 /\ nod[p].freeze

\* A node as onReset leaves it.
Reset(n) ==
  /\ ~nod[n].freeze /\ nod[n].step = 0 /\ nod[n].curLoop = 0
  /\ Kind(n) = "Parallel" => nod[n].threadNumber = 0

\* A child that its parent has not opened yet is as reset left it, and so is a node that
\* has been opened and not handled; what is active has been opened.
Progress ==
  /\ \A p \in Parallels : ~nod[p].freeze => nod[p].threadNumber = 0
  /\ \A p \in Nodes : \A k \in DOMAIN Children(p) : ~Opened(p, k) => Reset(Children(p)[k])
  /\ \A j \in DOMAIN Active : ~HandAt(j) => Reset(Active[j])
  /\ \A j \in DOMAIN Active : \A p \in Nodes : \A k \in DOMAIN Children(p) :
       Children(p)[k] = Active[j] => Opened(p, k)

\* Only an active wait that has not opened its child waits, and it does from its first
\* tick on.
Waits ==
  /\ \A n \in Nodes : nod[n].waiting =>
       Kind(n) = "Wait" /\ Reset(n) /\ \E j \in DOMAIN Active : Active[j] = n
  /\ \A j \in DOMAIN Active : Executed(j) /\ Kind(Active[j]) = "Wait" /\ ~nod[Active[j]].freeze
       => nod[Active[j]].waiting

\* The bot runs, or has been ended by the root.
Live == phase \in {"idle", "tick", "next"} \/ (phase = "ended" /\ end)

\* The inductive invariant.
InvA ==
  /\ TypeOK /\ Slices /\ NothingLeftBehind /\ NoPanic
  /\ Live => Placed /\ Progress /\ Waits
  /\ phase = "pooled" => \A n \in Nodes : Reset(n) /\ ~nod[n].waiting

-----------------------------------------------------------------------------
(* How the places and the progress change, step by step. *)

\* A step leaves what node n has done.
Same(n) ==
  /\ nod'[n].freeze = nod[n].freeze /\ nod'[n].step = nod[n].step
  /\ nod'[n].curLoop = nod[n].curLoop /\ nod'[n].threadNumber = nod[n].threadNumber

\* What a node has opened, and whether it is reset, depends on its fields alone.
LEMMA SameFacts ==
  ASSUME tree' = tree, NEW n, Same(n)
  PROVE  /\ Reset(n)' <=> Reset(n)
         /\ \A k : Opened(n, k)' <=> Opened(n, k)
BY SameTree DEF Same, Reset, Opened

\* A node that is reset has opened nothing.
LEMMA ResetNotOpened ==
  ASSUME tree \in Trees, NEW n \in Nodes, Reset(n), NEW k \in DOMAIN Children(n)
  PROVE  ~Opened(n, k)
<1>1. k \in Nat \ {0}
  BY TreeFacts
<1> QED BY <1>1 DEF Reset, Opened

\* The children of a fork are each in a branch of its own.
LEMMA ForkedHand ==
  ASSUME tree \in Trees, Flat(tree), NEW p \in Nodes, Forked(p), NEW j \in DOMAIN Active
  PROVE  /\ Active[j] \in Subtree(p) /\ Active[j] \in Nodes /\ Active[j] # tree.root
         /\ Kind(Active[j]) = "Parallel" => Active[j] = p /\ HandAt(j)
         /\ Active[j] # p => Active[j] \in Below(p)
<1>1. p \in Parallels
  BY DEF Forked
<1>2. Active[j] \in Below(p) \/ (HandAt(j) /\ Active[j] = p)
  BY DEF Forked
<1> QED BY <1>1, <1>2, FlatFacts, SubtreeFacts DEF Below

\* Nothing else is active below an active node that is no fork, and no fork is open there.
LEMMA NoneBelow ==
  ASSUME tree \in Trees, Flat(tree), ActiveShape, Placed, ~end,
         NEW h \in DOMAIN Active, Kind(Active[h]) # "Parallel"
  PROVE  /\ \A j \in DOMAIN Active : j # h => Active[j] \notin Subtree(Active[h])
         /\ \A p \in Subtree(Active[h]) : ~Forked(p)
<1> DEFINE a == Active[h]
<1>0. a \in Nodes
  BY DEF ActiveShape
<1>1. CASE Alone
  <2>1. Len(Active) = 1 /\ DOMAIN Active = 1 .. Len(Active)
    BY <1>1 DEF Alone, ActiveShape
  <2>2. ASSUME NEW p \in Subtree(a), Forked(p) PROVE FALSE
    <3>1. p \in Nodes
      BY <1>0, SubtreeFacts
    <3>2. a \in Below(p) /\ p \in Parallels
      BY <2>2, <3>1, ForkedHand DEF Forked, Parallels
    <3> QED BY <1>1, <3>2 DEF Alone
  <2> QED BY <2>1, <2>2
<1>2. CASE \E p \in Nodes : Forked(p)
  <2> PICK p \in Nodes : Forked(p)
    BY <1>2
  <2>1. a \in Below(p) /\ p \in Parallels
    BY ForkedHand DEF Forked, Parallels
  <2>2. PICK c \in ChildSet(p) : a \in Subtree(c)
    BY <2>1, InBranch
  <2>3. c \in Nodes
    BY ChildFacts
  <2>4. Subtree(a) \subseteq Subtree(c)
    BY <2>2, <2>3, SubtreeFacts
  <2>5. \A j \in DOMAIN Active : j # h => Active[j] \notin Subtree(a)
    BY <2>1, <2>2, <2>4 DEF Forked, Apart
  <2>6. ASSUME NEW q \in Subtree(a), Forked(q) PROVE FALSE
    <3>1. q \in Below(p) /\ Kind(q) = "Parallel"
      BY <2>2, <2>3, <2>4, <2>6, ChildFacts DEF Forked, Parallels
    <3> QED BY <2>1, <3>1, FlatFacts
  <2> QED BY <2>5, <2>6
<1> QED BY <1>1, <1>2 DEF Placed

\* A child is opened.
LEMMA PutPlaced ==
  ASSUME tree \in Trees, tree' = tree, Flat(tree), ActiveShape, ActiveShape', Placed, ~end, ~end',
         NEW h \in DOMAIN Active, NEW a \in Nodes, NEW c \in ChildSet(a), Active[h] = a,
         Kind(a) # "Parallel", Replaced(h, c), Reset(c)',
         \A n \in Nodes \ {a} : Same(n) \/ n \in Below(a)
  PROVE  Placed'
<1>0. /\ DOMAIN Active = 1 .. Len(Active) /\ DOMAIN Active' = DOMAIN Active /\ Len(Active') = Len(Active)
      /\ Active'[h] = c /\ \A j \in DOMAIN Active : j # h => Active'[j] = Active[j] /\ ~HandAt(j) /\ ~HandAt(j)'
  BY DEF ActiveShape, Replaced
<1>1. c \in Nodes /\ c # a /\ c \in Subtree(a)
  BY ChildFacts DEF Below
<1>2. \A n \in Nodes : c \in Subtree(n) => c = n \/ a \in Subtree(n)
  BY OpenStays
<1>3. \A n \in Nodes : a \in Subtree(n) => c \in Subtree(n)
  BY OpenStays
<1>4. CASE Alone
  <2>1. Len(Active) = 1 /\ h = 1
    BY <1>0, <1>4 DEF Alone
  <2>2. \A p \in Parallels : a \notin Below(p) /\ a # p
    BY <1>4 DEF Alone, Parallels
  <2>3. \A p \in Parallels : c \notin Below(p) /\ (c = p => ~nod'[p].freeze)
    BY <1>2, <2>2 DEF Below, Parallels, Reset
  <2> QED BY <2>1, <2>3, <1>0, SameTree DEF Alone, Placed
<1>5. CASE \E p \in Nodes : Forked(p)
  <2> PICK p \in Nodes : Forked(p)
    BY <1>5
  <2>1. a \in Below(p) /\ p \in Parallels /\ a \in Subtree(p) /\ a # p
    BY ForkedHand DEF Forked, Parallels, Below
  <2>2. p \notin Below(a) /\ p # a
    BY <2>1, Antisymmetry DEF Below
  <2>3. Same(p)
    BY <2>2
  <2>4. c \in Below(p)
    <3>1. c # p
      BY <2>1, <1>1, Antisymmetry
    <3> QED BY <3>1, <1>3, <2>1 DEF Below
  <2>5. \A d \in ChildSet(p) : c \in Subtree(d) => a \in Subtree(d)
    <3> TAKE d \in ChildSet(p)
    <3>1. d \in Nodes /\ Parent(d) = p /\ Parent(c) = a
      BY ChildFacts
    <3> QED BY <3>1, <1>2, <2>1
  <2>6. \A j \in DOMAIN Active : Active'[j] \in Below(p)
    BY <2>1, <2>4, <1>0 DEF Forked
  <2>7. ASSUME NEW j \in DOMAIN Active, NEW l \in DOMAIN Active, NEW q \in Parallels, NEW d \in ChildSet(q),
               Active'[j] \in Subtree(d), Active'[l] \in Subtree(d)
        PROVE  j = l
    <3>1. q \in Nodes /\ d \in Nodes /\ Subtree(d) \subseteq Below(q)
      BY ChildFacts DEF Parallels
    <3>2. \A m \in DOMAIN Active : Active'[m] \in Subtree(d) => Active[m] \in Subtree(d)
      <4> SUFFICES ASSUME c \in Subtree(d) PROVE a \in Subtree(d)
        BY <1>0
      <4>1. c = d => a = q
        BY ChildFacts, <3>1
      <4>2. Kind(a) # "Parallel"
        OBVIOUS
      <4> QED BY <4>1, <4>2, <1>2, <3>1 DEF Parallels
    <3> QED BY <2>7, <3>2 DEF Forked, Apart
  <2>8. Forked(p)'
    <3>1. p \in Parallels' /\ nod'[p].freeze /\ Len(Active') + nod'[p].threadNumber = Len(Children(p)')
      BY <2>3, <1>0, SameTree DEF Forked, Same
    <3>2. Len(Active') = 0 => Children(p)' = <<>>
      BY <1>0, SameTree DEF Forked
    <3>3. \A j, l \in DOMAIN Active' : Apart(j, l)'
      BY <1>0, <2>7, SameTree DEF Apart
    <3>4. \A j \in DOMAIN Active' : Active'[j] \in Below(p)'
      BY <1>0, <2>6, SameTree
    <3> QED BY <3>1, <3>2, <3>3, <3>4 DEF Forked
  <2> QED BY <2>8, SameTree DEF Placed
<1> QED BY <1>4, <1>5 DEF Placed

\* What opening its k-th child leaves: only a, and what is below it, changes.
Opens(a, k) ==
  /\ \A n \in Nodes \ Subtree(a) : nod'[n] = nod[n]
  /\ \/ \A n \in Below(a) : nod'[n] = nod[n]
     \/ \A n \in Below(a) : Reset(n)' /\ ~nod'[n].waiting
  /\ ~nod'[a].waiting
  /\ Opened(a, k)' /\ \A l \in DOMAIN Children(a) : Opened(a, l) => Opened(a, l)'

\* A node that is left alone is reset, and has opened, as before.
LEMMA EqualFacts ==
  ASSUME tree' = tree, NEW n, nod'[n] = nod[n]
  PROVE  /\ Reset(n)' <=> Reset(n)
         /\ \A k : Opened(n, k)' <=> Opened(n, k)
BY SameTree DEF Reset, Opened

\* Opening a child keeps Progress ...
LEMMA PutProgress ==
  ASSUME tree \in Trees, tree' = tree, ActiveShape, ActiveShape', Progress,
         NEW h \in DOMAIN Active, NEW a \in Nodes, NEW k \in DOMAIN Children(a), NEW c \in Nodes,
         c = Children(a)[k], Active[h] = a, Replaced(h, c), Opens(a, k), Reset(c)',
         Kind(a) # "Parallel",
         \A j \in DOMAIN Active : j # h => Active[j] \notin Subtree(a)
  PROVE  Progress'
<1>0. /\ DOMAIN Active' = DOMAIN Active /\ Active'[h] = c /\ \A j \in DOMAIN Active : Active[j] \in Nodes
      /\ \A j \in DOMAIN Active : j # h => Active'[j] = Active[j] /\ ~HandAt(j) /\ ~HandAt(j)'
  BY DEF ActiveShape, Replaced
<1>1. c \in ChildSet(a) /\ a \in Subtree(a) /\ Subtree(a) \subseteq Nodes
  BY SubtreeFacts DEF ChildSet
<1>2. \A n \in Nodes \ Subtree(a) : (Reset(n)' <=> Reset(n)) /\ \A l : Opened(n, l)' <=> Opened(n, l)
  BY EqualFacts DEF Opens
<1>3. \A n \in Nodes \ {a} : Reset(n) => Reset(n)'
  BY <1>1, <1>2, EqualFacts DEF Opens, Below
<1>4. ASSUME NEW p \in Nodes, NEW l \in DOMAIN Children(p), ~Opened(p, l)'
      PROVE  Reset(Children(p)[l])'
  <2> PICK d : d = Children(p)[l]
    OBVIOUS
  <2>0. d \in Nodes /\ d \in ChildSet(p) /\ d # p /\ d \in Below(p)
    BY ChildFacts DEF ChildSet
  <2>1. d # a
    <3> SUFFICES ASSUME d = a PROVE FALSE
      OBVIOUS
    <3>1. Opened(p, l)
      BY <2>0 DEF Progress
    <3>2. p \notin Subtree(a)
      BY <2>0, Antisymmetry DEF Below
    <3> QED BY <3>1, <3>2, <1>2, <1>4
  <2>2. CASE Reset(d)
    BY <2>0, <2>1, <2>2, <1>3, SameTree
  <2>3. CASE ~Reset(d)
    <3>1. Opened(p, l)
      BY <2>3 DEF Progress
    <3>2. p # a /\ p \in Below(a) /\ ~(nod'[p] = nod[p])
      BY <3>1, <1>2, <1>4, EqualFacts DEF Opens, Below
    <3>3. d \in Below(a)
      BY <3>2, <2>0, <2>1, <1>1, OpenStays DEF Below
    <3> QED BY <3>2, <3>3, SameTree DEF Opens
  <2> QED BY <2>2, <2>3
<1>5. ASSUME NEW j \in DOMAIN Active PROVE ~HandAt(j)' => Reset(Active[j])'
  <2>1. CASE j = h
    <3>1. Active'[j] = c
      BY <2>1, <1>0
    <3> QED BY <3>1 DEF Reset, Kind
  <2>2. CASE j # h
    <3> PICK x \in Nodes : x = Active[j]
      BY <1>0
    <3>1. Reset(x) /\ x # a /\ Active'[j] = x
      BY <2>2, <1>0, <1>1 DEF Progress
    <3>2. Reset(x)'
      BY <3>1, <1>3
    <3> QED BY <3>1, <3>2 DEF Reset, Kind
  <2> QED BY <2>1, <2>2
<1>6. ASSUME NEW j \in DOMAIN Active, NEW p \in Nodes, NEW l \in DOMAIN Children(p),
             Children(p)[l] = Active'[j]
      PROVE  Opened(p, l)'
  <2>1. CASE j = h
    <3>1. p = a /\ l = k
      BY <2>1, <1>0, <1>6, TreeFacts
    <3> QED BY <3>1 DEF Opens
  <2>2. CASE j # h
    <3>1. Active'[j] = Active[j] /\ Active[j] \notin Subtree(a)
      BY <2>2, <1>0
    <3>2. Opened(p, l)
      BY <3>1, <1>6 DEF Progress
    <3>3. p \notin Below(a)
      BY <3>1, <1>6, <1>1, OpenStays DEF Below, ChildSet
    <3> QED BY <3>2, <3>3, <1>2 DEF Opens, Below
  <2> QED BY <2>1, <2>2
<1>7. ASSUME NEW p \in Parallels, ~nod'[p].freeze PROVE nod'[p].threadNumber = 0
  <2>1. p \in Nodes /\ p # a /\ Kind(p) = "Parallel"
    BY DEF Parallels
  <2>2. CASE nod'[p] = nod[p]
    BY <2>2, <1>7 DEF Progress
  <2>3. CASE Reset(p)'
    BY <2>1, <2>3, SameTree DEF Reset
  <2> QED BY <2>1, <2>2, <2>3, <1>1 DEF Opens, Below
<1> QED BY <1>0, <1>4, <1>5, <1>6, <1>7, SameTree DEF Progress

\* ... and Waits.
LEMMA PutWaits ==
  ASSUME tree \in Trees, tree' = tree, ActiveShape, ActiveShape', Waits,
         NEW h \in DOMAIN Active, NEW a \in Nodes, NEW k \in DOMAIN Children(a), NEW c \in Nodes,
         Active[h] = a, Replaced(h, c), ~Executed(h)', Opens(a, k),
         \A j \in DOMAIN Active : j # h => Active[j] \notin Subtree(a)
  PROVE  Waits'
<1>0. /\ DOMAIN Active' = DOMAIN Active /\ \A j \in DOMAIN Active : Active[j] \in Nodes
      /\ \A j \in DOMAIN Active : j # h => Active'[j] = Active[j] /\ (Executed(j)' <=> Executed(j))
  BY DEF ActiveShape, Replaced
<1>1. ASSUME NEW n \in Nodes, nod'[n].waiting
      PROVE  Kind(n) = "Wait" /\ Reset(n)' /\ \E j \in DOMAIN Active' : Active'[j] = n
  <2>1. n # a /\ nod'[n] = nod[n]
    BY <1>1 DEF Opens, Below
  <2>2. Kind(n) = "Wait" /\ Reset(n) /\ \E j \in DOMAIN Active : Active[j] = n
    BY <1>1, <2>1 DEF Waits
  <2> QED BY <2>1, <2>2, <1>0, EqualFacts
<1>2. ASSUME NEW j \in DOMAIN Active', Executed(j)', Kind(Active'[j]) = "Wait", ~nod'[Active'[j]].freeze
      PROVE  nod'[Active'[j]].waiting
  <2>1. j # h /\ Executed(j) /\ Active'[j] = Active[j] /\ Active[j] \in Nodes \ Subtree(a)
    BY <1>0, <1>2
  <2>2. nod'[Active[j]] = nod[Active[j]]
    BY <2>1 DEF Opens
  <2> QED BY <2>1, <2>2, <1>0, <1>2 DEF Waits
<1> QED BY <1>1, <1>2, SameTree DEF Waits

\* What handing over to the parent leaves.
Returns(a) ==
  /\ \A n \in Nodes \ {a} : nod'[n] = nod[n]
  /\ nod'[a].freeze = nod[a].freeze /\ nod'[a].step = nod[a].step /\ nod'[a].curLoop = nod[a].curLoop
  /\ ~nod'[a].waiting
  /\ nod'[a].threadNumber = nod[a].threadNumber \/ (nod[a].freeze /\ Kind(a) = "Parallel")

\* Handing over leaves what is reset and what has been opened.
LEMMA ReturnFacts ==
  ASSUME tree' = tree, NEW a \in Nodes, Returns(a), NEW n \in Nodes
  PROVE  /\ Reset(n)' <=> Reset(n)
         /\ \A k : Opened(n, k)' <=> Opened(n, k)
BY SameTree DEF Reset, Opened, Returns

\* Handing over to the parent keeps Progress ...
LEMMA CallProgress ==
  ASSUME tree \in Trees, tree' = tree, ActiveShape, ActiveShape', Progress,
         NEW h \in DOMAIN Active, NEW a \in Nodes \ {tree.root}, NEW x \in Nodes, x = Parent(a),
         Active[h] = a, Replaced(h, x), HandAt(h)', Returns(a)
  PROVE  Progress'
<1>0. /\ DOMAIN Active' = DOMAIN Active /\ Active'[h] = x /\ \A j \in DOMAIN Active : Active[j] \in Nodes
      /\ \A j \in DOMAIN Active : j # h => Active'[j] = Active[j] /\ ~HandAt(j) /\ ~HandAt(j)'
  BY DEF ActiveShape, Replaced
<1>1. \A n \in Nodes : (Reset(n)' <=> Reset(n)) /\ \A k : Opened(n, k)' <=> Opened(n, k)
  BY ReturnFacts
<1>2. PICK m \in DOMAIN Children(x) : Children(x)[m] = a
  BY HasChild
<1>3. ~Reset(x)
  <2>1. Opened(x, m)
    BY <1>2 DEF Progress
  <2> QED BY <2>1, ResetNotOpened
<1>4. ASSUME NEW p \in Nodes, NEW l \in DOMAIN Children(p), ~Opened(p, l)'
      PROVE  Reset(Children(p)[l])'
  <2> PICK d \in Nodes : d = Children(p)[l]
    BY TreeFacts
  <2>1. Reset(d)
    BY <1>1, <1>4 DEF Progress
  <2> QED BY <2>1, <1>1, SameTree
<1>5. ASSUME NEW j \in DOMAIN Active, ~HandAt(j)' PROVE Reset(Active[j])'
  <2> PICK y \in Nodes : y = Active[j]
    BY <1>0
  <2>1. Reset(y)' /\ Active'[j] = y
    BY <1>0, <1>1, <1>5 DEF Progress
  <2> QED BY <2>1 DEF Reset, Kind
<1>6. ASSUME NEW j \in DOMAIN Active, NEW p \in Nodes, NEW l \in DOMAIN Children(p),
             Children(p)[l] = Active'[j]
      PROVE  Opened(p, l)'
  BY <1>0, <1>1, <1>3, <1>6 DEF Progress
<1>7. ASSUME NEW p \in Parallels, ~nod'[p].freeze PROVE nod'[p].threadNumber = 0
  BY <1>7 DEF Progress, Returns, Parallels
<1> QED BY <1>0, <1>4, <1>5, <1>6, <1>7, SameTree DEF Progress

\* ... and Waits.
LEMMA CallWaits ==
  ASSUME tree \in Trees, tree' = tree, ActiveShape, ActiveShape', Waits, Progress,
         NEW h \in DOMAIN Active, NEW a \in Nodes \ {tree.root}, NEW x \in Nodes, x = Parent(a),
         Active[h] = a, Replaced(h, x), Returns(a),
         Kind(a) = "Parallel" \/ \A j \in DOMAIN Active : j # h => Active[j] # a
  PROVE  Waits'
<1>0. /\ DOMAIN Active' = DOMAIN Active /\ Active'[h] = x
      /\ \A j \in DOMAIN Active : j # h => Active'[j] = Active[j] /\ (Executed(j)' <=> Executed(j))
  BY DEF ActiveShape, Replaced
<1>1. ASSUME NEW n \in Nodes, nod'[n].waiting
      PROVE  Kind(n) = "Wait" /\ Reset(n)' /\ \E j \in DOMAIN Active' : Active'[j] = n
  <2>1. n # a /\ nod'[n] = nod[n]
    BY <1>1 DEF Returns
  <2>2. Kind(n) = "Wait" /\ Reset(n) /\ \E j \in DOMAIN Active : Active[j] = n
    BY <1>1, <2>1 DEF Waits
  <2> QED BY <2>1, <2>2, <1>0, EqualFacts
<1>2. Kind(x) = "Wait" => nod'[x].freeze
  <2>1. PICK m \in DOMAIN Children(x) : Children(x)[m] = a
    BY HasChild
  <2>2. Opened(x, m) /\ x # a
    BY <2>1, ChildFacts DEF Progress, ChildSet
  <2> QED BY <2>2 DEF Opened, Returns
<1>3. ASSUME NEW j \in DOMAIN Active', Executed(j)', Kind(Active'[j]) = "Wait", ~nod'[Active'[j]].freeze
      PROVE  nod'[Active'[j]].waiting
  <2>1. j # h /\ Executed(j) /\ Active'[j] = Active[j]
    BY <1>0, <1>2, <1>3
  <2>2. Active[j] \in Nodes
    BY <2>1, <1>0 DEF ActiveShape
  <2>3. ~nod[Active[j]].freeze
    BY <2>1, <2>2, <1>3 DEF Returns
  <2>4. nod[Active[j]].waiting
    BY <2>1, <2>3, <1>0, <1>3 DEF Waits
  <2>5. Active[j] # a
    BY <2>1, <1>0, <1>3
  <2> QED BY <2>1, <2>2, <2>4, <2>5 DEF Returns
<1> QED BY <1>1, <1>2, <1>3, SameTree DEF Waits

\* A node other than a fork hands over to its parent.
LEMMA CallPlaced ==
  ASSUME tree \in Trees, tree' = tree, Flat(tree), ActiveShape, ActiveShape', Placed, ~end, ~end',
         NEW h \in DOMAIN Active, NEW a \in Nodes \ {tree.root}, NEW x \in Nodes, x = Parent(a),
         Active[h] = a, Kind(a) # "Parallel", Replaced(h, x), HandAt(h)', Returns(a)
  PROVE  Placed'
<1>0. /\ DOMAIN Active = 1 .. Len(Active) /\ DOMAIN Active' = DOMAIN Active /\ Len(Active') = Len(Active)
      /\ Active'[h] = x /\ \A j \in DOMAIN Active : j # h => Active'[j] = Active[j] /\ ~HandAt(j) /\ ~HandAt(j)'
  BY DEF ActiveShape, Replaced
<1>1. a \in ChildSet(x) /\ a # x /\ a \in Subtree(x)
  BY HasChild, ChildFacts DEF Below
<1>2. \A n \in Nodes : x \in Subtree(n) => a \in Subtree(n) /\ a # n
  <2> TAKE n \in Nodes
  <2> SUFFICES ASSUME x \in Subtree(n) PROVE a \in Subtree(n) /\ a # n
    OBVIOUS
  <2>1. a \in Subtree(n)
    BY <1>1, OpenStays
  <2> QED BY <2>1, <1>1, Antisymmetry
<1>3. \A n \in Nodes : a \in Subtree(n) => a = n \/ x \in Subtree(n)
  BY <1>1, OpenStays
<1>4. CASE Alone
  <2>1. Len(Active) = 1 /\ h = 1
    BY <1>0, <1>4 DEF Alone
  <2>2. \A p \in Parallels : a \notin Below(p) /\ p \in Nodes
    BY <1>4 DEF Alone, Parallels
  <2>3. \A p \in Parallels : x \notin Subtree(p)
    BY <1>2, <2>2 DEF Below
  <2>4. \A p \in Parallels : x \notin Below(p) /\ x # p
    BY <2>2, <2>3, SubtreeFacts DEF Below
  <2> QED BY <2>1, <2>4, <1>0, SameTree DEF Alone, Placed
<1>5. CASE \E p \in Nodes : Forked(p)
  <2> PICK p \in Nodes : Forked(p)
    BY <1>5
  <2>1. a \in Below(p) /\ p \in Parallels /\ a \in Subtree(p) /\ a # p
    BY ForkedHand DEF Forked, Parallels, Below
  <2>2. nod'[p] = nod[p]
    BY <2>1 DEF Returns
  <2>4. x \in Below(p) \/ x = p
    BY <2>1, <1>3 DEF Below
  <2>6. \A j \in DOMAIN Active : Active'[j] \in Below(p) \/ (HandAt(j)' /\ Active'[j] = p)
    BY <2>1, <2>4, <1>0 DEF Forked
  <2>7. ASSUME NEW j \in DOMAIN Active, NEW l \in DOMAIN Active, NEW q \in Parallels, NEW d \in ChildSet(q),
               Active'[j] \in Subtree(d), Active'[l] \in Subtree(d)
        PROVE  j = l
    <3>1. d \in Nodes
      BY ChildFacts DEF Parallels
    <3>2. \A m \in DOMAIN Active : Active'[m] \in Subtree(d) => Active[m] \in Subtree(d)
      BY <1>0, <1>2, <3>1
    <3> QED BY <2>7, <3>2 DEF Forked, Apart
  <2>8. Forked(p)'
    <3>1. p \in Parallels' /\ nod'[p].freeze /\ Len(Active') + nod'[p].threadNumber = Len(Children(p)')
      BY <2>2, <1>0, SameTree DEF Forked
    <3>2. Len(Active') = 0 => Children(p)' = <<>>
      BY <1>0, SameTree DEF Forked
    <3>3. \A j, l \in DOMAIN Active' : Apart(j, l)'
      BY <1>0, <2>7, SameTree DEF Apart
    <3>4. \A j \in DOMAIN Active' : Active'[j] \in Below(p)' \/ (HandAt(j)' /\ Active'[j] = p)
      BY <1>0, <2>6, SameTree
    <3> QED BY <3>1, <3>2, <3>3, <3>4 DEF Forked
  <2> QED BY <2>8, SameTree DEF Placed
<1> QED BY <1>4, <1>5 DEF Placed

\* A fork in hand that has forked is the fork all that is active belongs to.
LEMMA AtFork ==
  ASSUME tree \in Trees, Flat(tree), ActiveShape, Placed,
         NEW h \in DOMAIN Active, NEW a \in Nodes, Active[h] = a, Kind(a) = "Parallel", nod[a].freeze
  PROVE  Forked(a)
<1>1. a \in Parallels
  BY DEF Parallels
<1>2. ~Alone
  BY <1>1 DEF Alone
<1>3. PICK p \in Nodes : Forked(p)
  BY <1>2 DEF Placed
<1> QED BY <1>3, ForkedHand

\* The last branch of a fork has joined: the fork hands over to its parent.
LEMMA JoinPlaced ==
  ASSUME tree \in Trees, tree' = tree, Flat(tree), ActiveShape, ActiveShape', Placed, ~end, ~end',
         NEW h \in DOMAIN Active, NEW a \in Nodes \ {tree.root}, NEW x \in Nodes, x = Parent(a),
         Active[h] = a, Kind(a) = "Parallel", nod[a].freeze, nod[a].threadNumber \in Nat,
         nod[a].threadNumber + 1 >= Len(Children(a)),
         Replaced(h, x)
  PROVE  Placed'
<1>1. Forked(a)
  BY AtFork
<1>2. Len(Active) = 1 /\ h = 1
  <2>1. DOMAIN Active = 1 .. Len(Active) /\ Len(Active) \in Nat /\ h \in 1 .. Len(Active)
    BY DEF ActiveShape
  <2>2. Len(Active) + nod[a].threadNumber = Len(Children(a)) /\ Len(Children(a)) \in Nat
    BY <1>1, TreeFacts DEF Forked
  <2> QED BY <2>1, <2>2
<1>3. a \in ChildSet(x) /\ a # x
  BY HasChild, ChildFacts
<1>4. ASSUME NEW p \in Parallels PROVE x \notin Below(p) /\ x # p
  <2>0. p \in Nodes
    BY DEF Parallels
  <2> SUFFICES ASSUME x \in Subtree(p) PROVE FALSE
    BY <2>0, SubtreeFacts DEF Below
  <2>1. a \in Subtree(p)
    BY <2>0, <1>3, OpenStays
  <2>2. a # p
    BY <2>0, <1>3, ChildFacts, Antisymmetry DEF Below
  <2> QED BY <2>1, <2>2, FlatFacts DEF Below
<1>5. Len(Active') = 1 /\ DOMAIN Active' = DOMAIN Active /\ Active'[1] = x /\ DOMAIN Active' = {1}
  BY <1>2 DEF ActiveShape, Replaced
<1> QED BY <1>4, <1>5, SameTree DEF Alone, Placed

\* A wait that opens itself again.
LEMMA AgainPlaced ==
  ASSUME tree \in Trees, tree' = tree, Flat(tree), ActiveShape, ActiveShape', Placed, Progress, Waits,
         ~end, ~end',
         NEW h \in DOMAIN Active, NEW a \in Nodes, Active[h] = a, Kind(a) = "Wait", nod[a].waiting,
         Replaced(h, a), nod' = nod, ~HandAt(h)', ~Executed(h)'
  PROVE  Placed' /\ Progress' /\ Waits'
<1>0. /\ DOMAIN Active' = DOMAIN Active /\ Len(Active') = Len(Active)
      /\ \A j \in DOMAIN Active : Active'[j] = Active[j] /\ (j # h => ~HandAt(j) /\ (Executed(j)' <=> Executed(j)))
  BY DEF ActiveShape, Replaced
<1>1. \A n \in Nodes : (Reset(n)' <=> Reset(n)) /\ \A k : Opened(n, k)' <=> Opened(n, k)
  BY EqualFacts
<1>2. Alone => Alone'
  BY <1>0, SameTree DEF Alone
<1>3. ASSUME NEW p \in Nodes, Forked(p) PROVE Forked(p)'
  <2>1. \A j, l \in DOMAIN Active' : Apart(j, l)'
    BY <1>0, <1>3, SameTree DEF Apart, Forked
  <2>2. \A j \in DOMAIN Active' : Active'[j] \in Below(p)'
    <3>1. p \in Parallels /\ a # p
      BY <1>3 DEF Forked, Parallels
    <3> QED BY <1>0, <1>3, <3>1, SameTree DEF Forked
  <2>3. p \in Parallels' /\ nod'[p].freeze /\ Len(Active') + nod'[p].threadNumber = Len(Children(p)')
    BY <1>0, <1>3, SameTree DEF Forked
  <2>4. Len(Active') = 0 => Children(p)' = <<>>
    BY <1>0, <1>3, SameTree DEF Forked
  <2> QED BY <2>1, <2>2, <2>3, <2>4 DEF Forked
<1>4. Placed'
  BY <1>2, <1>3, SameTree DEF Placed
<1>5. Progress'
  <2>1. ASSUME NEW p \in Nodes, NEW l \in DOMAIN Children(p), ~Opened(p, l)' PROVE Reset(Children(p)[l])'
    <3> PICK d \in Nodes : d = Children(p)[l]
      BY TreeFacts
    <3>1. Reset(d)
      BY <1>1, <2>1 DEF Progress
    <3> QED BY <3>1, <1>1, SameTree
  <2>2. ASSUME NEW j \in DOMAIN Active PROVE Reset(Active[j])'
    <3> PICK y \in Nodes : y = Active[j]
      BY DEF ActiveShape
    <3>1. Reset(y)
      BY <1>0 DEF Progress, Waits
    <3>2. Reset(y)' /\ Active'[j] = y
      BY <3>1, <1>0, <1>1
    <3> QED BY <3>2 DEF Reset, Kind
  <2>3. ASSUME NEW j \in DOMAIN Active, NEW p \in Nodes, NEW l \in DOMAIN Children(p),
               Children(p)[l] = Active'[j]
        PROVE  Opened(p, l)'
    BY <1>0, <1>1, <2>3 DEF Progress
  <2> QED BY <1>0, <2>1, <2>2, <2>3, SameTree DEF Progress
<1>6. Waits'
  <2>1. ASSUME NEW n \in Nodes, nod'[n].waiting
        PROVE  Kind(n) = "Wait" /\ Reset(n)' /\ \E j \in DOMAIN Active' : Active'[j] = n
    BY <2>1, <1>0, <1>1 DEF Waits
  <2>2. ASSUME NEW j \in DOMAIN Active', Executed(j)', Kind(Active'[j]) = "Wait", ~nod'[Active'[j]].freeze
        PROVE  nod'[Active'[j]].waiting
    BY <2>2, <1>0 DEF Waits
  <2> QED BY <2>1, <2>2, SameTree DEF Waits
<1> QED BY <1>4, <1>5, <1>6

\* A fork in hand that has not forked yet is all that is active.
LEMMA BeforeFork ==
  ASSUME tree \in Trees, Flat(tree), ActiveShape, Placed, ~end,
         NEW h \in DOMAIN Active, NEW a \in Nodes, Active[h] = a, Kind(a) = "Parallel", ~nod[a].freeze
  PROVE  Alone /\ Len(Active) = 1 /\ h = 1
<1>1. \A p \in Nodes : ~Forked(p)
  BY ForkedHand DEF Forked
<1> QED BY <1>1 DEF Placed, Alone, ActiveShape

\* What a fork does to the nodes.
Forks(a) ==
  /\ \A n \in Nodes \ {a} :
       /\ nod'[n].freeze = nod[n].freeze /\ nod'[n].step = nod[n].step
       /\ nod'[n].curLoop = nod[n].curLoop /\ nod'[n].waiting = nod[n].waiting
       /\ n \notin ChildSet(a) => nod'[n] = nod[n]
  /\ nod'[a].freeze /\ nod'[a].threadNumber = nod[a].threadNumber /\ nod'[a].waiting = nod[a].waiting
  /\ nod'[a].curLoop = nod[a].curLoop

\* A fork opens all its children: each is active in a branch of its own.
LEMMA ForkStep ==
  ASSUME tree \in Trees, tree' = tree, Flat(tree), ActiveShape, ActiveShape', Placed, Progress, Waits,
         ~end, ~end',
         NEW a \in Nodes, Kind(a) = "Parallel", ~nod[a].freeze, Alone, Len(Active) = 1, Active[1] = a,
         Active' = Children(a), \A j : ~HandAt(j)', \A j \in DOMAIN Children(a) : ~Executed(j)', Forks(a)
  PROVE  Placed' /\ Progress' /\ Waits'
<1>0. a \in Parallels /\ Children(a) \in Seq(Nodes) /\ DOMAIN Children(a) = 1 .. Len(Children(a))
  BY TreeFacts DEF Parallels
<1>1. \A k \in DOMAIN Children(a) : Children(a)[k] \in ChildSet(a)
  BY DEF ChildSet
<1>2. \A c \in ChildSet(a) : c \in Below(a) /\ c \in Nodes /\ c # a /\ Kind(c) # "Parallel"
  BY <1>0, ChildFacts, FlatFacts
<1>3. \A n \in Nodes \ {a} : (Reset(n)' <=> Reset(n)) /\ \A k : Opened(n, k)' <=> Opened(n, k)
  <2> TAKE n \in Nodes \ {a}
  <2>1. Kind(n) = "Parallel" => nod'[n] = nod[n]
    BY <1>2 DEF Forks
  <2> QED BY <2>1, SameTree DEF Forks, Reset, Opened
<1>4. Placed'
  <2>1. nod'[a].threadNumber = 0
    BY <1>0 DEF Progress, Forks
  <2>2. Len(Active') + nod'[a].threadNumber = Len(Children(a)')
    BY <2>1, <1>0, SameTree
  <2>3. \A j \in DOMAIN Active' : Active'[j] \in Below(a)
    BY <1>1, <1>2
  <2>4. ASSUME NEW j \in DOMAIN Active', NEW l \in DOMAIN Active' PROVE Apart(j, l)'
    <3> SUFFICES ASSUME NEW q \in Parallels, NEW d \in ChildSet(q),
                        Active'[j] \in Subtree(d), Active'[l] \in Subtree(d)
                 PROVE  j = l
      BY SameTree DEF Apart
    <3>1. q \in Nodes /\ d \in Nodes /\ d # q /\ Subtree(d) \subseteq Below(q)
      BY ChildFacts DEF Parallels
    <3>2. q = a
      <4>1. Active'[j] \in Below(q) /\ Parent(Active'[j]) = a /\ Active'[j] \in Nodes
        BY <3>1, <1>1, <1>2, ChildFacts
      <4>2. a \in Subtree(q)
        BY <3>1, <4>1, ParentInside DEF Below
      <4> QED BY <4>2, <1>0, FlatFacts DEF Below
    <3>3. Active'[j] = d /\ Active'[l] = d
      BY <3>2, <1>1, ChildFacts
    <3> QED BY <3>3, TreeFacts
  <2>5. Len(Active') = 0 => Children(a)' = <<>>
    BY <1>0, SameTree
  <2>6. Forked(a)'
    BY <1>0, <2>2, <2>3, <2>4, <2>5, SameTree DEF Forked, Forks
  <2> QED BY <2>6, SameTree DEF Placed
<1>5. Progress'
  <2>1. ASSUME NEW p \in Nodes, NEW l \in DOMAIN Children(p), ~Opened(p, l)' PROVE Reset(Children(p)[l])'
    <3> PICK d \in Nodes : d = Children(p)[l]
      BY TreeFacts
    <3>1. p # a
      BY <2>1, SameTree DEF Opened, Forks
    <3>2. ~Opened(p, l)
      BY <2>1, <3>1, <1>3
    <3>3. Reset(d) /\ d # a
      BY <3>2, <1>0 DEF Progress
    <3> QED BY <3>3, <1>3, SameTree
  <2>2. ASSUME NEW j \in DOMAIN Active' PROVE Reset(Active[j])'
    <3> PICK y \in Nodes : y = Active'[j] /\ y = Children(a)[j]
      BY <1>0
    <3>1. ~Opened(a, j)
      BY DEF Opened
    <3>2. Reset(y) /\ y # a
      BY <3>1, <1>1, <1>2 DEF Progress
    <3>3. Reset(y)'
      BY <3>2, <1>3
    <3> QED BY <3>3 DEF Reset, Kind
  <2>3. ASSUME NEW j \in DOMAIN Active', NEW p \in Nodes, NEW l \in DOMAIN Children(p),
               Children(p)[l] = Active'[j]
        PROVE  Opened(p, l)'
    <3>1. p = a
      BY <2>3, TreeFacts
    <3> QED BY <3>1, SameTree DEF Opened, Forks
  <2>4. ASSUME NEW p \in Parallels, ~nod'[p].freeze PROVE nod'[p].threadNumber = 0
    <3>1. p \in Nodes \ {a} /\ p \notin ChildSet(a)
      BY <2>4, <1>2 DEF Parallels, Forks
    <3> QED BY <3>1, <2>4 DEF Forks, Progress
  <2> QED BY <2>1, <2>2, <2>3, <2>4, SameTree DEF Progress
<1>6. Waits'
  <2>1. \A n \in Nodes : ~nod[n].waiting
    <3> SUFFICES ASSUME NEW n \in Nodes, nod[n].waiting PROVE FALSE
      OBVIOUS
    <3>1. Kind(n) = "Wait" /\ \E j \in DOMAIN Active : Active[j] = n
      BY DEF Waits
    <3>2. DOMAIN Active = {1}
      BY DEF ActiveShape
    <3> QED BY <3>1, <3>2
  <2>2. \A n \in Nodes : ~nod'[n].waiting
    BY <2>1 DEF Forks
  <2> QED BY <2>2, SameTree DEF Waits
<1> QED BY <1>4, <1>5, <1>6

\* A branch that is not the last has joined: the fork waits for the others.
LEMMA StayStep ==
  ASSUME tree \in Trees, tree' = tree, Flat(tree), ActiveShape, ActiveShape', Placed, Progress, Waits,
         ~end, ~end',
         NEW h \in DOMAIN Active, NEW a \in Nodes, Active[h] = a, Kind(a) = "Parallel", nod[a].freeze,
         nod[a].threadNumber \in Nat, ~(nod[a].threadNumber + 1 >= Len(Children(a))),
         nod'[a].threadNumber = nod[a].threadNumber + 1, Returns(a),
         Len(Active') = Len(Active) - 1, \A j : ~HandAt(j)',
         \A j \in DOMAIN Active' :
            /\ Skip(h, j) \in DOMAIN Active /\ Skip(h, j) # h /\ ~HandAt(Skip(h, j))
            /\ Active'[j] = Active[Skip(h, j)] /\ (Executed(j)' <=> Executed(Skip(h, j)))
  PROVE  Placed' /\ Progress' /\ Waits'
<1>0. /\ DOMAIN Active = 1 .. Len(Active) /\ Len(Active) \in Nat /\ DOMAIN Active' = 1 .. Len(Active')
      /\ h \in 1 .. Len(Active)
  BY DEF ActiveShape
<1>1. Forked(a)
  BY AtFork
<1>2. \A n \in Nodes : (Reset(n)' <=> Reset(n)) /\ \A k : Opened(n, k)' <=> Opened(n, k)
  BY ReturnFacts
<1>3. \A j, l \in DOMAIN Active' : Skip(h, j) = Skip(h, l) => j = l
  BY <1>0 DEF Skip
<1>4. \A l \in DOMAIN Active : l # h => \E j \in DOMAIN Active' : Skip(h, j) = l
  <2> TAKE l \in DOMAIN Active
  <2> HAVE l # h
  <2>1. l < h => l \in DOMAIN Active' /\ Skip(h, l) = l
    BY <1>0 DEF Skip
  <2>2. l > h => l - 1 \in DOMAIN Active' /\ Skip(h, l - 1) = l
    BY <1>0 DEF Skip
  <2> QED BY <2>1, <2>2, <1>0
<1>5. Placed'
  <2>1. Len(Active) + nod[a].threadNumber = Len(Children(a)) /\ Len(Children(a)) \in Nat
    BY <1>1, TreeFacts DEF Forked
  <2>2. Len(Active') + nod'[a].threadNumber = Len(Children(a)') /\ Len(Active') # 0
    <3>1. Children(a)' = Children(a)
      BY SameTree
    <3> HIDE DEF Children
    <3> DEFINE x == Len(Active)  y == nod[a].threadNumber  z == Len(Children(a))
    <3>2. x \in Nat /\ y \in Nat /\ z \in Nat /\ x + y = z /\ ~(y + 1 >= z)
      BY <2>1, <1>0
    <3>3. Len(Active') = x - 1 /\ nod'[a].threadNumber = y + 1 /\ Len(Children(a)') = z
      BY <3>1
    <3> HIDE DEF x, y, z
    <3> QED BY ONLY <3>2, <3>3
  <2>3. \A j \in DOMAIN Active' : Active'[j] \in Below(a)
    BY <1>1 DEF Forked
  <2>4. \A j, l \in DOMAIN Active' : Apart(j, l)'
    BY <1>1, <1>3, SameTree DEF Apart, Forked
  <2>5. a \in Parallels' /\ nod'[a].freeze
    BY <1>1, SameTree DEF Forked, Returns
  <2>6. Forked(a)'
    BY <2>2, <2>3, <2>4, <2>5, SameTree DEF Forked
  <2> QED BY <2>6, SameTree DEF Placed
<1>6. Progress'
  <2>1. ASSUME NEW p \in Nodes, NEW l \in DOMAIN Children(p), ~Opened(p, l)' PROVE Reset(Children(p)[l])'
    <3> PICK d \in Nodes : d = Children(p)[l]
      BY TreeFacts
    <3>1. Reset(d)
      BY <2>1, <1>2 DEF Progress
    <3> QED BY <3>1, <1>2, SameTree
  <2>2. ASSUME NEW j \in DOMAIN Active' PROVE Reset(Active[j])'
    <3> PICK y \in Nodes : y = Active'[j]
      BY DEF ActiveShape
    <3>1. Reset(y)
      BY DEF Progress
    <3>3. Reset(y)'
      BY <3>1, <1>2
    <3> QED BY <3>3 DEF Reset, Kind
  <2>3. ASSUME NEW j \in DOMAIN Active', NEW p \in Nodes, NEW l \in DOMAIN Children(p),
               Children(p)[l] = Active'[j]
        PROVE  Opened(p, l)'
    BY <2>3, <1>2 DEF Progress
  <2>4. ASSUME NEW p \in Parallels, ~nod'[p].freeze PROVE nod'[p].threadNumber = 0
    BY <2>4 DEF Progress, Returns, Parallels
  <2> QED BY <2>1, <2>2, <2>3, <2>4, SameTree DEF Progress
<1>7. Waits'
  <2>1. ASSUME NEW n \in Nodes, nod'[n].waiting
        PROVE  Kind(n) = "Wait" /\ Reset(n)' /\ \E j \in DOMAIN Active' : Active'[j] = n
    <3>1. n # a /\ nod[n].waiting
      BY <2>1 DEF Returns
    <3>2. Kind(n) = "Wait" /\ Reset(n)
      BY <3>1 DEF Waits
    <3>3. PICK l \in DOMAIN Active : Active[l] = n
      BY <3>1 DEF Waits
    <3>4. PICK j \in DOMAIN Active' : Skip(h, j) = l
      BY <3>1, <3>3, <1>4
    <3> QED BY <3>2, <3>3, <3>4, <1>2
  <2>2. ASSUME NEW j \in DOMAIN Active', Executed(j)', Kind(Active'[j]) = "Wait", ~nod'[Active'[j]].freeze
        PROVE  nod'[Active'[j]].waiting
    <3> PICK y \in Nodes : y = Active'[j] /\ y = Active[Skip(h, j)] /\ Skip(h, j) \in DOMAIN Active
      BY DEF ActiveShape
    <3>1. nod'[y] = nod[y]
      BY <2>2 DEF Returns
    <3> QED BY <2>2, <3>1 DEF Waits
  <2> QED BY <2>1, <2>2, SameTree DEF Waits
<1> QED BY <1>5, <1>6, <1>7

\* The root has ended the bot.
LEMMA NoneActive ==
  ASSUME tree \in Trees, tree' = tree, Progress, Waits, end', nod' = nod,
         Len(Active') = 0, DOMAIN Active' = 1 .. Len(Active'),
         \A n \in Nodes : ~nod[n].waiting
  PROVE  Placed' /\ Progress' /\ Waits'
<1>1. DOMAIN Active' = {}
  OBVIOUS
<1>2. \A n \in Nodes : (Reset(n)' <=> Reset(n)) /\ \A k : Opened(n, k)' <=> Opened(n, k)
  BY EqualFacts
<1>3. ASSUME NEW p \in Nodes, NEW l \in DOMAIN Children(p), ~Opened(p, l)' PROVE Reset(Children(p)[l])'
  <2> PICK d \in Nodes : d = Children(p)[l]
    BY TreeFacts
  <2>1. Reset(d)
    BY <1>2, <1>3 DEF Progress
  <2> QED BY <2>1, <1>2, SameTree
<1>4. Placed'
  BY <1>1, SameTree DEF Placed, Alone
<1>5. Progress'
  BY <1>1, <1>3, SameTree DEF Progress
<1>6. Waits'
  BY <1>1, SameTree DEF Waits
<1> QED BY <1>4, <1>5, <1>6

\* A step that hands nothing over leaves the order of things.
LEMMA FrameStep ==
  ASSUME tree \in Trees, tree' = tree, ActiveShape, Placed, Progress, end' = end, Active' = Active,
         \A j \in DOMAIN Active : ~HandAt(j), \A n \in Nodes : Same(n)
  PROVE  Placed' /\ Progress'
<1>1. \A n \in Nodes : (Reset(n)' <=> Reset(n)) /\ \A k : Opened(n, k)' <=> Opened(n, k)
  BY SameFacts
<1>2. Alone => Alone'
  BY SameTree DEF Alone, Parallels, Same
<1>3. ASSUME NEW p \in Nodes, Forked(p) PROVE Forked(p)'
  <2>1. \A j, l \in DOMAIN Active' : Apart(j, l)'
    BY <1>3, SameTree DEF Apart, Forked
  <2>2. \A j \in DOMAIN Active' : Active'[j] \in Below(p)'
    BY <1>3, SameTree DEF Forked
  <2>3. p \in Parallels' /\ nod'[p].freeze /\ Len(Active') + nod'[p].threadNumber = Len(Children(p)') /\ ~end'
    BY <1>3, SameTree DEF Forked, Same
  <2>4. Len(Active') = 0 => Children(p)' = <<>>
    BY <1>3, SameTree DEF Forked
  <2> QED BY <2>1, <2>2, <2>3, <2>4 DEF Forked
<1>4. Placed'
  BY <1>2, <1>3, SameTree DEF Placed
<1>5. Progress'
  <2>1. ASSUME NEW p \in Nodes, NEW l \in DOMAIN Children(p), ~Opened(p, l)' PROVE Reset(Children(p)[l])'
    <3> PICK d \in Nodes : d = Children(p)[l]
      BY TreeFacts
    <3>1. Reset(d)
      BY <1>1, <2>1 DEF Progress
    <3> QED BY <3>1, <1>1, SameTree
  <2>2. ASSUME NEW j \in DOMAIN Active PROVE Reset(Active[j])'
    <3> PICK y \in Nodes : y = Active[j]
      BY DEF ActiveShape
    <3>1. Reset(y)
      BY DEF Progress
    <3>2. Reset(y)' /\ Active'[j] = y
      BY <3>1, <1>1
    <3> QED BY <3>2 DEF Reset, Kind
  <2>3. ASSUME NEW j \in DOMAIN Active, NEW p \in Nodes, NEW l \in DOMAIN Children(p),
               Children(p)[l] = Active'[j]
        PROVE  Opened(p, l)'
    BY <1>1, <2>3 DEF Progress
  <2>4. ASSUME NEW p \in Parallels, ~nod'[p].freeze PROVE nod'[p].threadNumber = 0
    BY <2>4 DEF Progress, Parallels, Same
  <2> QED BY <2>1, <2>2, <2>3, <2>4, SameTree DEF Progress
<1> QED BY <1>4, <1>5

\* The tick of a node keeps the order of things: only a wait begins to wait.
LEMMA TickStep ==
  ASSUME tree \in Trees, tree' = tree, ActiveShape, Placed, Progress, Waits, end' = end,
         NEW n \in Nodes, NEW q \in DOMAIN Active, Active[q] = n, Active' = Active,
         \A j \in DOMAIN Active : ~HandAt(j) /\ (Executed(j)' <=> Executed(j) \/ j = q),
         \A m \in Nodes \ {n} : nod'[m] = nod[m], But(nod'[n], nod[n], {"succ", "waiting"}),
         nod'[n].waiting <=> nod[n].waiting \/ Kind(n) = "Wait"
  PROVE  Placed' /\ Progress' /\ Waits'
<1>1. \A m \in Nodes : Same(m)
  BY DEF Same, But
<1>2. Placed' /\ Progress'
  BY <1>1, FrameStep
<1>3. \A m \in Nodes : Reset(m)' <=> Reset(m)
  BY <1>1, SameFacts
<1>4. ASSUME NEW m \in Nodes, nod'[m].waiting
      PROVE  Kind(m) = "Wait" /\ Reset(m)' /\ \E j \in DOMAIN Active' : Active'[j] = m
  <2>1. Kind(m) = "Wait" /\ \E j \in DOMAIN Active : Active[j] = m
    BY <1>4 DEF Waits
  <2>2. Reset(m)
    BY <2>1 DEF Progress
  <2> QED BY <2>1, <2>2, <1>3
<1>5. ASSUME NEW j \in DOMAIN Active', Executed(j)', Kind(Active'[j]) = "Wait", ~nod'[Active'[j]].freeze
      PROVE  nod'[Active'[j]].waiting
  <2>1. CASE Active[j] = n
    BY <2>1, <1>5
  <2>2. CASE Active[j] # n
    <3>1. nod'[Active[j]] = nod[Active[j]]
      BY <2>2 DEF ActiveShape
    <3> QED BY <2>2, <3>1, <1>5 DEF Waits
  <2> QED BY <2>1, <2>2
<1> QED BY <1>2, <1>4, <1>5, SameTree DEF Waits

\* A step that changes no node and nothing that is active keeps it too.
LEMMA QuietStep ==
  ASSUME tree \in Trees, tree' = tree, ActiveShape, Placed, Progress, Waits, end' = end, nod' = nod,
         Active' = Active, \A j \in DOMAIN Active : ~HandAt(j) /\ (Executed(j)' <=> Executed(j))
  PROVE  Placed' /\ Progress' /\ Waits'
<1>1. \A m \in Nodes : Same(m)
  BY DEF Same
<1>2. Placed' /\ Progress'
  BY <1>1, FrameStep
<1>3. \A m \in Nodes : Reset(m)' <=> Reset(m)
  BY <1>1, SameFacts
<1>4. Waits'
  BY <1>3, SameTree DEF Waits
<1> QED BY <1>2, <1>4

\* A bot begins.
LEMMA StartStep ==
  ASSUME tree \in Trees, Active = <<tree.root>>, ~end, Hand = 0,
         \A j \in DOMAIN Active : ~Executed(j),
         \A n \in Nodes : Reset(n) /\ ~nod[n].waiting
  PROVE  Placed /\ Progress /\ Waits
<1>0. DOMAIN Active = {1} /\ Len(Active) = 1 /\ Active[1] = tree.root /\ \A j \in DOMAIN Active : ~HandAt(j)
  BY DEF HandAt
<1>1. Alone
  <2>1. ASSUME NEW p \in Parallels PROVE tree.root \notin Below(p) /\ (tree.root = p => ~nod[p].freeze)
    <3>1. p \in Nodes
      BY DEF Parallels
    <3> QED BY <3>1, ParentInside DEF Below, Reset
  <2> QED BY <1>0, <2>1 DEF Alone
<1>2. Progress
  <2>1. \A p \in Nodes : \A k \in DOMAIN Children(p) : Children(p)[k] \in Nodes /\ Children(p)[k] # tree.root
    BY TreeFacts
  <2>2. tree.root \in Nodes
    BY TreeFacts
  <2>3. \A p \in Parallels : nod[p].threadNumber = 0
    BY DEF Reset, Parallels
  <2> QED BY <1>0, <2>1, <2>2, <2>3 DEF Progress
<1>3. Waits
  BY <1>0 DEF Waits
<1> QED BY <1>1, <1>2, <1>3 DEF Placed

-----------------------------------------------------------------------------
(* The handlers. *)

\* What InvA says in the second range: while a node is in hand the bot has not ended.
LEMMA Context ==
  ASSUME InvA, Flat(tree), phase = "next"
  PROVE  /\ TypeOK /\ Slices /\ tree \in Trees /\ Flat(tree) /\ ActiveShape
         /\ Placed /\ Progress /\ Waits
         /\ at # None => ~end
<1>1. TypeOK /\ Slices /\ Placed /\ Progress /\ Waits /\ NothingLeftBehind
  BY DEF InvA, Live
<1>2. tree \in Trees
  BY <1>1 DEF TypeOK
<1> QED BY <1>1, <1>2, Shape DEF NothingLeftBehind

\* After a handler InvA is what the moves and the places say.
LEMMA AfterHand ==
  ASSUME InvA, TypeOK', NextUnchanged, phase = "next", Slices', Placed', Progress', Waits',
         end' => open' = <<>> /\ at' = None /\ i' > Len(nods')
  PROVE  InvA'
BY DEF InvA, NextUnchanged, NothingLeftBehind, NoPanic

\* A node opens a child.
LEMMA OpenStep ==
  ASSUME InvA, Flat(tree), TypeOK', NextUnchanged, end' = end, phase = "next",
         NEW a \in Nodes, at = a, Kind(a) # "Parallel", NEW k \in DOMAIN Children(a), OpenChild(k),
         Opens(a, k), NEW c, c = Children(a)[k], Reset(c)'
  PROVE  InvA'
<1>1. TypeOK /\ Slices /\ tree \in Trees /\ Flat(tree) /\ ActiveShape /\ Placed /\ Progress /\ Waits
  BY Context
<1>2. a # None /\ ~end /\ ~end' /\ tree' = tree
  BY <1>1, TreeFacts, Context DEF NextUnchanged
<1>3. c \in Nodes /\ c \in ChildSet(a) /\ BlackboardAppend(<<c>>) /\ at' = None
  BY <1>1, TreeFacts DEF OpenChild, ChildSet
<1>4. Slices' /\ \E h \in DOMAIN Active : h = Len(open) + 1 /\ Replaced(h, c) /\ ~HandAt(h)' /\ ~Executed(h)'
  BY <1>1, <1>2, <1>3, PutMoves
<1> PICK h \in DOMAIN Active : h = Len(open) + 1 /\ Replaced(h, c) /\ ~HandAt(h)' /\ ~Executed(h)'
  BY <1>4
<1>5. Active[h] = a /\ ActiveShape'
  BY <1>1, <1>2, <1>4, InHand, ShapeNext
<1>6. \A j \in DOMAIN Active : j # h => Active[j] \notin Subtree(a)
  BY <1>1, <1>2, <1>5, NoneBelow
<1>7. \A n \in Nodes \ {a} : Same(n) \/ n \in Below(a)
  BY DEF Opens, Same, Below
<1>8. Placed'
  BY <1>1, <1>2, <1>3, <1>5, <1>7, PutPlaced
<1>9. Progress' /\ Waits'
  BY <1>1, <1>2, <1>3, <1>5, <1>6, PutProgress, PutWaits
<1> QED BY <1>1, <1>2, <1>4, <1>8, <1>9, AfterHand

\* A node hands over to its parent.
LEMMA ReturnStep ==
  ASSUME InvA, Flat(tree), TypeOK', NextUnchanged, end' = end, phase = "next",
         NEW a \in Nodes \ {tree.root}, at = a, CallParent, Returns(a),
         Kind(a) = "Parallel" => nod[a].freeze /\ nod[a].threadNumber + 1 >= Len(Children(a))
  PROVE  InvA'
<1>1. TypeOK /\ Slices /\ tree \in Trees /\ Flat(tree) /\ ActiveShape /\ Placed /\ Progress /\ Waits
  BY Context
<1>2. a # None /\ ~end /\ ~end' /\ tree' = tree
  BY <1>1, TreeFacts, Context DEF NextUnchanged
<1>3. PICK x \in Nodes : x = Parent(a)
  BY <1>1, TreeFacts
<1>4. Slices' /\ \E h \in DOMAIN Active : h = Len(open) + 1 /\ Replaced(h, x) /\ HandAt(h)' /\ Executed(h)'
  BY <1>1, <1>2, <1>3, CallMoves DEF CallParent
<1> PICK h \in DOMAIN Active : h = Len(open) + 1 /\ Replaced(h, x) /\ HandAt(h)' /\ Executed(h)'
  BY <1>4
<1>5. Active[h] = a /\ ActiveShape'
  BY <1>1, <1>2, <1>4, InHand, ShapeNext
<1>6. Kind(a) = "Parallel" \/ \A j \in DOMAIN Active : j # h => Active[j] # a
  BY <1>1, <1>2, <1>5, NoneBelow, SubtreeFacts
<1>7. nod[a].threadNumber \in Nat
  BY <1>1, FieldTypes DEF TypeOK
<1>8. Placed'
  <2>1. CASE Kind(a) = "Parallel"
    BY <1>1, <1>2, <1>3, <1>5, <1>7, <2>1, JoinPlaced
  <2>2. CASE Kind(a) # "Parallel"
    BY <1>1, <1>2, <1>3, <1>5, <2>2, CallPlaced
  <2> QED BY <2>1, <2>2
<1>9. Progress' /\ Waits'
  BY <1>1, <1>2, <1>3, <1>5, <1>6, CallProgress, CallWaits
<1> QED BY <1>1, <1>2, <1>4, <1>8, <1>9, AfterHand

\* The node in hand: what it is, and its fields.
LEMMA HandFields ==
  ASSUME InvA, phase = "next", at # None
  PROVE  /\ at \in Nodes /\ nod \in [Nodes -> NodeFields] /\ tree \in Trees
         /\ Kind(at) # "Root" => at # tree.root
         /\ nod[at].freeze \in BOOLEAN /\ nod[at].step \in Nat /\ nod[at].curLoop \in Nat
         /\ nod[at].threadNumber \in Nat
         /\ Children(at) \in Seq(Nodes) /\ DOMAIN Children(at) = 1 .. Len(Children(at))
         /\ Len(Children(at)) \in Nat /\ at \in Subtree(at) /\ Below(at) \subseteq Nodes
         /\ Limit(at) \in Int
         /\ Kind(at) # "Wait" => ~nod[at].waiting
<1>1. at \in Nodes /\ nod \in [Nodes -> NodeFields] /\ tree \in Trees
  BY DEF InvA, TypeOK
<1>2. Kind(at) # "Wait" => ~nod[at].waiting
  BY <1>1 DEF InvA, Live, Waits
<1>3. Children(at) \in Seq(Nodes)
  BY <1>1, TreeFacts
<1>4. DOMAIN Children(at) = 1 .. Len(Children(at)) /\ Len(Children(at)) \in Nat
  BY <1>3
<1>5. /\ Kind(at) # "Root" => at # tree.root
      /\ at \in Subtree(at) /\ Below(at) \subseteq Nodes /\ Limit(at) \in Int
  BY <1>1, TreeFacts, SubtreeFacts DEF Below
<1>6. /\ nod[at].freeze \in BOOLEAN /\ nod[at].step \in Nat /\ nod[at].curLoop \in Nat
      /\ nod[at].threadNumber \in Nat
  BY <1>1, FieldTypes
<1> QED BY <1>1, <1>2, <1>3, <1>4, <1>5, <1>6

\* A node that opens its one child.
LEMMA DescendOpens ==
  ASSUME InvA, Flat(tree), NextUnchanged, phase = "next", at # None,
         CanDescend, NEW F \in SUBSET {"freeze", "waiting"}, Only(nod', nod, at, F),
         nod'[at].freeze, ~nod'[at].waiting,
         Kind(at) \in {"Root", "Script", "Condition", "Wait"},
         NEW a, a = at, NEW c, c = Children(a)[1]
  PROVE  a \in Nodes /\ 1 \in DOMAIN Children(a) /\ Opens(a, 1) /\ Reset(c)'
<1>0. tree' = tree
  BY DEF NextUnchanged
<1>1. a \in Nodes
  BY HandFields
<1>2. 1 \in DOMAIN Children(a) /\ tree \in Trees
  BY <1>1, HandFields DEF CanDescend
<1>4. c \in ChildSet(a) /\ c # a /\ c \in Nodes
  BY <1>1, <1>2, ChildFacts DEF ChildSet
<1>5. ~Opened(a, 1)
  BY <1>1 DEF Opened, CanDescend
<1>6. Reset(c)
  BY <1>1, <1>2, <1>5, Context DEF Progress
<1>7. \A n \in Nodes \ {a} : nod'[n] = nod[n]
  BY <1>1 DEF Only
<1>8. Reset(c)'
  BY <1>0, <1>4, <1>6, <1>7, EqualFacts
<1>9. Opens(a, 1)
  <2>1. Opened(a, 1)' /\ \A l : Opened(a, l) => Opened(a, l)'
    BY <1>0, <1>1, SameTree DEF Opened
  <2>2. \A n \in Below(a) : nod'[n] = nod[n]
    BY <1>1, <1>7, HandFields DEF Below
  <2>3. \A n \in Nodes \ Subtree(a) : nod'[n] = nod[n]
    BY <1>1, <1>7, HandFields
  <2> QED BY <1>1, <2>1, <2>2, <2>3 DEF Opens
<1> QED BY <1>1, <1>2, <1>8, <1>9

\* Opening the one child keeps InvA.
LEMMA DescendStep ==
  ASSUME InvA, Flat(tree), TypeOK', NextUnchanged, end' = end, phase = "next", at # None,
         CanDescend, OpenChild(1), NEW F \in SUBSET {"freeze", "waiting"}, Only(nod', nod, at, F),
         nod'[at].freeze, ~nod'[at].waiting,
         Kind(at) \in {"Root", "Script", "Condition", "Wait"}
  PROVE  InvA'
<1> PICK a : a = at
  OBVIOUS
<1> PICK c : c = Children(a)[1]
  OBVIOUS
<1>1. a \in Nodes /\ 1 \in DOMAIN Children(a) /\ Opens(a, 1) /\ Reset(c)'
  BY DescendOpens
<1> QED BY <1>1, OpenStep

\* A node that hands over to its parent.
LEMMA UpReturns ==
  ASSUME InvA, phase = "next", at # None, Kind(at) # "Root",
         \/ nod' = nod /\ Kind(at) \notin {"Parallel", "Wait"}
         \/ Kind(at) = "Wait" /\ nod' = [nod EXCEPT ![at].waiting = FALSE]
         \/ /\ Kind(at) = "Parallel" /\ nod' = [nod EXCEPT ![at].threadNumber = @ + 1]
            /\ nod[at].freeze,
         NEW a, a = at
  PROVE  a \in Nodes \ {tree.root} /\ Returns(a)
<1>1. a \in Nodes \ {tree.root}
  BY HandFields
<1>2. nod \in [Nodes -> NodeFields] /\ (Kind(a) # "Wait" => ~nod[a].waiting)
  BY <1>1, HandFields
<1>3. Returns(a)
  <2>1. CASE nod' = nod /\ Kind(at) \notin {"Parallel", "Wait"}
    BY <1>1, <1>2, <2>1 DEF Returns
  <2>2. CASE Kind(at) = "Wait" /\ nod' = [nod EXCEPT ![at].waiting = FALSE]
    BY <1>1, <1>2, <2>2, SetWaiting DEF Only, But, Returns
  <2>3. CASE /\ Kind(at) = "Parallel" /\ nod' = [nod EXCEPT ![at].threadNumber = @ + 1] /\ nod[at].freeze
    <3>1. Only(nod', nod, a, {"threadNumber"})
      BY <1>1, <1>2, <2>3, SetNumber
    <3> QED BY <1>1, <1>2, <2>3, <3>1 DEF Only, But, Returns
  <2> QED BY <2>1, <2>2, <2>3
<1> QED BY <1>1, <1>3

\* Handing over to the parent keeps InvA.
LEMMA UpStep ==
  ASSUME InvA, Flat(tree), TypeOK', NextUnchanged, end' = end, phase = "next", at # None,
         Kind(at) # "Root", CallParent,
         \/ nod' = nod /\ Kind(at) \notin {"Parallel", "Wait"}
         \/ Kind(at) = "Wait" /\ nod' = [nod EXCEPT ![at].waiting = FALSE]
         \/ /\ Kind(at) = "Parallel" /\ nod' = [nod EXCEPT ![at].threadNumber = @ + 1]
            /\ nod[at].freeze /\ nod[at].threadNumber + 1 >= Len(Children(at))
  PROVE  InvA'
<1> PICK a : a = at
  OBVIOUS
<1>1. a \in Nodes \ {tree.root} /\ Returns(a)
  BY UpReturns
<1> QED BY <1>1, ReturnStep

\* A wait whose time has not come keeps InvA.
LEMMA WaitAgainInv == ASSUME InvA, Flat(tree), TypeOK', WaitAgain PROVE InvA'
<1>0. /\ phase = "next" /\ at # None /\ Kind(at) = "Wait" /\ nod[at].waiting
      /\ BlackboardAppend(<<at>>) /\ at' = None /\ nod' = nod /\ end' = end /\ NextUnchanged
  BY DEF WaitAgain, Advancing
<1> PICK a \in Nodes : a = at
  BY <1>0, HandFields
<1>1. TypeOK /\ Slices /\ tree \in Trees /\ Flat(tree) /\ ActiveShape /\ Placed /\ Progress /\ Waits
      /\ ~end /\ ~end' /\ tree' = tree
  BY <1>0, Context DEF NextUnchanged
<1>2. Slices' /\ \E h \in DOMAIN Active : h = Len(open) + 1 /\ Replaced(h, a) /\ ~HandAt(h)' /\ ~Executed(h)'
  BY <1>0, <1>1, PutMoves
<1> PICK h \in DOMAIN Active : h = Len(open) + 1 /\ Replaced(h, a) /\ ~HandAt(h)' /\ ~Executed(h)'
  BY <1>2
<1>3. Active[h] = a /\ ActiveShape'
  BY <1>0, <1>1, <1>2, InHand, ShapeNext
<1>4. Placed' /\ Progress' /\ Waits'
  BY <1>0, <1>1, <1>3, AgainPlaced
<1> QED BY <1>0, <1>1, <1>2, <1>4, AfterHand

\* A loop that goes round once more.
LEMMA LoopOpens ==
  ASSUME InvA, Flat(tree), LoopNext, Children(at) # <<>>, nod[at].curLoop < Limit(at),
         NEW a, a = at, NEW c, c = Children(a)[1]
  PROVE  /\ a \in Nodes /\ 1 \in DOMAIN Children(a) /\ OpenChild(1) /\ Opens(a, 1) /\ Reset(c)'
         /\ nod'[a].curLoop = nod[a].curLoop + 1 /\ nod[a].curLoop \in Nat
<1>0. /\ phase = "next" /\ at # None /\ Kind(at) = "Loop" /\ end' = end /\ NextUnchanged /\ tree' = tree
  BY DEF LoopNext, LoopWhile, Advancing, NextUnchanged
<1>10. a \in Nodes
  BY <1>0, HandFields
<1> DEFINE r == AfterReset(Below(a))
<1>1. nod' = [r EXCEPT ![a].curLoop = @ + 1] /\ OpenChild(1)
  BY <1>0 DEF LoopNext, LoopWhile, Below
<1>2. /\ nod \in [Nodes -> NodeFields] /\ tree \in Trees /\ TypeOK /\ nod[a].curLoop \in Nat
      /\ a \in Subtree(a) /\ 1 \in DOMAIN Children(a) /\ ~nod[a].waiting /\ Below(a) \subseteq Nodes
  BY <1>0, HandFields DEF InvA
<1>3. r \in [Nodes -> NodeFields] /\ r[a] = nod[a]
  BY <1>2, <1>10, ResetTypes DEF AfterReset, Below
<1>4. /\ \A n \in Nodes \ Subtree(a) : r[n] = nod[n]
      /\ \A n \in Below(a) : r[n] = ResetNode(n)
  BY <1>2 DEF AfterReset, Below
<1> HIDE DEF r
<1>5. Only(nod', r, a, {"curLoop"}) /\ nod'[a].curLoop = nod[a].curLoop + 1
  <2>1. nod' = [r EXCEPT ![a].curLoop = @ + 1]
    BY <1>1
  <2>2. Only(nod', r, a, {"curLoop"}) /\ nod'[a].curLoop = r[a].curLoop + 1
    BY <1>3, <1>10, <2>1, SetCurLoop
  <2> QED BY <1>3, <2>2
<1>6. ASSUME NEW n \in Below(a) PROVE Reset(n)' /\ ~nod'[n].waiting
  <2>1. nod'[n] = ResetNode(n) /\ n \in Nodes
    BY <1>2, <1>4, <1>5 DEF Only, Below
  <2>2. ResetNode(n) = [FreshNode(tree, n) EXCEPT !.threadNumber =
                          IF Kind(n) = "Parallel" THEN 0 ELSE nod[n].threadNumber]
    BY DEF ResetNode
  <2>3. /\ ~ResetNode(n).freeze /\ ResetNode(n).step = 0 /\ ResetNode(n).curLoop = 0
        /\ ~ResetNode(n).waiting
        /\ Kind(n) = "Parallel" => ResetNode(n).threadNumber = 0
    BY <2>2 DEF FreshNode
  <2> QED BY <1>0, <2>1, <2>3, SameTree DEF Reset
<1>7. Opens(a, 1)
  <2>1. \A n \in Nodes \ Subtree(a) : nod'[n] = nod[n]
    BY <1>2, <1>4, <1>5, <1>10 DEF Only
  <2>2. ~nod'[a].waiting
    BY <1>2, <1>3, <1>5 DEF Only, But
  <2>3. Opened(a, 1)' /\ \A l : Opened(a, l) => Opened(a, l)'
    BY <1>0, <1>2, <1>5, <1>10, SameTree DEF Opened
  <2> QED BY <1>6, <2>1, <2>2, <2>3 DEF Opens
<1>8. Reset(c)'
  <2>1. c \in Below(a)
    BY <1>2, <1>10, ChildFacts DEF ChildSet
  <2> QED BY <1>6, <2>1
<1> QED BY <1>10, <1>1, <1>2, <1>5, <1>7, <1>8

\* A loop keeps InvA.
LEMMA LoopInv == ASSUME InvA, Flat(tree), TypeOK', LoopNext PROVE InvA'
<1>0. /\ phase = "next" /\ at # None /\ Kind(at) = "Loop" /\ end' = end /\ NextUnchanged /\ tree' = tree
  BY DEF LoopNext, LoopWhile, Advancing, NextUnchanged
<1>1. CASE ~(Children(at) # <<>> /\ nod[at].curLoop < Limit(at))
  BY <1>0, <1>1, UpStep DEF LoopNext, LoopWhile
<1>2. CASE Children(at) # <<>> /\ nod[at].curLoop < Limit(at)
  <2> PICK a : a = at
    OBVIOUS
  <2> PICK c : c = Children(a)[1]
    OBVIOUS
  <2>1. a \in Nodes /\ 1 \in DOMAIN Children(a) /\ OpenChild(1) /\ Opens(a, 1) /\ Reset(c)'
    BY <1>2, LoopOpens
  <2> QED BY <1>0, <2>1, OpenStep
<1> QED BY <1>1, <1>2

\* A sequence or selector that opens its next child.
LEMMA StepOpens ==
  ASSUME InvA, Flat(tree), StepNext, nod[at].step < Len(Children(at)),
         NEW a, a = at, NEW k, k = nod[a].step + 1, NEW c, c = Children(a)[k]
  PROVE  /\ a \in Nodes /\ k \in DOMAIN Children(a) /\ OpenChild(k) /\ Opens(a, k) /\ Reset(c)'
         /\ nod'[a].step = k /\ nod[a].step \in Nat
<1>0. /\ phase = "next" /\ at # None /\ Kind(at) \in {"Sequence", "Selector"} /\ end' = end /\ NextUnchanged /\ tree' = tree
  BY DEF StepNext, Advancing, NextUnchanged
<1>9. a \in Nodes
  BY <1>0, HandFields
<1>1. nod' = [nod EXCEPT ![a].step = @ + 1] /\ OpenChild(k)
  BY <1>0 DEF StepNext
<1>2. /\ nod \in [Nodes -> NodeFields] /\ tree \in Trees /\ nod[a].step \in Nat
      /\ a \in Subtree(a) /\ k \in DOMAIN Children(a) /\ ~nod[a].waiting /\ Below(a) \subseteq Nodes
  BY <1>0, HandFields
<1>3. Only(nod', nod, a, {"step"}) /\ nod'[a].step = nod[a].step + 1
  BY <1>1, <1>2, <1>9, SetStep
<1>4. \A n \in Nodes \ {a} : nod'[n] = nod[n]
  BY <1>3 DEF Only
<1>5. ~nod'[a].waiting
  BY <1>2, <1>3 DEF Only, But
<1>6. Opened(a, k)' /\ \A l \in DOMAIN Children(a) : Opened(a, l) => Opened(a, l)'
  <2>1. DOMAIN Children(a) \subseteq Int
    BY <1>2, <1>9, TreeFacts
  <2> QED BY <1>0, <1>2, <1>3, <1>9, <2>1, SameTree DEF Opened
<1>7. Opens(a, k)
  BY <1>2, <1>4, <1>5, <1>6, <1>9 DEF Opens, Below
<1>8. Reset(c)'
  <2>1. ~Opened(a, k)
    BY <1>0, <1>2, <1>9 DEF Opened
  <2>2. Reset(c)
    BY <1>0, <1>2, <1>9, <2>1, Context DEF Progress
  <2>3. c # a /\ c \in Nodes
    BY <1>2, <1>9, ChildFacts DEF ChildSet
  <2> QED BY <1>0, <1>4, <2>2, <2>3, EqualFacts
<1> QED BY <1>1, <1>2, <1>3, <1>7, <1>8, <1>9

\* A sequence or a selector keeps InvA.
LEMMA StepInv == ASSUME InvA, Flat(tree), TypeOK', StepNext PROVE InvA'
<1>0. /\ phase = "next" /\ at # None /\ Kind(at) \in {"Sequence", "Selector"} /\ end' = end /\ NextUnchanged /\ tree' = tree
  BY DEF StepNext, Advancing, NextUnchanged
<1>1. CASE ~(nod[at].step < Len(Children(at)))
  BY <1>0, <1>1, UpStep DEF StepNext
<1>2. CASE nod[at].step < Len(Children(at))
  <2> PICK a : a = at
    OBVIOUS
  <2> PICK k : k = nod[a].step + 1
    OBVIOUS
  <2> PICK c : c = Children(a)[k]
    OBVIOUS
  <2>1. a \in Nodes /\ k \in DOMAIN Children(a) /\ OpenChild(k) /\ Opens(a, k) /\ Reset(c)'
    BY <1>2, StepOpens
  <2> QED BY <1>0, <2>1, OpenStep
<1> QED BY <1>1, <1>2

\* A parallel node that forks.
LEMMA ForkForks ==
  ASSUME InvA, ParallelFork, NEW a \in Nodes, a = at
  PROVE  Forks(a)
<1> DEFINE g(n) == [j \in DOMAIN Children(a) |-> threads + j][CHOOSE j \in DOMAIN Children(a) : Children(a)[j] = n]
<1>1. nod' = [n \in Nodes |->
           IF n = a THEN [nod[n] EXCEPT !.freeze = TRUE]
           ELSE IF n \in ChildSet(a) /\ nod[n].threadNumber = 0
           THEN [nod[n] EXCEPT !.threadNumber = g(n)]
           ELSE nod[n]]
  BY DEF ParallelFork, ForkWith
<1> HIDE DEF g
<1>2. nod \in [Nodes -> NodeFields]
  BY DEF InvA, TypeOK
<1>3. ASSUME NEW n \in Nodes \ {a}
      PROVE /\ nod'[n].freeze = nod[n].freeze /\ nod'[n].step = nod[n].step
            /\ nod'[n].curLoop = nod[n].curLoop /\ nod'[n].waiting = nod[n].waiting
            /\ n \notin ChildSet(a) => nod'[n] = nod[n]
  <2>1. nod'[n] \in {nod[n], [nod[n] EXCEPT !.threadNumber = g(n)]}
    BY <1>1
  <2> QED BY <1>1, <1>2, <2>1 DEF NodeFields
<1>4. nod'[a].freeze /\ nod'[a].threadNumber = nod[a].threadNumber /\ nod'[a].waiting = nod[a].waiting
      /\ nod'[a].curLoop = nod[a].curLoop
  BY <1>1, <1>2 DEF NodeFields
<1> QED BY <1>3, <1>4 DEF Forks

\* A fork that forks keeps InvA.
LEMMA ForkInv == ASSUME InvA, Flat(tree), TypeOK', ParallelFork PROVE InvA'
<1>0. /\ phase = "next" /\ at # None /\ Kind(at) = "Parallel" /\ ~nod[at].freeze /\ end' = end
      /\ NextUnchanged /\ BlackboardAppend(Children(at)) /\ at' = None /\ tree' = tree
  BY DEF ParallelFork, ForkWith, Advancing, NextUnchanged
<1> PICK a \in Nodes : a = at
  BY <1>0, HandFields
<1>1. TypeOK /\ Slices /\ tree \in Trees /\ Flat(tree) /\ ActiveShape /\ Placed /\ Progress /\ Waits
      /\ ~end /\ ~end'
  BY <1>0, Context
<1>2. PICK h \in DOMAIN Active : Active[h] = a
  BY <1>0, <1>1, InHand
<1>3. Alone /\ Len(Active) = 1
  BY <1>0, <1>1, <1>2, BeforeFork
<1>4. /\ Slices' /\ Active' = Children(a) /\ Active[1] = a
      /\ \A j : ~HandAt(j)'
      /\ \A j \in DOMAIN Children(a) : ~Executed(j)'
  BY <1>0, <1>1, <1>3, ForkMoves
<1>5. Forks(a)
  BY ForkForks
<1>6. ActiveShape'
  BY <1>4, ShapeNext
<1>7. Placed' /\ Progress' /\ Waits'
  BY <1>0, <1>1, <1>3, <1>4, <1>5, <1>6, ForkStep
<1> QED BY <1>0, <1>1, <1>4, <1>7, AfterHand

\* A branch that joins keeps InvA.
LEMMA JoinInv == ASSUME InvA, Flat(tree), TypeOK', ParallelJoin PROVE InvA'
<1>0. /\ phase = "next" /\ at # None /\ Kind(at) = "Parallel" /\ nod[at].freeze /\ end' = end
      /\ NextUnchanged /\ nod' = [nod EXCEPT ![at].threadNumber = @ + 1] /\ tree' = tree
  BY DEF ParallelJoin, JoinWhen, Advancing, NextUnchanged
<1>1. CASE nod[at].threadNumber + 1 >= Len(Children(at))
  BY <1>0, <1>1, UpStep DEF ParallelJoin, JoinWhen
<1>2. CASE ~(nod[at].threadNumber + 1 >= Len(Children(at)))
  <2>0. at' = None /\ UNCHANGED <<open, nods>>
    BY <1>2 DEF ParallelJoin, JoinWhen
  <2> PICK a \in Nodes : a = at
    BY <1>0, HandFields
  <2>1. TypeOK /\ Slices /\ tree \in Trees /\ Flat(tree) /\ ActiveShape /\ Placed /\ Progress /\ Waits
        /\ ~end /\ ~end'
    BY <1>0, Context
  <2>2. PICK h \in DOMAIN Active : Active[h] = a /\ h = Len(open) + 1
    BY <1>0, <2>1, InHand
  <2>3. nod \in [Nodes -> NodeFields] /\ nod[a].threadNumber \in Nat /\ ~nod[a].waiting
    BY <1>0, HandFields
  <2>4. Only(nod', nod, a, {"threadNumber"}) /\ nod'[a].threadNumber = nod[a].threadNumber + 1
    BY <1>0, <2>3, SetNumber
  <2>5. Returns(a)
    BY <1>0, <2>3, <2>4 DEF Only, But, Returns
  <2>6. /\ Slices' /\ Len(Active') = Len(Active) - 1 /\ \A j : ~HandAt(j)'
        /\ \A j \in DOMAIN Active' :
            /\ Skip(h, j) \in DOMAIN Active /\ Skip(h, j) # h /\ ~HandAt(Skip(h, j))
            /\ Active'[j] = Active[Skip(h, j)] /\ (Executed(j)' <=> Executed(Skip(h, j)))
    BY <1>0, <2>0, <2>1, <2>2, DropMoves
  <2>7. ActiveShape'
    BY <2>6, ShapeNext
  <2>8. Placed' /\ Progress' /\ Waits'
    BY <1>0, <1>2, <2>1, <2>2, <2>3, <2>4, <2>5, <2>6, <2>7, StayStep
  <2> QED BY <1>0, <2>1, <2>6, <2>8, AfterHand
<1> QED BY <1>1, <1>2

\* The root keeps InvA: it ends the bot only when it is all that is active.
LEMMA RootInv == ASSUME InvA, Flat(tree), TypeOK', RootNext PROVE InvA'
<1>0. phase = "next" /\ at # None /\ Kind(at) = "Root" /\ NextUnchanged /\ tree' = tree
  BY DEF RootNext, Advancing, NextUnchanged
<1>1. TypeOK /\ Slices /\ tree \in Trees /\ Flat(tree) /\ ActiveShape /\ Placed /\ Progress /\ Waits /\ ~end
  BY <1>0, Context
<1>2. at \in Nodes /\ nod \in [Nodes -> NodeFields] /\ ~nod[at].waiting
  BY <1>0, HandFields
<1>3. CASE CanDescend
  <2>1. OpenChild(1) /\ nod' = [nod EXCEPT ![at].freeze = TRUE] /\ end' = end
    BY <1>3 DEF RootNext, Descend
  <2>2. Only(nod', nod, at, {"freeze"}) /\ nod'[at].freeze
    BY <1>2, <2>1, SetFreeze
  <2>3. ~nod'[at].waiting
    BY <1>2, <2>2 DEF Only, But
  <2> QED BY <1>0, <1>3, <2>1, <2>2, <2>3, DescendStep
<1>4. CASE ~CanDescend
  <2>1. end' /\ at' = None /\ nod' = nod /\ UNCHANGED <<open, nods>>
    BY <1>4 DEF RootNext
  <2>2. PICK h \in DOMAIN Active : Active[h] = at
    BY <1>0, <1>1, InHand
  <2>3. at = tree.root
    BY <1>0, <1>1, <1>2, TreeFacts
  <2>4. Alone /\ Len(Active) = 1
    <3>1. \A p \in Nodes : ~Forked(p)
      BY <1>1, <2>2, <2>3, ForkedHand
    <3> QED BY <1>1, <3>1 DEF Placed, Alone
  <2>5. Slices' /\ Len(Active') = 0 /\ open' = <<>> /\ i' > Len(nods')
    BY <1>0, <1>1, <2>1, <2>4, EndMoves
  <2>6. DOMAIN Active' = 1 .. Len(Active')
    BY <2>5, ShapeNext DEF ActiveShape
  <2>7. \A n \in Nodes : ~nod[n].waiting
    <3> SUFFICES ASSUME NEW n \in Nodes, nod[n].waiting PROVE FALSE
      OBVIOUS
    <3>1. Kind(n) = "Wait" /\ \E j \in DOMAIN Active : Active[j] = n
      BY <1>1 DEF Waits
    <3>2. \A j \in DOMAIN Active : Active[j] = at
      BY <1>1, <2>2, <2>4 DEF ActiveShape
    <3> QED BY <1>0, <3>1, <3>2
  <2>8. Placed' /\ Progress' /\ Waits'
    BY <1>0, <1>1, <2>1, <2>5, <2>6, <2>7, NoneActive
  <2> QED BY <1>0, <2>1, <2>5, <2>8, AfterHand
<1> QED BY <1>3, <1>4

\* Every onNext keeps InvA.
LEMMA OnNextInv == ASSUME InvA, Flat(tree), TypeOK', OnNext PROVE InvA'
<1>1. CASE RootNext
  BY <1>1, RootInv
<1>2. CASE ScriptNext
  <2>0. phase = "next" /\ at # None /\ Kind(at) = "Script" /\ NextUnchanged /\ end' = end
    BY <1>2 DEF ScriptNext, Advancing
  <2>1. at \in Nodes /\ nod \in [Nodes -> NodeFields] /\ ~nod[at].waiting
    BY <2>0, HandFields
  <2>2. CASE CanDescend
    <3>1. OpenChild(1) /\ nod' = [nod EXCEPT ![at].freeze = TRUE]
      BY <1>2, <2>2 DEF ScriptNext, Descend
    <3>2. Only(nod', nod, at, {"freeze"}) /\ nod'[at].freeze
      BY <2>1, <3>1, SetFreeze
    <3>3. ~nod'[at].waiting
      BY <2>1, <3>2 DEF Only, But
    <3> QED BY <2>0, <2>2, <3>1, <3>2, <3>3, DescendStep
  <2>3. CASE ~CanDescend
    BY <1>2, <2>0, <2>3, UpStep DEF ScriptNext
  <2> QED BY <2>2, <2>3
<1>3. CASE ConditionNext
  <2>0. phase = "next" /\ at # None /\ Kind(at) = "Condition" /\ NextUnchanged /\ end' = end
    BY <1>3 DEF ConditionNext, Advancing
  <2>1. at \in Nodes /\ nod \in [Nodes -> NodeFields] /\ ~nod[at].waiting
    BY <2>0, HandFields
  <2>2. CASE CanDescend /\ nod[at].succ
    <3>1. OpenChild(1) /\ nod' = [nod EXCEPT ![at].freeze = TRUE]
      BY <1>3, <2>2 DEF ConditionNext, Descend
    <3>2. Only(nod', nod, at, {"freeze"}) /\ nod'[at].freeze
      BY <2>1, <3>1, SetFreeze
    <3>3. ~nod'[at].waiting
      BY <2>1, <3>2 DEF Only, But
    <3> QED BY <2>0, <2>2, <3>1, <3>2, <3>3, DescendStep
  <2>3. CASE ~(CanDescend /\ nod[at].succ)
    BY <1>3, <2>0, <2>3, UpStep DEF ConditionNext
  <2> QED BY <2>2, <2>3
<1>4. CASE WaitOver
  <2>0. phase = "next" /\ at # None /\ Kind(at) = "Wait" /\ NextUnchanged /\ end' = end
    BY <1>4 DEF WaitOver, Advancing
  <2>1. at \in Nodes /\ nod \in [Nodes -> NodeFields]
    BY <2>0, HandFields
  <2>2. CASE CanDescend
    <3>1. OpenChild(1) /\ nod' = [nod EXCEPT ![at].freeze = TRUE, ![at].waiting = FALSE]
      BY <1>4, <2>2 DEF WaitOver
    <3>2. Only(nod', nod, at, {"freeze", "waiting"}) /\ nod'[at].freeze /\ ~nod'[at].waiting
      BY <2>1, <3>1, SetBoth
    <3> QED BY <2>0, <2>2, <3>1, <3>2, DescendStep
  <2>3. CASE ~CanDescend
    BY <1>4, <2>0, <2>3, UpStep DEF WaitOver
  <2> QED BY <2>2, <2>3
<1> QED BY <1>1, <1>2, <1>3, <1>4, WaitAgainInv, LoopInv, StepInv, ForkInv, JoinInv DEF OnNext

-----------------------------------------------------------------------------
(* The rest of Do, and the whole. *)

\* A bot at its beginning, with a new tree or one from the pool.
Start ==
  /\ tree \in Trees /\ Active = <<tree.root>> /\ ~end /\ Hand = 0
  /\ \A j \in DOMAIN Active : ~Executed(j)
  /\ \A n \in Nodes : Reset(n) /\ ~nod[n].waiting

\* There InvA's parts hold ...
LEMMA Starts == Start => Placed /\ Progress /\ Waits
BY StartStep DEF Start

\* ... also after a step.
LEMMA StartsNext == Start' => Placed' /\ Progress' /\ Waits'
BY Starts, PTL

\* The nodes of a tree that has been loaded are as reset leaves them.
LEMMA InitFresh == Init => \A n \in Nodes : Reset(n) /\ ~nod[n].waiting
<1> SUFFICES ASSUME Init PROVE \A n \in Nodes : Reset(n) /\ ~nod[n].waiting
  OBVIOUS
<1>0. Kind(tree.root) = "Root"
  BY TreeFacts DEF Init
<1>1. ASSUME NEW n \in Nodes PROVE nod[n] = FreshNode(tree, n)
  BY DEF Init, Fresh, Nodes
<1>2. \A n \in Nodes : /\ ~nod[n].freeze /\ nod[n].step = 0 /\ nod[n].curLoop = 0 /\ ~nod[n].waiting
                       /\ nod[n].threadNumber = IF n = tree.root THEN 1 ELSE 0
  <2> TAKE n \in Nodes
  <2>1. nod[n] = [freeze |-> FALSE, step |-> 0, curLoop |-> 0, succ |-> FALSE,
                  waiting |-> FALSE, threadNumber |-> IF n = tree.root THEN 1 ELSE 0]
    BY <1>1 DEF FreshNode
  <2> QED BY <2>1
<1> QED BY <1>0, <1>2 DEF Reset

\* InvA holds of a bot that begins.
LEMMA InitInvA == Init /\ Flat(tree) => InvA
<1> SUFFICES ASSUME Init, Flat(tree) PROVE InvA
  OBVIOUS
<1>1. TypeOK
  BY InitTypes
<1>2. tree \in Trees
  BY DEF Init
<1>3. Slices /\ NothingLeftBehind /\ NoPanic
  BY DEF Init, Slices, NothingLeftBehind, NoPanic
<1>4. \A n \in Nodes : Reset(n) /\ ~nod[n].waiting
  BY InitFresh
<1>5. Active = <<tree.root>> /\ ~end /\ Hand = 0 /\ (\A j \in DOMAIN Active : ~Executed(j)) /\ phase = "idle"
  BY DEF Init, Active, Hand, Executed
<1> QED BY <1>1, <1>2, <1>3, <1>4, <1>5, StartStep DEF InvA

\* Between the handlers, the range goes on.
LEMMA QuietInv ==
  ASSUME InvA, Flat(tree), TypeOK', DoBegin \/ TickEnd \/ RangeNext \/ (DoEnd /\ phase' = "idle")
  PROVE  InvA'
<1>1. /\ tree' = tree /\ nod' = nod /\ end' = end
      /\ phase \in {"idle", "tick", "next"} /\ phase' \in {"idle", "tick", "next"}
  BY DEF DoBegin, TickEnd, RangeNext, DoEnd, blackboard
<1>2. TypeOK /\ Slices /\ NothingLeftBehind /\ NoPanic /\ Placed /\ Progress /\ Waits /\ tree \in Trees
  BY <1>1 DEF InvA, Live, TypeOK
<1>e. ~end
  <2>1. phase \in {"idle", "tick"} => ~end
    BY <1>2 DEF Slices
  <2>2. RangeNext => ~end
    <3>1. RangeNext /\ end => i > Len(nods) /\ i <= Len(nods) /\ i \in Int /\ Len(nods) \in Int
      BY <1>2, SliceTypes DEF RangeNext, NothingLeftBehind
    <3> QED BY <3>1
  <2> QED BY <1>1, <2>1, <2>2 DEF DoBegin, TickEnd, DoEnd
<1>3. /\ Slices' /\ Active' = Active
      /\ \A j \in DOMAIN Active : (Executed(j)' <=> Executed(j)) /\ ~HandAt(j)
  BY <1>2, QuietMoves
<1>4. ActiveShape
  BY <1>2, Shape
<1>5. Placed' /\ Progress' /\ Waits'
  BY <1>1, <1>2, <1>3, <1>4, QuietStep
<1>6. NoPanic'
  BY <1>1, <1>2, <1>e DEF DoBegin, TickEnd, RangeNext, DoEnd, NoPanic
<1> QED BY <1>1, <1>3, <1>5, <1>6, <1>e DEF InvA, NothingLeftBehind

\* A node is ticked, and what its state changes.
LEMMA TickInv ==
  ASSUME InvA, Flat(tree), TypeOK', NEW n \in Nodes, NEW K, Ticking(n, K), NEW r, StateCheck(n, r),
         \A m \in Nodes \ {n} : nod'[m] = nod[m], But(nod'[n], nod[n], {"succ", "waiting"}),
         nod'[n].waiting <=> nod[n].waiting \/ Kind(n) = "Wait"
  PROVE  InvA'
<1>1. /\ tree' = tree /\ end' = end /\ phase = "tick" /\ phase' \in {"tick", "ended"}
      /\ outcome' \in {outcome, "done"}
  BY DEF Ticking, StateCheck, blackboard
<1>2. TypeOK /\ Slices /\ NothingLeftBehind /\ NoPanic /\ Placed /\ Progress /\ Waits /\ tree \in Trees /\ ActiveShape
  BY <1>1, Shape DEF InvA, Live, TypeOK
<1>3. /\ Slices' /\ ~end /\ ~end'
      /\ i \in DOMAIN Active /\ Active[i] = n /\ ~Executed(i)
      /\ phase' = "tick" => Active' = Active
      /\ \A j \in DOMAIN Active :
              /\ ~HandAt(j) /\ ~HandAt(j)'
              /\ phase' = "tick" => (Executed(j)' <=> Executed(j) \/ j = i)
  BY <1>2, TickMoves
<1>4. CASE phase' = "tick"
  <2> PICK q \in DOMAIN Active : q = i
    BY <1>3
  <2>1. Placed' /\ Progress' /\ Waits'
    BY <1>1, <1>2, <1>3, <1>4, TickStep
  <2> QED BY <1>1, <1>2, <1>3, <1>4, <2>1 DEF InvA, NothingLeftBehind, NoPanic
<1>5. CASE phase' = "ended"
  BY <1>1, <1>2, <1>3, <1>5 DEF InvA, NothingLeftBehind, NoPanic, Live
<1> QED BY <1>1, <1>4, <1>5

\* What is about to be ticked is as reset left it.
LEMMA TickFields ==
  ASSUME InvA, NEW n \in Nodes, NEW K, Ticking(n, K)
  PROVE  Reset(n) /\ nod \in [Nodes -> NodeFields] /\ (Kind(n) # "Wait" => ~nod[n].waiting)
<1>1. phase = "tick" /\ i \in DOMAIN nods /\ nods[i] = n /\ Active = nods /\ \A j : ~HandAt(j)
  BY DEF Ticking, Active, HandAt, Hand
<1>2. TypeOK /\ Progress /\ Waits
  BY <1>1 DEF InvA, Live
<1>3. Reset(n)
  BY <1>1, <1>2 DEF Progress
<1> QED BY <1>2, <1>3 DEF TypeOK, Waits

\* Every onTick keeps InvA.  A selector that is ticked has opened no child, so the tick
\* never gets to its type assertion.
LEMMA OnTickInv ==
  ASSUME InvA, Flat(tree), TypeOK', NEW n \in Nodes,
         ScriptTick(n) \/ ConditionTick(n) \/ WaitTick(n) \/ SelectorTick(n) \/ PlainTick(n)
  PROVE  InvA'
<1>0. nod \in [Nodes -> NodeFields]
  BY DEF InvA, TypeOK
<1>1. CASE ScriptTick(n)
  <2>1. nod' = nod /\ Ticking(n, {"Script"}) /\ \E r \in Results : StateCheck(n, r)
    BY <1>1 DEF ScriptTick
  <2>2. Kind(n) # "Wait" /\ ~nod[n].waiting
    BY <2>1, TickFields DEF Ticking
  <2> QED BY <2>1, <2>2, TickInv DEF But
<1>2. CASE ConditionTick(n)
  <2>1. PICK s \in BOOLEAN : nod' = [nod EXCEPT ![n].succ = s] /\ Ticking(n, {"Condition"}) /\ StateCheck(n, "Succ")
    BY <1>2 DEF ConditionTick
  <2>2. Kind(n) # "Wait" /\ ~nod[n].waiting
    BY <2>1, TickFields DEF Ticking
  <2>3. Only(nod', nod, n, {"succ"})
    BY <1>0, <2>1, SetSucc
  <2>4. But(nod'[n], nod[n], {"succ", "waiting"}) /\ nod'[n].waiting = nod[n].waiting
    BY <2>3 DEF Only, But
  <2> QED BY <2>1, <2>2, <2>3, <2>4, TickInv DEF Only
<1>3. CASE WaitTick(n)
  <2>1. nod' = [nod EXCEPT ![n].waiting = TRUE] /\ Ticking(n, {"Wait"}) /\ StateCheck(n, "Succ")
    BY <1>3 DEF WaitTick
  <2>2. Kind(n) = "Wait"
    BY <2>1 DEF Ticking
  <2>3. Only(nod', nod, n, {"waiting"}) /\ nod'[n].waiting
    BY <1>0, <2>1, SetWaiting
  <2>4. But(nod'[n], nod[n], {"succ", "waiting"})
    BY <2>3 DEF Only, But
  <2> QED BY <2>1, <2>2, <2>3, <2>4, TickInv DEF Only
<1>4. CASE SelectorTick(n)
  <2>1. Ticking(n, {"Selector"})
    BY <1>4 DEF SelectorTick
  <2>2. nod[n].step = 0 /\ ~nod[n].waiting /\ Kind(n) # "Wait"
    BY <2>1, TickFields DEF Reset, Ticking
  <2>3. nod' = nod /\ StateCheck(n, "Succ")
    BY <1>4, <2>2 DEF SelectorTick
  <2> QED BY <2>1, <2>2, <2>3, TickInv DEF But
<1>5. CASE PlainTick(n)
  <2>1. nod' = nod /\ Ticking(n, {"Root", "Sequence", "Loop", "Parallel"}) /\ StateCheck(n, "Succ")
    BY <1>5 DEF PlainTick
  <2>2. Kind(n) # "Wait" /\ ~nod[n].waiting
    BY <2>1, TickFields DEF Ticking
  <2> QED BY <2>1, <2>2, TickInv DEF But
<1> QED BY <1>1, <1>2, <1>3, <1>4, <1>5

\* Do has ended the bot: at the root, or because a script gave up.
LEMMA EndInv == ASSUME InvA, Flat(tree), TypeOK', DoEnd, phase' = "ended" PROVE InvA'
<1>1. /\ tree' = tree /\ nod' = nod /\ end' = end /\ at' = at /\ open' = open /\ phase = "next" /\ at = None
      /\ i > Len(nods) /\ outcome' \in {outcome, "done", "err"}
  BY DEF DoEnd, blackboard
<1>2. TypeOK /\ Slices /\ NothingLeftBehind /\ NoPanic /\ Placed /\ Progress /\ Waits /\ tree \in Trees /\ ActiveShape
  BY <1>1, Shape DEF InvA, Live, TypeOK
<1>3. Slices' /\ NothingLeftBehind' /\ NoPanic'
  BY <1>1, <1>2 DEF Slices, NothingLeftBehind, NoPanic
<1>4. ASSUME end PROVE Placed' /\ Progress' /\ Waits'
  <2>1. Len(Active) = 0
    BY <1>2, <1>4 DEF Placed, Alone, Forked
  <2>2. DOMAIN Active = {}
    BY <1>2, <2>1 DEF ActiveShape
  <2>3. \A n \in Nodes : ~nod[n].waiting
    BY <1>2, <2>2 DEF Waits
  <2>4. Active' = <<>>
    BY DEF Active
  <2> QED BY <1>1, <1>2, <1>4, <2>3, <2>4, NoneActive
<1> QED BY <1>1, <1>3, <1>4 DEF InvA, Live

\* Close leaves a tree that is reset.
LEMMA CloseInv == ASSUME InvA, Flat(tree), TypeOK', Close PROVE InvA'
<1>1. /\ tree' = tree /\ nod' = AfterReset(Nodes) /\ end' = end /\ at' = at /\ open' = open
      /\ phase = "ended" /\ phase' = "pooled" /\ outcome' = outcome
  BY DEF Close, blackboard
<1>2. TypeOK /\ Slices /\ NothingLeftBehind /\ NoPanic
  BY DEF InvA
<1>3. Slices' /\ NothingLeftBehind' /\ NoPanic'
  BY <1>1, <1>2 DEF Slices, NothingLeftBehind, NoPanic
<1>4. ASSUME NEW n \in Nodes PROVE Reset(n)' /\ ~nod'[n].waiting
  <2>1. nod'[n] = ResetNode(n)
    BY <1>1 DEF AfterReset
  <2>2. /\ ~ResetNode(n).freeze /\ ResetNode(n).step = 0 /\ ResetNode(n).curLoop = 0
        /\ ~ResetNode(n).waiting
        /\ Kind(n) = "Parallel" => ResetNode(n).threadNumber = 0
    BY DEF ResetNode, FreshNode
  <2> QED BY <1>1, <2>1, <2>2, SameTree DEF Reset
<1> QED BY <1>1, <1>3, <1>4, SameTree DEF InvA, Live

\* The next bot begins with it.
LEMMA NewBotInv == ASSUME InvA, Flat(tree), TypeOK', NewBot PROVE InvA'
<1>1. /\ tree' = tree /\ nod' = nod /\ ~end' /\ at' = at /\ open' = <<tree.root>>
      /\ phase = "pooled" /\ phase' = "idle" /\ outcome' = "running"
  BY DEF NewBot
<1>2. Slices /\ tree \in Trees /\ \A n \in Nodes : Reset(n) /\ ~nod[n].waiting
  BY <1>1 DEF InvA, TypeOK
<1>3. Slices' /\ NothingLeftBehind' /\ NoPanic'
  BY <1>1, <1>2 DEF Slices, NothingLeftBehind, NoPanic
<1>4. (Active = <<tree.root>>)' /\ Hand' = 0 /\ \A j \in DOMAIN Active' : ~Executed(j)'
  BY <1>1 DEF Active, Hand, Executed
<1>5. \A n \in Nodes : Reset(n)' /\ ~nod'[n].waiting
  BY <1>1, <1>2, EqualFacts
<1>6. Start'
  BY <1>1, <1>2, <1>4, <1>5, SameTree DEF Start
<1>7. Placed' /\ Progress' /\ Waits'
  BY <1>6, StartsNext
<1> QED BY <1>1, <1>3, <1>7 DEF InvA, Live

\* InvA is inductive.
LEMMA NextInvA == InvA /\ Flat(tree) /\ [Next]_vars => InvA'
<1> SUFFICES ASSUME InvA, Flat(tree), [Next]_vars PROVE InvA'
  OBVIOUS
<1>1. TypeOK'
  BY NextTypes DEF InvA
<1>2. CASE UNCHANGED vars
  <2>1. /\ tree' = tree /\ nod' = nod /\ end' = end /\ phase' = phase /\ nods' = nods /\ open' = open
        /\ i' = i /\ at' = at /\ ticked' = ticked /\ outcome' = outcome
    BY <1>2 DEF vars, blackboard, local, history
  <2>2. Hand' = Hand /\ \A j : (HandAt(j)' <=> HandAt(j)) /\ (Executed(j)' <=> Executed(j))
    BY <2>1 DEF Hand, HandAt, Executed
  <2>3. Active' = Active
    BY <2>1, <2>2 DEF Active
  <2>4. \A n : (Reset(n)' <=> Reset(n)) /\ \A k : Opened(n, k)' <=> Opened(n, k)
    BY <2>1, SameTree DEF Reset, Opened
  <2>5. \A j, l : Apart(j, l)' <=> Apart(j, l)
    BY <2>1, <2>3, SameTree DEF Apart
  <2>6. (Alone' <=> Alone) /\ \A p : Forked(p)' <=> Forked(p)
    BY <2>1, <2>2, <2>3, <2>5, SameTree DEF Alone, Forked
  <2>7. Placed' <=> Placed
    BY <2>1, <2>6, SameTree DEF Placed
  <2>8. Progress => Progress'
    <3> SUFFICES ASSUME Progress PROVE Progress'
      OBVIOUS
    <3>1. \A p \in Nodes : \A k \in DOMAIN Children(p) : ~Opened(p, k)' => Reset(Children(p)[k])'
      BY <2>1, <2>4, SameTree DEF Progress, Reset
    <3>2. \A j \in DOMAIN Active : ~HandAt(j)' => Reset(Active[j])'
      BY <2>1, <2>2, <2>3, SameTree DEF Progress, Reset
    <3> QED BY <2>1, <2>3, <2>4, <3>1, <3>2, SameTree DEF Progress
  <2>9. Waits => Waits'
    BY <2>1, <2>2, <2>3, <2>4, SameTree DEF Waits
  <2>10. Slices' /\ NothingLeftBehind' /\ NoPanic'
    BY <2>1, <2>2 DEF InvA, Slices, NothingLeftBehind, NoPanic
  <2> QED BY <1>1, <2>1, <2>4, <2>7, <2>8, <2>9, <2>10, SameTree DEF InvA, Live
<1>3. CASE OnTick
  BY <1>1, <1>3, OnTickInv DEF OnTick
<1>4. CASE DoEnd
  BY <1>1, <1>4, EndInv, QuietInv DEF DoEnd
<1> QED BY <1>1, <1>2, <1>3, <1>4, QuietInv, OnNextInv, CloseInv, NewBotInv DEF Next, Do

\* The tree of a bot is never replaced.
LEMMA TreeStays == [Next]_vars => tree' = tree
BY DEF Next, Do, DoBegin, TickEnd, RangeNext, DoEnd, Close, NewBot, vars,
       OnTick, ScriptTick, ConditionTick, WaitTick, SelectorTick, PlainTick, StateCheck,
       OnNext, RootNext, ScriptNext, ConditionNext, WaitOver, WaitAgain, LoopNext, LoopWhile,
       StepNext, ParallelFork, ForkWith, ParallelJoin, JoinWhen, NextUnchanged

\* InvA holds throughout the run of a bot with a flat tree.
LEMMA AlwaysInvA == Spec => [](Flat(tree) => InvA)
<1>1. Init => (Flat(tree) => InvA)
  BY InitInvA
<1>2. (Flat(tree) => InvA) /\ [Next]_vars => (Flat(tree) => InvA)'
  <2>1. [Next]_vars => (Flat(tree)' <=> Flat(tree))
    BY TreeStays
  <2> QED BY <2>1, NextInvA
<1> QED BY <1>1, <1>2, PTL DEF Spec

\* What onNext appends to the blackboard never replaces an element of the slice that Do has
\* yet to range over, although both may be one array.
THEOREM RangeCorrect == Spec => [](Flat(tree) => RangeIntact)
<1>1. InvA => RangeIntact
  <2> SUFFICES ASSUME InvA, phase = "next"
               PROVE  Len(ticked) = Len(nods) /\ \A k \in DOMAIN nods : k >= i => nods[k] = ticked[k]
    BY DEF RangeIntact
  <2>1. TypeOK /\ Slices
    BY DEF InvA
  <2>2. DOMAIN nods = 1 .. Len(nods) /\ i \in Nat /\ Len(nods) \in Nat
    BY <2>1, SliceTypes
  <2>3. Len(ticked) = Len(nods) /\ \A k \in i .. Len(nods) : ticked[k] = nods[k]
    BY <2>1 DEF Slices
  <2> QED BY <2>2, <2>3
<1>2. (Flat(tree) => InvA) => (Flat(tree) => RangeIntact)
  BY <1>1
<1> QED BY <1>2, AlwaysInvA, PTL

\* The root ends the bot only when no branch of a parallel node is open or about to be
\* handled.
THEOREM NothingLeftCorrect == Spec => [](Flat(tree) => NothingLeftBehind)
<1>1. (Flat(tree) => InvA) => (Flat(tree) => NothingLeftBehind)
  BY DEF InvA
<1> QED BY <1>1, AlwaysInvA, PTL

\* No tick runs into the type assertion of a selector: a selector that is ticked has no
\* step to look back to, whatever its children are.
THEOREM NoPanicCorrect == Spec => [](Flat(tree) => NoPanic)
<1>1. (Flat(tree) => InvA) => (Flat(tree) => NoPanic)
  BY DEF InvA
<1> QED BY <1>1, AlwaysInvA, PTL

=============================================================================
