---------------------------- MODULE VisitProofs -----------------------------
(***************************************************************************)
(* More about BehaviorTree with flat trees, on top of InvA: how often each *)
(* node is executed, and in which thread of the blackboard.                *)
(*                                                                         *)
(* VisitsExact speaks of the end of a run only.  Count is what holds       *)
(* before: of every node, the executions it has had, the one that is to    *)
(* come and those its parent still owes add up to what the parent has      *)
(* asked for.  Nothing is owed by what is through (Settled), so nothing is *)
(* owed at the end, also when the tree comes from the pool.                *)
(*                                                                         *)
(* ThreadsDistinct needs that the numbers a fork has given its children    *)
(* stay: no reset takes them back, and no other node below the fork has    *)
(* one (Numbers).                                                          *)
(***************************************************************************)
EXTENDS BehaviorTreeProofs

-----------------------------------------------------------------------------
(* What is executed, what is to come, what is owed. *)

\* Something in the subtree of n is active.
Busy(n) == \E j \in DOMAIN Active : Active[j] \in Subtree(n)

\* A loop or sequence that is through, or has not begun.
Done(n) ==
  /\ Kind(n) = "Loop" => nod[n].curLoop \in {0, Limit(n)}
  /\ Kind(n) \in {"Sequence", "Selector"} => nod[n].step \in {0, Len(Children(n))}

\* What is not on the way to something active is done; a loop without children never counts.
Settled ==
  /\ \A n \in Nodes : Children(n) = <<>> => nod[n].curLoop = 0
  /\ Len(Active) # 0 \/ end => \A n \in Nodes : ~Busy(n) => Done(n)

\* n is open and has not been ticked since, or is, with its onNext yet to come; a wait that
\* has opened itself again has been executed before.
Awaits(n)  == \E j \in DOMAIN Active : Active[j] = n /\ ~Executed(j)
\* n is open and its execution is yet to come.
Pending(n) == Awaits(n) /\ ~nod[n].waiting
\* n has been ticked and its onNext is yet to come, or running.
InRound(n) == \E j \in DOMAIN Active : Active[j] = n /\ Executed(j)
\* One for what is true.
Bit(b) == IF b THEN 1 ELSE 0

\* How often p will yet open its k-th child because of the executions it has had.
Owed(p, k) ==
  CASE Kind(p) \in {"Sequence", "Selector"} ->
         Bit((InRound(p) \/ nod[p].step > 0) /\ nod[p].step < k)
    [] Kind(p) = "Parallel" -> Bit(InRound(p) /\ ~nod[p].freeze)
    [] Kind(p) = "Loop" ->
         IF k = 1 /\ Limit(p) > 0 /\ (InRound(p) \/ nod[p].curLoop > 0)
         THEN Limit(p) - nod[p].curLoop ELSE 0
    [] Kind(p) = "Wait" -> Bit(k = 1 /\ nod[p].waiting)
    [] Kind(p) = "Condition" -> Bit(k = 1 /\ InRound(p) /\ ~nod[p].freeze /\ nod[p].succ)
    [] OTHER -> Bit(k = 1 /\ InRound(p) /\ ~nod[p].freeze)

\* Executions had, to come now, and owed by the parent, are what the parent has asked for.
Count ==
  /\ visits[tree.root] + Bit(Pending(tree.root)) = 1
  /\ \A p \in Nodes : \A k \in DOMAIN Children(p) :
       visits[Children(p)[k]] + Bit(Pending(Children(p)[k])) + Owed(p, k) = Asked(p, k)

\* The inductive invariant about executions, beside InvA.
InvB == Live => Settled /\ Count

\* No node is active twice.
LEMMA Unique ==
  ASSUME tree \in Trees, Flat(tree), ActiveShape, Placed
  PROVE  \A j, l \in DOMAIN Active : Active[j] = Active[l] => j = l
<1> SUFFICES ASSUME NEW j \in DOMAIN Active, NEW l \in DOMAIN Active, Active[j] = Active[l]
             PROVE  j = l
  OBVIOUS
<1>1. CASE Alone
  BY <1>1 DEF Alone, ActiveShape
<1>2. CASE \E p \in Nodes : Forked(p)
  <2> PICK p \in Nodes : Forked(p)
    BY <1>2
  <2>1. CASE Active[j] = p
    <3>1. HandAt(j) /\ HandAt(l)
      BY <2>1, ForkedHand DEF Forked, Parallels
    <3> QED BY <3>1 DEF HandAt
  <2>2. CASE Active[j] # p
    <3>1. Active[j] \in Below(p) /\ p \in Parallels
      BY <2>2, ForkedHand DEF Forked
    <3>2. PICK c \in ChildSet(p) : Active[j] \in Subtree(c)
      BY <3>1, InBranch
    <3> QED BY <3>1, <3>2 DEF Forked, Apart
  <2> QED BY <2>1, <2>2
<1> QED BY <1>1, <1>2 DEF Placed

\* What a node owes depends on its own fields, and on where the ranges are.
LEMMA OwedSame ==
  ASSUME tree' = tree, NEW p, nod'[p] = nod[p], InRound(p)' <=> InRound(p)
  PROVE  \A k : Owed(p, k)' = Owed(p, k)
BY SameTree DEF Owed, Bit

\* A bit is a number.
LEMMA BitInt == \A b \in BOOLEAN : Bit(b) \in Int
BY DEF Bit

\* What is owed is a number ...
LEMMA OwedInt == TypeOK => \A p \in Nodes : \A k : Owed(p, k) \in Int
<1> SUFFICES ASSUME TypeOK, NEW p \in Nodes, NEW k PROVE Owed(p, k) \in Int
  OBVIOUS
<1>0. nod \in [Nodes -> NodeFields] /\ tree \in Trees
  BY DEF TypeOK
<1>1. nod[p].curLoop \in Int /\ Limit(p) \in Int
  BY <1>0, FieldTypes, TreeFacts
<1> QED BY <1>1 DEF Owed, Bit

\* ... also after a step.
LEMMA OwedIntNext == TypeOK' => (\A p \in Nodes : \A k : Owed(p, k) \in Int)'
BY OwedInt, PTL

\* A node that is not in hand, does not wait and is done owes nothing.
LEMMA OwedNone ==
  TypeOK => \A p \in Nodes : ~InRound(p) /\ ~nod[p].waiting /\ Done(p) =>
              \A k \in DOMAIN Children(p) : Owed(p, k) = 0
<1> SUFFICES ASSUME TypeOK, NEW p \in Nodes, ~InRound(p), ~nod[p].waiting, Done(p),
                    NEW k \in DOMAIN Children(p)
             PROVE  Owed(p, k) = 0
  OBVIOUS
<1>1. nod[p].curLoop \in Nat /\ nod[p].step \in Nat /\ Limit(p) \in Int /\ k \in Int /\ k <= Len(Children(p))
      /\ Len(Children(p)) \in Nat
  <2>1. Children(p) \in Seq(Nodes) /\ Limit(p) \in Int
    BY TreeFacts DEF TypeOK
  <2>2. nod[p].curLoop \in Nat /\ nod[p].step \in Nat
    BY FieldTypes DEF TypeOK
  <2> QED BY <2>1, <2>2
<1>2. CASE Kind(p) \in {"Sequence", "Selector"}
  BY <1>1, <1>2 DEF Owed, Bit, Done
<1>3. CASE Kind(p) = "Loop"
  BY <1>1, <1>3 DEF Owed, Bit, Done
<1>4. CASE Kind(p) \notin {"Sequence", "Selector", "Loop"}
  BY <1>4 DEF Owed, Bit
<1> QED BY <1>2, <1>3, <1>4

\* The same after a step.
LEMMA OwedNoneNext ==
  TypeOK' => (\A p \in Nodes : ~InRound(p) /\ ~nod[p].waiting /\ Done(p) =>
                \A k \in DOMAIN Children(p) : Owed(p, k) = 0)'
BY OwedNone, PTL

\* A step that executes nothing keeps the sums.
LEMMA SumsKeep ==
  ASSUME TypeOK, TypeOK', tree' = tree, visits' = visits, passed' = passed, Count,
         Bit(Pending(tree.root))' = Bit(Pending(tree.root)),
         \A p \in Nodes : \A k \in DOMAIN Children(p) :
           Bit(Pending(Children(p)[k]))' + Owed(p, k)' = Bit(Pending(Children(p)[k])) + Owed(p, k)
  PROVE  Count'
<1>1. ASSUME NEW p \in Nodes, NEW k \in DOMAIN Children(p)
      PROVE  (visits[Children(p)[k]] + Bit(Pending(Children(p)[k])) + Owed(p, k) = Asked(p, k))'
  <2> PICK d \in Nodes : d = Children(p)[k]
    BY TreeFacts DEF TypeOK
  <2>1. visits[d] + Bit(Pending(d)) + Owed(p, k) = Asked(p, k)
    BY DEF Count
  <2>2. Bit(Pending(d))' + Owed(p, k)' = Bit(Pending(d)) + Owed(p, k)
    BY SameTree
  <2>3. visits[d] \in Int /\ Owed(p, k) \in Int /\ Bit(Pending(d)) \in Int /\ Bit(Pending(d))' \in Int
    <3>1. visits \in [Nodes -> Nat]
      BY DEF TypeOK
    <3> QED BY <3>1, OwedInt DEF Bit
  <2>4. Owed(p, k)' \in Int
    BY OwedIntNext, SameTree
  <2>5. Asked(p, k)' = Asked(p, k)
    BY SameTree DEF Asked
  <2>6. (visits[d] + Bit(Pending(d)) + Owed(p, k))' = Asked(p, k)
    BY <2>1, <2>2, <2>3, <2>4
  <2> QED BY <2>5, <2>6, SameTree
<1>2. (visits[tree.root] + Bit(Pending(tree.root)) = 1)'
  BY DEF Count
<1> QED BY <1>1, <1>2, SameTree DEF Count

\* What is executed and what is awaited, after the node in hand is replaced.
LEMMA ReplacedMarks ==
  ASSUME ActiveShape, ActiveShape', NEW h \in DOMAIN Active, NEW a, NEW x, Active[h] = a, Replaced(h, x),
         Executed(h), \A j \in DOMAIN Active : j # h => Active[j] # a /\ Active[j] # x
  PROVE  /\ \A n : n # a /\ n # x => (InRound(n)' <=> InRound(n)) /\ (Awaits(n)' <=> Awaits(n))
         /\ InRound(a) /\ ~Awaits(a)
         /\ a # x => ~InRound(x) /\ ~Awaits(x) /\ ~InRound(a)' /\ ~Awaits(a)'
         /\ Executed(h)' => InRound(x)' /\ ~Awaits(x)'
         /\ ~Executed(h)' => ~InRound(x)' /\ Awaits(x)'
         /\ \A n : (\E j \in DOMAIN Active : Active[j] = n) <=> InRound(n) \/ Awaits(n)
BY DEF ActiveShape, Replaced, InRound, Awaits

\* A node that is not active is neither ticked nor to be ticked.
LEMMA NotActive ==
  ASSUME NEW n, \A j \in DOMAIN Active : Active[j] # n
  PROVE  ~InRound(n) /\ ~Awaits(n) /\ ~Pending(n)
BY DEF InRound, Awaits, Pending

\* A node opens a child: it owes one less, and one more execution is to come.
LEMMA PutCount ==
  ASSUME TypeOK, TypeOK', tree \in Trees, tree' = tree, visits' = visits, passed' = passed,
         ActiveShape, ActiveShape', Waits, Waits', Count, Settled,
         NEW h \in DOMAIN Active, NEW a \in Nodes, NEW k \in DOMAIN Children(a), NEW c \in Nodes,
         c = Children(a)[k], Active[h] = a, Replaced(h, c), Executed(h), ~Executed(h)',
         Opens(a, k), Reset(c)',
         \A j \in DOMAIN Active : j # h => Active[j] \notin Subtree(a),
         Owed(a, k) = Owed(a, k)' + 1,
         \A l \in DOMAIN Children(a) \ {k} : Owed(a, l)' = Owed(a, l)
  PROVE  Count'
<1>0. /\ DOMAIN Active' = DOMAIN Active /\ Active'[h] = c /\ \A j \in DOMAIN Active : Active[j] \in Nodes
      /\ \A j \in DOMAIN Active : j # h => Active'[j] = Active[j]
  BY DEF ActiveShape, Replaced
<1>1. c \in ChildSet(a) /\ c # a /\ c \in Below(a) /\ a \in Subtree(a) /\ Parent(c) = a /\ Subtree(a) \subseteq Nodes
  BY ChildFacts, SubtreeFacts DEF ChildSet
<1>2. /\ \A n : n # a /\ n # c => (InRound(n)' <=> InRound(n)) /\ (Awaits(n)' <=> Awaits(n))
      /\ InRound(a) /\ ~Awaits(a) /\ ~InRound(c) /\ ~Awaits(c) /\ ~InRound(a)' /\ ~Awaits(a)'
      /\ ~InRound(c)' /\ Awaits(c)'
  <2>1. \A j \in DOMAIN Active : j # h => Active[j] # a /\ Active[j] # c
    BY <1>1 DEF Below
  <2> QED BY <2>1, <1>1, ReplacedMarks
<1>3. \A n \in Below(a) : ~InRound(n) /\ ~Awaits(n) /\ ~nod[n].waiting /\ ~InRound(n)'
  <2> TAKE n \in Below(a)
  <2>1. \A j \in DOMAIN Active : Active[j] # n
    BY DEF Below
  <2>2. n \in Nodes
    BY <1>1 DEF Below
  <2>3. ~InRound(n) /\ ~Awaits(n) /\ ~nod[n].waiting
    BY <2>1, <2>2, NotActive DEF Waits
  <2> QED BY <2>3, <1>1, <1>2 DEF Below
<1>4. Pending(c)' /\ ~Pending(c) /\ ~Pending(a) /\ ~Pending(a)'
  <2>1. ~nod'[c].waiting
    BY <1>1, <1>3 DEF Opens
  <2> QED BY <2>1, <1>2 DEF Pending
<1>5. ASSUME NEW n \in Nodes \ {c} PROVE Bit(Pending(n))' = Bit(Pending(n))
  <2>1. CASE n = a
    BY <2>1, <1>4 DEF Bit
  <2>2. CASE n \in Below(a)
    BY <2>2, <1>2, <1>3, <1>5 DEF Bit, Pending, Below
  <2>3. CASE n \notin Subtree(a)
    <3>1. nod'[n] = nod[n] /\ n # a
      BY <2>3, <1>1 DEF Opens
    <3> QED BY <3>1, <1>2, <1>5 DEF Bit, Pending
  <2> QED BY <2>1, <2>2, <2>3 DEF Below
<1>6. ASSUME NEW p \in Nodes \ {a}, NEW l \in DOMAIN Children(p) PROVE Owed(p, l)' = Owed(p, l)
  <2>1. CASE nod'[p] = nod[p]
    <3>1. InRound(p)' <=> InRound(p)
      BY <1>2, <1>6
    <3> QED BY <2>1, <3>1, OwedSame
  <2>2. CASE p \in Below(a) /\ Reset(p)' /\ ~nod'[p].waiting
    <3>1. ~Busy(p)
      <4>1. Subtree(p) \subseteq Subtree(a) /\ a \notin Subtree(p)
        BY <2>2, SubtreeFacts, Antisymmetry DEF Below
      <4> QED BY <4>1 DEF Busy
    <3>2. Done(p)
      <4>1. Len(Active) # 0
        BY DEF ActiveShape
      <4> QED BY <3>1, <4>1 DEF Settled
    <3>3. Owed(p, l) = 0
      BY <2>2, <3>2, <1>3, OwedNone
    <3>4. Done(p)' /\ ~InRound(p)' /\ ~nod'[p].waiting
      BY <2>2, <1>3, SameTree DEF Reset, Done
    <3>5. Owed(p, l)' = 0
      BY <3>4, OwedNoneNext, SameTree
    <3> QED BY <3>3, <3>5
  <2> QED BY <2>1, <2>2, <1>1, <1>6 DEF Opens, Below
<1>7. ASSUME NEW p \in Nodes, NEW l \in DOMAIN Children(p)
      PROVE  Bit(Pending(Children(p)[l]))' + Owed(p, l)' = Bit(Pending(Children(p)[l])) + Owed(p, l)
  <2> PICK d \in Nodes : d = Children(p)[l]
    BY TreeFacts
  <2>1. Bit(Pending(d))' + Owed(p, l)' = Bit(Pending(d)) + Owed(p, l)
    <3>1. CASE p = a /\ l = k
      <4>1. Bit(Pending(d))' = 1 /\ Bit(Pending(d)) = 0
        BY <3>1, <1>4 DEF Bit
      <4>2. Owed(a, k)' \in Int /\ Owed(a, k) \in Int
        BY OwedInt, OwedIntNext, SameTree
      <4> QED BY <3>1, <4>1, <4>2
    <3>2. CASE ~(p = a /\ l = k)
      <4>1. d # c
        BY <3>2, TreeFacts
      <4>2. Owed(p, l)' = Owed(p, l)
        BY <3>2, <1>6
      <4> QED BY <4>1, <4>2, <1>5
    <3> QED BY <3>1, <3>2
  <2> QED BY <2>1, SameTree
<1>8. Bit(Pending(tree.root))' = Bit(Pending(tree.root))
  <2>1. tree.root \in Nodes \ {c}
    BY <1>1, TreeFacts, ChildFacts
  <2> QED BY <2>1, <1>5
<1> QED BY <1>7, <1>8, SumsKeep

\* What is not on the way to the child was done before, or has been reset.
LEMMA PutSettled ==
  ASSUME tree \in Trees, tree' = tree, ActiveShape, ActiveShape', Settled,
         NEW h \in DOMAIN Active, NEW a \in Nodes, NEW k \in DOMAIN Children(a), NEW c \in Nodes,
         c = Children(a)[k], Active[h] = a, Replaced(h, c), Opens(a, k)
  PROVE  Settled'
<1>0. /\ DOMAIN Active' = DOMAIN Active /\ Active'[h] = c
      /\ \A j \in DOMAIN Active : j # h => Active'[j] = Active[j]
      /\ Len(Active) # 0
  BY DEF ActiveShape, Replaced
<1>1. c \in ChildSet(a)
  BY DEF ChildSet
<1>2. ASSUME NEW n \in Nodes, Busy(n) PROVE Busy(n)'
  BY <1>0, <1>1, <1>2, OpenStays, SameTree DEF Busy
<1>3. ASSUME NEW n \in Nodes, ~Busy(n)' PROVE Done(n)'
  <2>1. ~Busy(n) /\ n # a
    <3>1. a \in Subtree(a)
      BY SubtreeFacts
    <3> QED BY <3>1, <1>2, <1>3 DEF Busy
  <2>2. Done(n)
    BY <2>1, <1>0 DEF Settled
  <2>3. nod'[n] = nod[n] \/ Reset(n)'
    BY <2>1 DEF Opens, Below
  <2> QED BY <2>2, <2>3, SameTree DEF Done, Reset
<1>4. ASSUME NEW n \in Nodes, Children(n) = <<>> PROVE nod'[n].curLoop = 0
  <2>1. n # a
    BY <1>4
  <2>2. nod'[n] = nod[n] \/ Reset(n)'
    BY <2>1 DEF Opens, Below
  <2> QED BY <2>2, <1>4 DEF Settled, Reset
<1> QED BY <1>3, <1>4, SameTree DEF Settled

\* When nothing is opened or executed and nothing more or less is owed, Count stays.
LEMMA CountSame ==
  ASSUME TypeOK, TypeOK', tree \in Trees, tree' = tree, visits' = visits, passed' = passed, Count,
         \A n \in Nodes : Pending(n)' <=> Pending(n),
         \A p \in Nodes : \A l \in DOMAIN Children(p) : Owed(p, l)' = Owed(p, l)
  PROVE  Count'
<1>1. \A n \in Nodes : Bit(Pending(n))' = Bit(Pending(n))
  BY DEF Bit
<1>2. ASSUME NEW p \in Nodes, NEW l \in DOMAIN Children(p)
      PROVE  Bit(Pending(Children(p)[l]))' + Owed(p, l)' = Bit(Pending(Children(p)[l])) + Owed(p, l)
  <2> PICK d \in Nodes : d = Children(p)[l]
    BY TreeFacts
  <2> QED BY <1>1, SameTree
<1>3. Bit(Pending(tree.root))' = Bit(Pending(tree.root))
  BY <1>1, TreeFacts
<1> QED BY <1>2, <1>3, SumsKeep

\* A node that is through hands over to its parent, which owes as before.
LEMMA CallCount ==
  ASSUME TypeOK, TypeOK', tree \in Trees, tree' = tree, visits' = visits, passed' = passed,
         ActiveShape, ActiveShape', Progress, Count,
         NEW h \in DOMAIN Active, NEW a \in Nodes \ {tree.root}, NEW x \in Nodes, x = Parent(a),
         Active[h] = a, Replaced(h, x), Executed(h), Executed(h)', Returns(a),
         \A j \in DOMAIN Active : j # h => Active[j] # a /\ Active[j] # x,
         Done(a), \A k \in DOMAIN Children(a) : Owed(a, k) = 0
  PROVE  Count'
<1>1. x # a
  BY HasChild, ChildFacts
<1>2. /\ \A n : n # a /\ n # x => (InRound(n)' <=> InRound(n)) /\ (Awaits(n)' <=> Awaits(n))
      /\ InRound(a) /\ ~Awaits(a) /\ ~InRound(x) /\ ~Awaits(x) /\ ~InRound(a)' /\ ~Awaits(a)'
      /\ InRound(x)' /\ ~Awaits(x)'
  BY <1>1, ReplacedMarks
<1>3. \A n \in Nodes : Pending(n)' <=> Pending(n)
  BY <1>2 DEF Pending, Returns
<1>4. ASSUME NEW l \in DOMAIN Children(a) PROVE Owed(a, l)' = Owed(a, l)
  <2>1. Done(a)' /\ ~nod'[a].waiting
    BY SameTree DEF Done, Returns
  <2>2. Owed(a, l)' = 0
    BY <1>2, <2>1, OwedNoneNext, SameTree
  <2> QED BY <2>2
<1>5. ASSUME NEW l \in DOMAIN Children(x) PROVE Owed(x, l)' = Owed(x, l)
  <2>1. PICK m \in DOMAIN Children(x) : Children(x)[m] = a
    BY HasChild
  <2>2. Opened(x, m) /\ nod'[x] = nod[x]
    BY <1>1, <2>1 DEF Progress, Returns
  <2>3. m \in Nat \ {0} /\ nod[x].step \in Nat
    <3>1. Children(x) \in Seq(Nodes) /\ nod \in [Nodes -> NodeFields]
      BY TreeFacts DEF TypeOK
    <3> QED BY <3>1, FieldTypes
  <2>4. Kind(x) \in {"Sequence", "Selector"} => nod[x].step > 0
    BY <2>2, <2>3 DEF Opened
  <2>5. Kind(x) = "Loop" => nod[x].curLoop > 0
    BY <2>2 DEF Opened
  <2>6. Kind(x) \notin {"Sequence", "Selector", "Loop"} => nod[x].freeze
    BY <2>2 DEF Opened
  <2> QED BY <2>2, <2>4, <2>5, <2>6, SameTree DEF Owed, Bit
<1>6. ASSUME NEW p \in Nodes \ {a, x}, NEW l \in DOMAIN Children(p) PROVE Owed(p, l)' = Owed(p, l)
  BY <1>2, OwedSame DEF Returns
<1> QED BY <1>3, <1>4, <1>5, <1>6, CountSame

\* The node that is through is done.
LEMMA CallSettled ==
  ASSUME tree \in Trees, tree' = tree, ActiveShape, ActiveShape', Settled,
         NEW h \in DOMAIN Active, NEW a \in Nodes \ {tree.root}, NEW x \in Nodes, x = Parent(a),
         Active[h] = a, Replaced(h, x), Returns(a), Done(a)
  PROVE  Settled'
<1>0. /\ DOMAIN Active' = DOMAIN Active /\ Active'[h] = x
      /\ \A j \in DOMAIN Active : j # h => Active'[j] = Active[j]
      /\ Len(Active) # 0
  BY DEF ActiveShape, Replaced
<1>1. \A n : (nod'[n].step = nod[n].step /\ nod'[n].curLoop = nod[n].curLoop) \/ n \notin Nodes
  BY DEF Returns
<1>2. ASSUME NEW n \in Nodes \ {a}, Busy(n) PROVE Busy(n)'
  BY <1>0, <1>2, ParentInside, SameTree DEF Busy
<1>3. ASSUME NEW n \in Nodes, ~Busy(n)' PROVE Done(n)'
  <2>1. Done(n)
    BY <1>0, <1>2, <1>3 DEF Settled
  <2> QED BY <2>1, <1>1, SameTree DEF Done
<1> QED BY <1>1, <1>3, SameTree DEF Settled

\* A wait that opens itself again is not executed again.
LEMMA AgainCount ==
  ASSUME TypeOK, TypeOK', tree \in Trees, tree' = tree, visits' = visits, passed' = passed,
         ActiveShape, ActiveShape', Count, Settled,
         NEW h \in DOMAIN Active, NEW a \in Nodes, Active[h] = a, Kind(a) = "Wait", nod[a].waiting,
         Replaced(h, a), nod' = nod, Executed(h), ~Executed(h)',
         \A j \in DOMAIN Active : j # h => Active[j] # a
  PROVE  Count' /\ Settled'
<1>0. /\ DOMAIN Active' = DOMAIN Active /\ Len(Active') = Len(Active)
      /\ \A j \in DOMAIN Active : Active'[j] = Active[j]
  BY DEF ActiveShape, Replaced
<1>1. \A n : n # a => (InRound(n)' <=> InRound(n)) /\ (Awaits(n)' <=> Awaits(n))
  BY ReplacedMarks
<1>2. \A n \in Nodes : Pending(n)' <=> Pending(n)
  BY <1>1 DEF Pending
<1>3. ASSUME NEW p \in Nodes, NEW l \in DOMAIN Children(p) PROVE Owed(p, l)' = Owed(p, l)
  <2>1. CASE p = a
    BY <2>1, SameTree DEF Owed
  <2>2. CASE p # a
    BY <2>2, <1>1, OwedSame
  <2> QED BY <2>1, <2>2
<1>4. Settled'
  <2>1. \A n \in Nodes : (Busy(n)' <=> Busy(n)) /\ (Done(n)' <=> Done(n))
    BY <1>0, SameTree DEF Busy, Done
  <2>2. Len(Active) # 0
    BY DEF ActiveShape
  <2> QED BY <2>1, <2>2, SameTree DEF Settled
<1> QED BY <1>2, <1>3, <1>4, CountSame

\* A fork pays all it owes at once.
LEMMA ForkCount ==
  ASSUME TypeOK, TypeOK', tree \in Trees, tree' = tree, visits' = visits, passed' = passed,
         ActiveShape, ActiveShape', Count, Settled, Waits, ~end',
         NEW a \in Nodes, Kind(a) = "Parallel", ~nod[a].freeze, Len(Active) = 1, Active[1] = a, Executed(1),
         Active' = Children(a), \A j \in DOMAIN Children(a) : ~Executed(j)', Forks(a)
  PROVE  Count' /\ Settled'
<1>0. DOMAIN Active = {1} /\ DOMAIN Active' = DOMAIN Children(a) /\ Children(a) \in Seq(Nodes)
  BY TreeFacts DEF ActiveShape
<1>1. \A n : (InRound(n) <=> n = a) /\ ~Awaits(n) /\ ~Pending(n)
  BY <1>0 DEF InRound, Awaits, Pending
<1>2. \A n : ~InRound(n)' /\ (Awaits(n)' <=> n \in ChildSet(a))
  BY <1>0 DEF InRound, Awaits, ChildSet
<1>3. \A n \in Nodes : ~nod[n].waiting /\ ~nod'[n].waiting
  <2> TAKE n \in Nodes
  <2>1. nod[n].waiting => n = a /\ Kind(n) = "Wait"
    BY <1>0 DEF Waits
  <2> QED BY <2>1 DEF Forks
<1>4. \A n \in Nodes : Pending(n)' <=> n \in ChildSet(a)
  BY <1>2, <1>3 DEF Pending
<1>5. ASSUME NEW p \in Nodes \ {a}, NEW l \in DOMAIN Children(p) PROVE Owed(p, l)' = Owed(p, l)
  <2>1. ~InRound(p) /\ ~InRound(p)'
    BY <1>1, <1>2
  <2>2. /\ nod'[p].freeze = nod[p].freeze /\ nod'[p].step = nod[p].step
        /\ nod'[p].curLoop = nod[p].curLoop /\ nod'[p].waiting = nod[p].waiting
    BY DEF Forks
  <2> QED BY <2>1, <2>2, SameTree DEF Owed, Bit
<1>6. ASSUME NEW p \in Nodes, NEW l \in DOMAIN Children(p)
      PROVE  Bit(Pending(Children(p)[l]))' + Owed(p, l)' = Bit(Pending(Children(p)[l])) + Owed(p, l)
  <2> PICK d \in Nodes : d = Children(p)[l]
    BY TreeFacts
  <2>1. ~Pending(d) /\ (Pending(d)' <=> p = a)
    <3>1. d \in ChildSet(a) <=> p = a
      BY TreeFacts DEF ChildSet
    <3> QED BY <3>1, <1>1, <1>4
  <2>2. CASE p = a
    <3>1. Owed(a, l) = 1 /\ Owed(a, l)' = 0
      BY <1>1, SameTree DEF Owed, Bit, Forks
    <3> QED BY <2>1, <2>2, <3>1, SameTree DEF Bit
  <2>3. CASE p # a
    BY <2>1, <2>3, <1>5, SameTree DEF Bit
  <2> QED BY <2>2, <2>3
<1>7. Bit(Pending(tree.root))' = Bit(Pending(tree.root))
  <2>1. tree.root \in Nodes /\ tree.root \notin ChildSet(a)
    BY TreeFacts, ChildFacts
  <2> QED BY <2>1, <1>1, <1>4 DEF Bit
<1>8. Settled'
  <2>1. ASSUME NEW n \in Nodes, Len(Active') # 0, ~Busy(n)' PROVE Done(n)'
    <3>1. a \notin Subtree(n)
      <4>1. 1 \in DOMAIN Active' /\ Children(a)[1] \in ChildSet(a)
        BY <2>1, <1>0 DEF ChildSet
      <4> QED BY <2>1, <4>1, OpenStays, SameTree DEF Busy
    <3>2. ~Busy(n)
      BY <3>1, <1>0 DEF Busy
    <3>3. Done(n) /\ n # a
      BY <3>1, <3>2, SubtreeFacts DEF Settled
    <3> QED BY <3>3, SameTree DEF Done, Forks
  <2>2. ASSUME NEW n \in Nodes, Children(n) = <<>> PROVE nod'[n].curLoop = 0
    BY <2>2 DEF Settled, Forks
  <2> QED BY <2>1, <2>2, SameTree DEF Settled
<1> QED BY <1>6, <1>7, <1>8, SumsKeep

-----------------------------------------------------------------------------
(* Joins, the end, and steps that execute nothing. *)

\* What is executed and what is awaited, after the node in hand is dropped.
LEMMA DroppedMarks ==
  ASSUME ActiveShape, ActiveShape', NEW h \in DOMAIN Active, NEW a, Active[h] = a, Executed(h),
         \A j \in DOMAIN Active : j # h => Active[j] # a,
         Len(Active') = Len(Active) - 1,
         \A j \in DOMAIN Active' :
            /\ Skip(h, j) \in DOMAIN Active /\ Skip(h, j) # h
            /\ Active'[j] = Active[Skip(h, j)] /\ (Executed(j)' <=> Executed(Skip(h, j)))
  PROVE  /\ \A n : n # a => (InRound(n)' <=> InRound(n)) /\ (Awaits(n)' <=> Awaits(n))
         /\ InRound(a) /\ ~Awaits(a) /\ ~InRound(a)' /\ ~Awaits(a)'
         /\ \A n \in Nodes : a \notin Subtree(n) /\ Busy(n) =>
              \E j \in DOMAIN Active' : Active'[j] \in Subtree(n)
<1>1. ASSUME NEW j \in DOMAIN Active \ {h} PROVE \E m \in DOMAIN Active' : Skip(h, m) = j
  <2>1. /\ Len(Active) \in Nat /\ DOMAIN Active = 1 .. Len(Active) /\ DOMAIN Active' = 1 .. (Len(Active) - 1)
        /\ j \in 1 .. Len(Active) /\ h \in 1 .. Len(Active) /\ j # h
    BY DEF ActiveShape
  <2>2. CASE j < h
    <3>1. j \in DOMAIN Active' /\ Skip(h, j) = j
      BY <2>1, <2>2 DEF Skip
    <3> QED BY <3>1
  <2>3. CASE j > h
    <3>1. j - 1 \in DOMAIN Active' /\ Skip(h, j - 1) = j
      BY <2>1, <2>3 DEF Skip
    <3> QED BY <3>1
  <2> QED BY <2>1, <2>2, <2>3
<1>2. ASSUME NEW n, n # a PROVE (InRound(n)' <=> InRound(n)) /\ (Awaits(n)' <=> Awaits(n))
  <2>1. InRound(n) => InRound(n)'
    <3> SUFFICES ASSUME InRound(n) PROVE InRound(n)'
      OBVIOUS
    <3>1. PICK j \in DOMAIN Active \ {h} : Active[j] = n /\ Executed(j)
      BY <1>2 DEF InRound
    <3>2. PICK m \in DOMAIN Active' : Skip(h, m) = j
      BY <1>1
    <3> QED BY <3>1, <3>2 DEF InRound
  <2>2. Awaits(n) => Awaits(n)'
    <3> SUFFICES ASSUME Awaits(n) PROVE Awaits(n)'
      OBVIOUS
    <3>1. PICK j \in DOMAIN Active \ {h} : Active[j] = n /\ ~Executed(j)
      BY <1>2 DEF Awaits
    <3>2. PICK m \in DOMAIN Active' : Skip(h, m) = j
      BY <1>1
    <3> QED BY <3>1, <3>2 DEF Awaits
  <2>3. InRound(n)' => InRound(n)
    BY DEF InRound
  <2>4. Awaits(n)' => Awaits(n)
    BY DEF Awaits
  <2> QED BY <2>1, <2>2, <2>3, <2>4
<1>3. InRound(a) /\ ~Awaits(a)
  BY DEF InRound, Awaits
<1>4. ~InRound(a)' /\ ~Awaits(a)'
  BY DEF InRound, Awaits
<1>5. ASSUME NEW n \in Nodes, a \notin Subtree(n), Busy(n)
      PROVE  \E j \in DOMAIN Active' : Active'[j] \in Subtree(n)
  <2>1. PICK j \in DOMAIN Active \ {h} : Active[j] \in Subtree(n)
    BY <1>5 DEF Busy
  <2>2. PICK m \in DOMAIN Active' : Skip(h, m) = j
    BY <1>1
  <2> QED BY <2>1, <2>2
<1> QED BY <1>2, <1>3, <1>4, <1>5

\* A branch that joins, and is not the last one, owes nothing.
LEMMA StayCount ==
  ASSUME TypeOK, TypeOK', tree \in Trees, tree' = tree, Flat(tree), visits' = visits, passed' = passed,
         ActiveShape, ActiveShape', Placed, Count, Settled, ~end, ~end',
         NEW h \in DOMAIN Active, NEW a \in Nodes, Active[h] = a, Executed(h),
         Kind(a) = "Parallel", nod[a].freeze, Returns(a),
         Len(Active') = Len(Active) - 1,
         \A j \in DOMAIN Active' :
            /\ Skip(h, j) \in DOMAIN Active /\ Skip(h, j) # h
            /\ Active'[j] = Active[Skip(h, j)] /\ (Executed(j)' <=> Executed(Skip(h, j)))
  PROVE  Count' /\ Settled'
<1>1. \A j \in DOMAIN Active : j # h => Active[j] # a
  BY Unique
<1>2. /\ \A n : n # a => (InRound(n)' <=> InRound(n)) /\ (Awaits(n)' <=> Awaits(n))
      /\ InRound(a) /\ ~Awaits(a) /\ ~InRound(a)' /\ ~Awaits(a)'
      /\ \A n \in Nodes : a \notin Subtree(n) /\ Busy(n) =>
              \E j \in DOMAIN Active' : Active'[j] \in Subtree(n)
  BY <1>1, DroppedMarks
<1>3. \A n \in Nodes : Pending(n)' <=> Pending(n)
  BY <1>2 DEF Pending, Returns
<1>4. ASSUME NEW p \in Nodes, NEW l \in DOMAIN Children(p) PROVE Owed(p, l)' = Owed(p, l)
  <2>1. CASE p = a
    BY <2>1, SameTree DEF Owed, Bit, Returns
  <2>2. CASE p # a
    BY <2>2, <1>2, OwedSame DEF Returns
  <2> QED BY <2>1, <2>2
<1>5. Settled'
  <2>1. ASSUME NEW n \in Nodes, Len(Active') # 0, ~Busy(n)' PROVE Done(n)'
    <3>0. \A j \in DOMAIN Active' : Active'[j] \notin Subtree(n)
      BY <2>1, SameTree DEF Busy
    <3>1. a \notin Subtree(n)
      <4>1. 1 \in DOMAIN Active' /\ Active'[1] = Active[Skip(h, 1)] /\ Skip(h, 1) \in DOMAIN Active /\ Skip(h, 1) # h
        BY <2>1 DEF ActiveShape
      <4>2. Forked(a)
        BY AtFork
      <4>3. Active[Skip(h, 1)] \in Subtree(a)
        BY <4>1, <4>2, ForkedHand
      <4>4. a \in Subtree(n) => Subtree(a) \subseteq Subtree(n)
        BY SubtreeFacts
      <4> QED BY <3>0, <4>1, <4>3, <4>4
    <3>2. ~Busy(n)
      BY <1>2, <3>0, <3>1
    <3>3. Done(n) /\ n # a
      <4>1. Len(Active) # 0
        BY DEF ActiveShape
      <4> QED BY <3>1, <3>2, <4>1, SubtreeFacts DEF Settled
    <3> QED BY <3>3, SameTree DEF Done, Returns
  <2>2. ASSUME NEW n \in Nodes, Children(n) = <<>> PROVE nod'[n].curLoop = 0
    BY <2>2 DEF Settled, Returns
  <2> QED BY <2>1, <2>2, SameTree DEF Settled
<1> QED BY <1>3, <1>4, <1>5, CountSame

\* The root that ends the bot owes nothing.
LEMMA EndCount ==
  ASSUME TypeOK, TypeOK', tree \in Trees, tree' = tree, visits' = visits, passed' = passed,
         ActiveShape, ActiveShape', Count, Settled, nod' = nod,
         NEW a \in Nodes, Kind(a) = "Root", Len(Active) = 1, Active[1] = a, Executed(1),
         nod[a].freeze \/ Children(a) = <<>>, Len(Active') = 0
  PROVE  Count' /\ Settled'
<1>0. DOMAIN Active = {1} /\ DOMAIN Active' = {} /\ a = tree.root
  BY TreeFacts DEF ActiveShape
<1>1. \A n : (InRound(n) <=> n = a) /\ ~Awaits(n) /\ ~Pending(n)
  BY <1>0 DEF InRound, Awaits, Pending
<1>2. \A n : ~InRound(n)' /\ ~Awaits(n)' /\ ~Pending(n)'
  BY <1>0 DEF InRound, Awaits, Pending
<1>3. ASSUME NEW p \in Nodes, NEW l \in DOMAIN Children(p) PROVE Owed(p, l)' = Owed(p, l)
  <2>1. CASE p = a
    <3>1. nod[a].freeze
      BY <2>1
    <3> QED BY <2>1, <3>1, SameTree DEF Owed, Bit
  <2>2. CASE p # a
    BY <2>2, <1>1, <1>2, OwedSame
  <2> QED BY <2>1, <2>2
<1>4. Settled'
  <2>1. ASSUME NEW n \in Nodes PROVE Done(n)'
    <3>1. CASE n = a
      BY <3>1, SameTree DEF Done
    <3>2. CASE n # a
      <4>1. a \notin Subtree(n)
        BY <1>0, <3>2, ParentInside
      <4>2. ~Busy(n)
        BY <1>0, <4>1 DEF Busy
      <4>3. Done(n)
        BY <4>2 DEF Settled
      <4> QED BY <4>3, SameTree DEF Done
    <3> QED BY <3>1, <3>2
  <2> QED BY <2>1, SameTree DEF Settled
<1> QED BY <1>1, <1>2, <1>3, <1>4, CountSame

\* A step that changes nothing that is active, executed or in a node counts nothing.
LEMMA QuietCount ==
  ASSUME TypeOK, TypeOK', tree \in Trees, tree' = tree, visits' = visits, passed' = passed,
         Count, Settled, nod' = nod, end' = end, Active' = Active,
         \A j \in DOMAIN Active : Executed(j)' <=> Executed(j)
  PROVE  Count' /\ Settled'
<1>1. \A n : (InRound(n)' <=> InRound(n)) /\ (Pending(n)' <=> Pending(n))
  BY DEF InRound, Awaits, Pending
<1>2. \A p \in Nodes : \A l \in DOMAIN Children(p) : Owed(p, l)' = Owed(p, l)
  BY <1>1, OwedSame
<1>3. \A n \in Nodes : (Busy(n)' <=> Busy(n)) /\ (Done(n)' <=> Done(n))
  BY SameTree DEF Busy, Done
<1> QED BY <1>1, <1>2, <1>3, CountSame, SameTree DEF Settled

-----------------------------------------------------------------------------
(* The tick, and the start. *)

\* A loop that is executed once more asks for its limit once more.
LEMMA LimitTimes == \A n, v \in Int : n * (v + 1) = n * v + n
OBVIOUS

\* A loop that is not executed asks for nothing.
LEMMA ZeroTimes == \A n \in Int : n * 0 = 0
OBVIOUS

\* What the execution of a node adds to what it owes and to what it asked for.
LEMMA OwedOnTick ==
  ASSUME TypeOK, TypeOK', tree \in Trees, tree' = tree,
         NEW n \in Nodes, Reset(n), ~InRound(n), InRound(n)', But(nod'[n], nod[n], {"succ", "waiting"}),
         nod'[n].waiting <=> nod[n].waiting \/ Kind(n) = "Wait",
         Kind(n) # "Wait" => ~nod[n].waiting,
         visits' = IF nod[n].waiting THEN visits ELSE [visits EXCEPT ![n] = @ + 1],
         passed' = IF Kind(n) = "Condition" /\ nod'[n].succ THEN [passed EXCEPT ![n] = @ + 1] ELSE passed,
         NEW k \in DOMAIN Children(n)
  PROVE  Asked(n, k)' - Owed(n, k)' = Asked(n, k) - Owed(n, k)
<1>1. /\ visits \in [Nodes -> Nat] /\ passed \in [Nodes -> Nat] /\ Limit(n) \in Int
      /\ k \in Nat \ {0}
  <2>1. Children(n) \in Seq(Nodes) /\ Limit(n) \in Int
    BY TreeFacts
  <2>2. visits \in [Nodes -> Nat] /\ passed \in [Nodes -> Nat]
    BY DEF TypeOK
  <2> QED BY <2>1, <2>2
<1>2. PICK v \in Nat : v = visits[n]
  BY <1>1
<1>3. visits'[n] = IF nod[n].waiting THEN v ELSE v + 1
  BY <1>1, <1>2
<1>4. /\ ~nod[n].freeze /\ nod[n].step = 0 /\ nod[n].curLoop = 0
      /\ ~nod'[n].freeze /\ nod'[n].step = 0 /\ nod'[n].curLoop = 0
  BY DEF Reset, But
<1>5. CASE Kind(n) \in {"Sequence", "Selector", "Parallel"}
  <2>1. Owed(n, k) = 0
    BY <1>1, <1>4, <1>5 DEF Owed, Bit
  <2>2. Owed(n, k)' = 1
    BY <1>1, <1>4, <1>5, SameTree DEF Owed, Bit
  <2>3. Asked(n, k) = v /\ Asked(n, k)' = v + 1
    BY <1>2, <1>3, <1>5, SameTree DEF Asked
  <2> QED BY <2>1, <2>2, <2>3
<1>6. CASE Kind(n) = "Loop"
  <2>0. Kind(n)' = Kind(n) /\ Limit(n)' = Limit(n)
    BY SameTree
  <2>1. Owed(n, k) = 0
    BY <1>1, <1>4, <1>6 DEF Owed, Bit
  <2>2. Owed(n, k)' = IF k = 1 /\ Limit(n) > 0 THEN Limit(n) ELSE 0
    <3>1. Owed(n, k)' = IF k = 1 /\ Limit(n) > 0 THEN Limit(n) - 0 ELSE 0
      BY <1>1, <1>4, <1>6, <2>0 DEF Owed
    <3> QED BY <3>1, <1>1
  <2>3. Asked(n, k) = IF Limit(n) > 0 THEN Limit(n) * (IF k = 1 THEN v ELSE 0) ELSE 0
    BY <1>2, <1>6 DEF Asked
  <2>4. Asked(n, k)' = IF Limit(n) > 0 THEN Limit(n) * (IF k = 1 THEN v + 1 ELSE 0) ELSE 0
    BY <1>3, <1>6, <2>0 DEF Asked
  <2>5. PICK m \in Int : m = Limit(n)
    BY <1>1
  <2>6. PICK mv \in Int : mv = m * v
    BY <1>2
  <2>7. m * (v + 1) = mv + m /\ m * 0 = 0
    BY <2>6, LimitTimes, ZeroTimes
  <2> QED BY <2>1, <2>2, <2>3, <2>4, <2>5, <2>6, <2>7
<1>7. CASE Kind(n) = "Wait"
  <2>1. Owed(n, k) = IF k = 1 /\ nod[n].waiting THEN 1 ELSE 0
    BY <1>7 DEF Owed, Bit
  <2>2. Owed(n, k)' = IF k = 1 THEN 1 ELSE 0
    BY <1>7, SameTree DEF Owed, Bit
  <2>3. Asked(n, k) = (IF k = 1 THEN v ELSE 0) /\ Asked(n, k)' = (IF k = 1 THEN visits'[n] ELSE 0)
    BY <1>2, <1>7, SameTree DEF Asked
  <2> QED BY <1>3, <2>1, <2>2, <2>3
<1>8. CASE Kind(n) = "Condition"
  <2>1. Owed(n, k) = 0
    BY <1>8 DEF Owed, Bit
  <2>2. Owed(n, k)' = IF k = 1 /\ nod'[n].succ THEN 1 ELSE 0
    BY <1>4, <1>8, SameTree DEF Owed, Bit
  <2>3. Asked(n, k) = (IF k = 1 THEN passed[n] ELSE 0) /\ Asked(n, k)' = (IF k = 1 THEN passed'[n] ELSE 0)
    BY <1>8, SameTree DEF Asked
  <2>4. passed[n] \in Nat /\ passed'[n] = IF nod'[n].succ THEN passed[n] + 1 ELSE passed[n]
    BY <1>1, <1>8
  <2> QED BY <2>1, <2>2, <2>3, <2>4
<1>9. CASE Kind(n) \in {"Root", "Script"}
  <2>1. Owed(n, k) = 0
    BY <1>9 DEF Owed, Bit
  <2>2. Owed(n, k)' = IF k = 1 THEN 1 ELSE 0
    BY <1>4, <1>9, SameTree DEF Owed, Bit
  <2>3. Asked(n, k) = (IF k = 1 THEN v ELSE 0) /\ Asked(n, k)' = (IF k = 1 THEN v + 1 ELSE 0)
    BY <1>2, <1>3, <1>9, SameTree DEF Asked
  <2> QED BY <2>1, <2>2, <2>3
<1> QED
  <2>1. Kind(n) \in Kinds
    BY TreeFacts
  <2> QED BY <2>1, <1>5, <1>6, <1>7, <1>8, <1>9 DEF Kinds

\* A node is ticked: the execution to come has come.
LEMMA TickCount ==
  ASSUME TypeOK, TypeOK', tree \in Trees, tree' = tree, Flat(tree), ActiveShape, Placed, Progress,
         Count, Settled, end' = end, ~end,
         NEW n \in Nodes, NEW q \in DOMAIN Active, Active[q] = n, ~Executed(q), ~HandAt(q), Active' = Active,
         \A j \in DOMAIN Active : Executed(j)' <=> Executed(j) \/ j = q,
         \A m \in Nodes \ {n} : nod'[m] = nod[m], But(nod'[n], nod[n], {"succ", "waiting"}),
         nod'[n].waiting <=> nod[n].waiting \/ Kind(n) = "Wait",
         Kind(n) # "Wait" => ~nod[n].waiting,
         visits' = IF nod[n].waiting THEN visits ELSE [visits EXCEPT ![n] = @ + 1],
         passed' = IF Kind(n) = "Condition" /\ nod'[n].succ THEN [passed EXCEPT ![n] = @ + 1] ELSE passed
  PROVE  Count' /\ Settled'
<1>0. visits \in [Nodes -> Nat] /\ passed \in [Nodes -> Nat]
  BY DEF TypeOK
<1>1. \A j \in DOMAIN Active : Active[j] = n => j = q
  BY Unique
<1>2. /\ \A m : m # n => (InRound(m)' <=> InRound(m)) /\ (Awaits(m)' <=> Awaits(m))
      /\ ~InRound(n) /\ Awaits(n) /\ InRound(n)' /\ ~Awaits(n)'
  BY <1>1 DEF InRound, Awaits
<1>3. Reset(n)
  BY DEF Progress
<1>4. ASSUME NEW d \in Nodes PROVE (visits[d] + Bit(Pending(d)))' = visits[d] + Bit(Pending(d))
  <2>1. CASE d = n
    <3>1. Bit(Pending(n)) = (IF nod[n].waiting THEN 0 ELSE 1) /\ Bit(Pending(n))' = 0
      BY <1>2 DEF Bit, Pending
    <3>2. visits'[n] = IF nod[n].waiting THEN visits[n] ELSE visits[n] + 1
      BY <1>0
    <3>3. visits[n] \in Nat
      BY <1>0
    <3> QED BY <2>1, <3>1, <3>2, <3>3
  <2>2. CASE d # n
    <3>1. visits'[d] = visits[d]
      BY <2>2, <1>0
    <3>2. Pending(d)' <=> Pending(d)
      BY <2>2, <1>2 DEF Pending
    <3> QED BY <3>1, <3>2 DEF Bit
  <2> QED BY <2>1, <2>2
<1>5. ASSUME NEW p \in Nodes, NEW k \in DOMAIN Children(p)
      PROVE  Asked(p, k)' - Owed(p, k)' = Asked(p, k) - Owed(p, k)
  <2>1. CASE p = n
    BY <2>1, <1>2, <1>3, OwedOnTick
  <2>2. CASE p # n
    <3>1. Owed(p, k)' = Owed(p, k)
      BY <2>2, <1>2, OwedSame
    <3>2. visits'[p] = visits[p] /\ passed'[p] = passed[p]
      BY <2>2, <1>0
    <3>3. Asked(p, k)' = Asked(p, k)
      BY <3>2, SameTree DEF Asked
    <3> QED BY <3>1, <3>3
  <2> QED BY <2>1, <2>2
<1>6. ASSUME NEW p \in Nodes, NEW k \in DOMAIN Children(p)
      PROVE  (visits[Children(p)[k]] + Bit(Pending(Children(p)[k])) + Owed(p, k) = Asked(p, k))'
  <2> PICK d \in Nodes : d = Children(p)[k]
    BY TreeFacts
  <2>1. visits[d] + Bit(Pending(d)) + Owed(p, k) = Asked(p, k)
    BY DEF Count
  <2>2. (visits[d] + Bit(Pending(d)))' = visits[d] + Bit(Pending(d))
    BY <1>4
  <2>3. visits[d] + Bit(Pending(d)) \in Int /\ Owed(p, k) \in Int
    <3>1. visits[d] \in Int
      BY <1>0
    <3> QED BY <3>1, OwedInt DEF Bit
  <2>4. Owed(p, k)' \in Int
    BY OwedIntNext, SameTree
  <2>5. Asked(p, k)' \in Int
    <3>1. TypeOK => Asked(p, k) \in Int
      <4>1. TypeOK => visits \in [Nodes -> Nat] /\ passed \in [Nodes -> Nat]
        BY DEF TypeOK
      <4>2. Limit(p) \in Int
        BY TreeFacts
      <4>3. TypeOK => (Limit(p) * (IF k = 1 THEN visits[p] ELSE 0)) \in Int
        BY <4>1, <4>2
      <4> QED BY <4>1, <4>3 DEF Asked
    <3>2. visits' \in [Nodes -> Nat] /\ passed' \in [Nodes -> Nat] /\ Limit(p) \in Int
      <4>1. visits' \in [Nodes' -> Nat] /\ passed' \in [Nodes' -> Nat]
        BY DEF TypeOK
      <4> QED BY <4>1, SameTree, TreeFacts
    <3>3. (Limit(p) * (IF k = 1 THEN visits'[p] ELSE 0)) \in Int
      BY <3>2
    <3> QED BY <3>2, <3>3, SameTree DEF Asked
  <2>6. Asked(p, k)' - Owed(p, k)' = visits[d] + Bit(Pending(d))
    <3>1. Asked(p, k) = visits[d] + Bit(Pending(d)) + Owed(p, k)
      BY <2>1
    <3>2. Asked(p, k) - Owed(p, k) = visits[d] + Bit(Pending(d))
      BY <3>1, <2>3
    <3> QED BY <1>5, <3>2
  <2>7. (visits[d] + Bit(Pending(d)))' + Owed(p, k)' = Asked(p, k)'
    BY <2>2, <2>3, <2>4, <2>5, <2>6
  <2> QED BY <2>7, SameTree
<1>7. (visits[tree.root] + Bit(Pending(tree.root)) = 1)'
  <2>1. PICK d \in Nodes : d = tree.root
    BY TreeFacts
  <2> QED BY <2>1, <1>4 DEF Count
<1>8. Count'
  BY <1>6, <1>7, SameTree DEF Count
<1>9. Settled'
  <2>1. \A m \in Nodes : Busy(m)' <=> Busy(m)
    BY SameTree DEF Busy
  <2>2. \A m \in Nodes : nod'[m].step = nod[m].step /\ nod'[m].curLoop = nod[m].curLoop
    BY DEF But
  <2>3. \A m \in Nodes : Done(m)' <=> Done(m)
    BY <2>2, SameTree DEF Done
  <2> QED BY <2>1, <2>2, <2>3, SameTree DEF Settled
<1> QED BY <1>8, <1>9

\* When a bot begins the execution of its root is to come, and nothing is owed ...
LEMMA StartCount ==
  ASSUME TypeOK, Start, visits = Zero(tree), passed = Zero(tree)
  PROVE  Count /\ Settled
<1>0. tree \in Trees /\ tree.root \in Nodes /\ DOMAIN Active = {1} /\ Active[1] = tree.root /\ ~Executed(1)
  BY TreeFacts DEF Start
<1>1. \A n \in Nodes : visits[n] = 0 /\ passed[n] = 0
  BY DEF Zero, Nodes
<1>2. \A n \in Nodes : Done(n) /\ ~nod[n].waiting /\ nod[n].curLoop = 0
  BY DEF Start, Done, Reset
<1>3. \A n : ~InRound(n) /\ (Awaits(n) <=> n = tree.root)
  BY <1>0 DEF InRound, Awaits
<1>4. \A n \in Nodes : Pending(n) <=> n = tree.root
  BY <1>2, <1>3 DEF Pending
<1>5. ASSUME NEW p \in Nodes, NEW k \in DOMAIN Children(p)
      PROVE  visits[Children(p)[k]] + Bit(Pending(Children(p)[k])) + Owed(p, k) = Asked(p, k)
  <2> PICK d \in Nodes \ {tree.root} : d = Children(p)[k]
    BY <1>0, TreeFacts
  <2>1. visits[d] = 0 /\ Bit(Pending(d)) = 0
    BY <1>1, <1>4 DEF Bit
  <2>2. Owed(p, k) = 0
    BY <1>2, <1>3, OwedNone
  <2>3. Asked(p, k) = 0
    <3>1. Limit(p) * 0 = 0
      BY <1>0, TreeFacts, ZeroTimes
    <3>2. visits[p] = 0 /\ passed[p] = 0
      BY <1>1
    <3> QED BY <3>1, <3>2 DEF Asked
  <2> QED BY <2>1, <2>2, <2>3
<1>6. visits[tree.root] + Bit(Pending(tree.root)) = 1
  BY <1>0, <1>1, <1>4 DEF Bit
<1> QED BY <1>2, <1>5, <1>6 DEF Count, Settled

-----------------------------------------------------------------------------
(* The handlers. *)

\* What both invariants say while a bot runs.
LEMMA ContextB ==
  ASSUME InvA, InvB, Flat(tree), phase \in {"idle", "tick", "next"}
  PROVE  /\ TypeOK /\ Slices /\ tree \in Trees /\ Flat(tree) /\ ActiveShape
         /\ Placed /\ Progress /\ Waits /\ Settled /\ Count
         /\ phase = "next" /\ at # None => ~end
<1>1. TypeOK /\ Slices /\ Placed /\ Progress /\ Waits /\ Settled /\ Count /\ NothingLeftBehind
  BY DEF InvA, InvB, Live
<1>2. tree \in Trees
  BY <1>1 DEF TypeOK
<1> QED BY <1>1, <1>2, Shape DEF NothingLeftBehind

\* The same in the next state, while the run goes on.
LEMMA ContextNext ==
  ASSUME InvA', phase' = "next"
  PROVE  TypeOK' /\ Slices' /\ ActiveShape' /\ Placed' /\ Progress' /\ Waits'
BY ShapeNext DEF InvA, Live

\* Opening a child keeps InvB when the node pays for it.
LEMMA OpenCount ==
  ASSUME InvA, InvB, Flat(tree), InvA', NextUnchanged, end' = end, phase = "next",
         NEW a \in Nodes, at = a, Kind(a) # "Parallel", NEW k \in DOMAIN Children(a), OpenChild(k),
         Opens(a, k), NEW c, c = Children(a)[k], Reset(c)',
         InRound(a) /\ ~InRound(a)' => /\ Owed(a, k) = Owed(a, k)' + 1
                                       /\ \A l \in DOMAIN Children(a) \ {k} : Owed(a, l)' = Owed(a, l)
  PROVE  InvB'
<1>0. phase' = "next" /\ tree' = tree /\ visits' = visits /\ passed' = passed
  BY DEF NextUnchanged, history
<1>1. /\ TypeOK /\ Slices /\ tree \in Trees /\ Flat(tree) /\ ActiveShape
      /\ Placed /\ Progress /\ Waits /\ Settled /\ Count
  BY ContextB
<1>2. TypeOK' /\ Slices' /\ ActiveShape' /\ Placed' /\ Progress' /\ Waits'
  BY <1>0, ContextNext
<1>3. a # None /\ ~end
  BY <1>1, TreeFacts, ContextB
<1>4. c \in Nodes /\ c \in ChildSet(a) /\ c # a /\ BlackboardAppend(<<c>>) /\ at' = None
  BY <1>1, TreeFacts, ChildFacts DEF OpenChild, ChildSet
<1>5. \E h \in DOMAIN Active : h = Len(open) + 1 /\ Replaced(h, c) /\ ~HandAt(h)' /\ ~Executed(h)'
  BY <1>0, <1>1, <1>2, <1>3, <1>4, PutMoves
<1> PICK h \in DOMAIN Active : h = Len(open) + 1 /\ Replaced(h, c) /\ ~HandAt(h)' /\ ~Executed(h)'
  BY <1>5
<1>6. Active[h] = a /\ Executed(h)
  <2>1. h > Len(open)
    BY <1>1, SliceTypes
  <2> QED BY <1>1, <1>3, <2>1, InHand
<1>7. \A j \in DOMAIN Active : j # h => Active[j] \notin Subtree(a)
  BY <1>1, <1>3, <1>6, NoneBelow
<1>8. InRound(a) /\ ~InRound(a)'
  <2>1. InRound(a)
    BY <1>6 DEF InRound
  <2>2. \A j \in DOMAIN Active' : Active'[j] = a => FALSE
    BY <1>1, <1>2, <1>4, <1>7, SubtreeFacts DEF Replaced, ActiveShape
  <2> QED BY <2>1, <2>2 DEF InRound
<1>9. Count'
  BY <1>0, <1>1, <1>2, <1>4, <1>6, <1>7, <1>8, PutCount
<1>10. Settled'
  BY <1>0, <1>1, <1>2, <1>4, <1>6, PutSettled
<1> QED BY <1>9, <1>10 DEF InvB

\* Handing over to the parent keeps InvB when nothing is owed.
LEMMA ReturnCount ==
  ASSUME InvA, InvB, Flat(tree), InvA', NextUnchanged, end' = end, phase = "next",
         NEW a \in Nodes \ {tree.root}, at = a, CallParent, Returns(a),
         Kind(a) = "Parallel" => nod[a].freeze /\ nod[a].threadNumber + 1 >= Len(Children(a)),
         Done(a), \A k \in DOMAIN Children(a) : Owed(a, k) = 0
  PROVE  InvB'
<1>0. phase' = "next" /\ tree' = tree /\ visits' = visits /\ passed' = passed
  BY DEF NextUnchanged, history
<1>1. /\ TypeOK /\ Slices /\ tree \in Trees /\ Flat(tree) /\ ActiveShape
      /\ Placed /\ Progress /\ Waits /\ Settled /\ Count
  BY ContextB
<1>2. TypeOK' /\ Slices' /\ ActiveShape' /\ Placed' /\ Progress' /\ Waits'
  BY <1>0, ContextNext
<1>3. a # None /\ ~end
  BY <1>1, TreeFacts, ContextB
<1>4. PICK x \in Nodes : x = Parent(a)
  BY <1>1, TreeFacts
<1>5. \E h \in DOMAIN Active : h = Len(open) + 1 /\ Replaced(h, x) /\ HandAt(h)' /\ Executed(h)'
  BY <1>0, <1>1, <1>2, <1>3, <1>4, CallMoves DEF CallParent
<1> PICK h \in DOMAIN Active : h = Len(open) + 1 /\ Replaced(h, x) /\ HandAt(h)' /\ Executed(h)'
  BY <1>5
<1>6. Active[h] = a /\ Executed(h)
  <2>1. h > Len(open)
    BY <1>1, SliceTypes
  <2> QED BY <1>1, <1>3, <2>1, InHand
<1>7. \A j \in DOMAIN Active : j # h => Active[j] # a /\ Active[j] # x
  <2> SUFFICES ASSUME NEW j \in DOMAIN Active, j # h PROVE Active[j] # a /\ Active[j] # x
    OBVIOUS
  <2>1. Active[j] # a
    BY <1>1, <1>6, Unique
  <2>2. Active[j] = x => FALSE
    <3> SUFFICES ASSUME Active[j] = x PROVE FALSE
      OBVIOUS
    <3>1. a \in ChildSet(x) /\ a \in Subtree(x) /\ a # x
      BY <1>1, <1>4, HasChild, ChildFacts DEF Below
    <3>2. CASE Kind(x) # "Parallel"
      BY <1>1, <1>3, <1>6, <3>1, <3>2, NoneBelow
    <3>3. CASE Kind(x) = "Parallel"
      <4>1. CASE Alone
        BY <1>1, <1>3, <4>1 DEF Alone, ActiveShape
      <4>2. CASE \E p \in Nodes : Forked(p)
        <5> PICK p \in Nodes : Forked(p)
          BY <4>2
        <5>1. p = x /\ HandAt(j)
          BY <1>1, <3>3, ForkedHand
        <5>2. HandAt(h)
          BY <1>1, <1>3, InHand
        <5> QED BY <5>1, <5>2 DEF HandAt
      <4> QED BY <1>1, <4>1, <4>2 DEF Placed
    <3> QED BY <3>2, <3>3
  <2> QED BY <2>1, <2>2
<1>8. Count'
  BY <1>0, <1>1, <1>2, <1>4, <1>6, <1>7, CallCount
<1>9. Settled'
  BY <1>0, <1>1, <1>2, <1>4, <1>6, CallSettled
<1> QED BY <1>8, <1>9 DEF InvB

\* A node that opens its one child pays what it owes for it.
LEMMA DescendCount ==
  ASSUME InvA, InvB, Flat(tree), InvA', NextUnchanged, end' = end, phase = "next", at # None,
         CanDescend, OpenChild(1), NEW F \in SUBSET {"freeze", "waiting"}, Only(nod', nod, at, F),
         nod'[at].freeze, ~nod'[at].waiting,
         Kind(at) \in {"Root", "Script", "Wait"} \/ (Kind(at) = "Condition" /\ nod[at].succ)
  PROVE  InvB'
<1> PICK a : a = at
  OBVIOUS
<1> PICK c : c = Children(a)[1]
  OBVIOUS
<1>0. tree' = tree
  BY DEF NextUnchanged
<1>1. a \in Nodes /\ 1 \in DOMAIN Children(a) /\ Opens(a, 1) /\ Reset(c)'
  BY DescendOpens
<1>2. Kind(a) = "Wait" => nod[a].waiting
  <2>1. TypeOK /\ Slices /\ Waits
    BY DEF InvA, Live
  <2>2. Len(open) + 1 \in DOMAIN Active /\ Active[Len(open) + 1] = a /\ Executed(Len(open) + 1)
    <3>1. Len(open) + 1 > Len(open)
      BY <2>1, SliceTypes
    <3> QED BY <2>1, <3>1, InHand
  <2> QED BY <2>1, <2>2 DEF Waits, CanDescend
<1>3. ASSUME InRound(a), ~InRound(a)'
      PROVE  /\ Owed(a, 1) = Owed(a, 1)' + 1
             /\ \A l \in DOMAIN Children(a) \ {1} : Owed(a, l)' = Owed(a, l)
  <2>1. Owed(a, 1) = 1
    BY <1>2, <1>3 DEF Owed, Bit, CanDescend
  <2>2. Owed(a, 1)' = 0
    BY <1>0, SameTree DEF Owed, Bit
  <2>3. \A l \in DOMAIN Children(a) \ {1} : Owed(a, l) = 0
    BY DEF Owed, Bit
  <2>4. \A l \in DOMAIN Children(a) \ {1} : Owed(a, l)' = 0
    BY <1>0, SameTree DEF Owed, Bit
  <2> QED BY <2>1, <2>2, <2>3, <2>4
<1> QED BY <1>1, <1>3, OpenCount

\* A node that hands over owes nothing and is done.
LEMMA UpCount ==
  ASSUME InvA, InvB, Flat(tree), InvA', NextUnchanged, end' = end, phase = "next", at # None,
         Kind(at) # "Root", CallParent,
         \/ nod' = nod /\ Kind(at) \notin {"Parallel", "Wait"}
         \/ Kind(at) = "Wait" /\ nod' = [nod EXCEPT ![at].waiting = FALSE]
         \/ /\ Kind(at) = "Parallel" /\ nod' = [nod EXCEPT ![at].threadNumber = @ + 1]
            /\ nod[at].freeze /\ nod[at].threadNumber + 1 >= Len(Children(at)),
         Done(at), \A k \in DOMAIN Children(at) : Owed(at, k) = 0
  PROVE  InvB'
<1> PICK a : a = at
  OBVIOUS
<1>1. a \in Nodes \ {tree.root} /\ Returns(a)
  BY UpReturns
<1> QED BY <1>1, ReturnCount

\* A wait whose time has not come keeps InvB.
LEMMA WaitAgainB == ASSUME InvA, InvB, Flat(tree), InvA', WaitAgain PROVE InvB'
<1>0. /\ phase = "next" /\ at # None /\ Kind(at) = "Wait" /\ nod[at].waiting /\ phase' = "next"
      /\ BlackboardAppend(<<at>>) /\ at' = None /\ nod' = nod /\ end' = end /\ NextUnchanged
      /\ tree' = tree /\ visits' = visits /\ passed' = passed
  BY DEF WaitAgain, Advancing, NextUnchanged, history
<1> PICK a \in Nodes : a = at
  BY <1>0, HandFields
<1>1. /\ TypeOK /\ Slices /\ tree \in Trees /\ Flat(tree) /\ ActiveShape
      /\ Placed /\ Progress /\ Waits /\ Settled /\ Count
  BY <1>0, ContextB
<1>2. TypeOK' /\ Slices' /\ ActiveShape'
  BY <1>0, ContextNext
<1>3. \E h \in DOMAIN Active : h = Len(open) + 1 /\ Replaced(h, a) /\ ~HandAt(h)' /\ ~Executed(h)'
  BY <1>0, <1>1, <1>2, PutMoves
<1> PICK h \in DOMAIN Active : h = Len(open) + 1 /\ Replaced(h, a) /\ ~HandAt(h)' /\ ~Executed(h)'
  BY <1>3
<1>4. Active[h] = a /\ Executed(h)
  <2>1. h > Len(open)
    BY <1>1, SliceTypes
  <2> QED BY <1>0, <1>1, <2>1, InHand
<1>5. \A j \in DOMAIN Active : j # h => Active[j] # a
  BY <1>1, <1>4, Unique
<1> QED BY <1>0, <1>1, <1>2, <1>4, <1>5, AgainCount DEF InvB

\* A loop keeps InvB: it owes its limit less the iterations it has begun.
LEMMA LoopB == ASSUME InvA, InvB, Flat(tree), InvA', LoopNext PROVE InvB'
<1>0. /\ phase = "next" /\ at # None /\ Kind(at) = "Loop" /\ end' = end /\ NextUnchanged /\ tree' = tree
  BY DEF LoopNext, LoopWhile, Advancing, NextUnchanged
<1> PICK a \in Nodes : a = at
  BY <1>0, HandFields
<1>1. nod[a].curLoop \in Nat /\ Limit(a) \in Int
  BY <1>0, HandFields
<1>2. CASE ~(Children(at) # <<>> /\ nod[at].curLoop < Limit(at))
  <2>1. nod' = nod /\ CallParent
    BY <1>2 DEF LoopNext, LoopWhile
  <2>2. Children(a) = <<>> => nod[a].curLoop = 0
    BY <1>0, ContextB DEF Settled
  <2>3. nod[a].curLoop = 0 \/ nod[a].curLoop <= Limit(a)
    BY DEF InvA, TypeOK
  <2>4. Done(a)
    BY <1>0, <1>1, <1>2, <2>2, <2>3 DEF Done
  <2>5. ASSUME NEW k \in DOMAIN Children(a) PROVE Owed(a, k) = 0
    <3>1. Children(a) # <<>>
      OBVIOUS
    <3>2. Limit(a) > 0 => Limit(a) - nod[a].curLoop = 0
      BY <1>1, <1>2, <2>3, <3>1
    <3> QED BY <1>0, <3>2 DEF Owed
  <2> QED BY <1>0, <2>1, <2>4, <2>5, UpCount
<1>3. CASE Children(at) # <<>> /\ nod[at].curLoop < Limit(at)
  <2> PICK c : c = Children(a)[1]
    OBVIOUS
  <2>1. /\ 1 \in DOMAIN Children(a) /\ OpenChild(1) /\ Opens(a, 1) /\ Reset(c)'
        /\ nod'[a].curLoop = nod[a].curLoop + 1
    BY <1>3, LoopOpens
  <2>2. ASSUME InRound(a)
        PROVE  /\ Owed(a, 1) = Owed(a, 1)' + 1
               /\ \A l \in DOMAIN Children(a) \ {1} : Owed(a, l)' = Owed(a, l)
    <3>1. Owed(a, 1) = Limit(a) - nod[a].curLoop
      BY <1>0, <1>1, <1>3, <2>2 DEF Owed
    <3>2. Owed(a, 1)' = Limit(a) - (nod[a].curLoop + 1)
      <4>1. Kind(a)' = "Loop" /\ Limit(a)' = Limit(a)
        BY <1>0, SameTree
      <4>2. Limit(a) > 0 /\ nod'[a].curLoop > 0
        BY <1>1, <1>3, <2>1
      <4> QED BY <2>1, <4>1, <4>2 DEF Owed
    <3>3. \A l \in DOMAIN Children(a) \ {1} : Owed(a, l) = 0
      BY <1>0 DEF Owed
    <3>4. \A l \in DOMAIN Children(a) \ {1} : Owed(a, l)' = 0
      BY <1>0, SameTree DEF Owed
    <3> QED BY <1>1, <3>1, <3>2, <3>3, <3>4
  <2> QED BY <1>0, <2>1, <2>2, OpenCount
<1> QED BY <1>2, <1>3

\* A sequence or a selector keeps InvB: it owes the children after its step.
LEMMA StepB == ASSUME InvA, InvB, Flat(tree), InvA', StepNext PROVE InvB'
<1>0. /\ phase = "next" /\ at # None /\ Kind(at) \in {"Sequence", "Selector"} /\ end' = end
      /\ NextUnchanged /\ tree' = tree
  BY DEF StepNext, Advancing, NextUnchanged
<1> PICK a \in Nodes : a = at
  BY <1>0, HandFields
<1>1. nod[a].step \in Nat /\ Len(Children(a)) \in Nat /\ DOMAIN Children(a) = 1 .. Len(Children(a))
  BY <1>0, HandFields
<1>2. CASE ~(nod[at].step < Len(Children(at)))
  <2>1. nod' = nod /\ CallParent
    BY <1>2 DEF StepNext
  <2>2. nod[a].step <= Len(Children(a))
    BY DEF InvA, TypeOK
  <2>3. Done(a)
    BY <1>0, <1>1, <1>2, <2>2 DEF Done
  <2>4. ASSUME NEW k \in DOMAIN Children(a) PROVE Owed(a, k) = 0
    <3>1. ~(nod[a].step < k)
      BY <1>1, <1>2, <2>4
    <3> QED BY <1>0, <3>1 DEF Owed, Bit
  <2> QED BY <1>0, <2>1, <2>3, <2>4, UpCount
<1>3. CASE nod[at].step < Len(Children(at))
  <2> PICK k : k = nod[a].step + 1
    OBVIOUS
  <2> PICK c : c = Children(a)[k]
    OBVIOUS
  <2>1. k \in DOMAIN Children(a) /\ OpenChild(k) /\ Opens(a, k) /\ Reset(c)' /\ nod'[a].step = k
    BY <1>3, StepOpens
  <2>2. ASSUME InRound(a)
        PROVE  /\ Owed(a, k) = Owed(a, k)' + 1
               /\ \A l \in DOMAIN Children(a) \ {k} : Owed(a, l)' = Owed(a, l)
    <3>1. \A l : Owed(a, l) = IF nod[a].step < l THEN 1 ELSE 0
      BY <1>0, <2>2 DEF Owed, Bit
    <3>2. \A l : Owed(a, l)' = IF k < l THEN 1 ELSE 0
      <4>1. Kind(a)' \in {"Sequence", "Selector"}
        BY <1>0, SameTree
      <4>2. nod'[a].step > 0
        BY <1>1, <2>1
      <4> QED BY <2>1, <4>1, <4>2 DEF Owed, Bit
    <3>3. \A l \in DOMAIN Children(a) \ {k} : nod[a].step < l <=> k < l
      BY <1>1
    <3>4. nod[a].step < k /\ ~(k < k)
      BY <1>1
    <3> QED BY <3>1, <3>2, <3>3, <3>4
  <2>3. Kind(a) # "Parallel"
    BY <1>0
  <2> QED BY <1>0, <2>1, <2>2, <2>3, OpenCount
<1> QED BY <1>2, <1>3

\* A fork that forks keeps InvB.
LEMMA ForkB == ASSUME InvA, InvB, Flat(tree), InvA', ParallelFork PROVE InvB'
<1>0. /\ phase = "next" /\ at # None /\ Kind(at) = "Parallel" /\ ~nod[at].freeze /\ end' = end /\ phase' = "next"
      /\ NextUnchanged /\ BlackboardAppend(Children(at)) /\ at' = None /\ tree' = tree
      /\ visits' = visits /\ passed' = passed
  BY DEF ParallelFork, ForkWith, Advancing, NextUnchanged, history
<1> PICK a \in Nodes : a = at
  BY <1>0, HandFields
<1>1. /\ TypeOK /\ Slices /\ tree \in Trees /\ Flat(tree) /\ ActiveShape
      /\ Placed /\ Progress /\ Waits /\ Settled /\ Count /\ ~end /\ ~end'
  BY <1>0, ContextB
<1>2. TypeOK' /\ Slices' /\ ActiveShape'
  BY <1>0, ContextNext
<1>3. PICK h \in DOMAIN Active : Active[h] = a /\ h = Len(open) + 1
  BY <1>0, <1>1, InHand
<1>4. Alone /\ Len(Active) = 1 /\ h = 1
  BY <1>0, <1>1, <1>3, BeforeFork
<1>5. Executed(1)
  <2>1. h > Len(open)
    BY <1>1, <1>3, SliceTypes
  <2> QED BY <1>0, <1>1, <1>3, <1>4, <2>1, InHand
<1>6. Active' = Children(a) /\ Active[1] = a /\ \A j \in DOMAIN Children(a) : ~Executed(j)'
  BY <1>0, <1>1, <1>2, <1>4, ForkMoves
<1>7. Forks(a)
  BY ForkForks
<1> QED BY <1>0, <1>1, <1>2, <1>4, <1>5, <1>6, <1>7, ForkCount DEF InvB

\* A branch that joins keeps InvB.
LEMMA JoinB == ASSUME InvA, InvB, Flat(tree), InvA', ParallelJoin PROVE InvB'
<1>0. /\ phase = "next" /\ at # None /\ Kind(at) = "Parallel" /\ nod[at].freeze /\ end' = end /\ phase' = "next"
      /\ NextUnchanged /\ nod' = [nod EXCEPT ![at].threadNumber = @ + 1] /\ tree' = tree
      /\ visits' = visits /\ passed' = passed
  BY DEF ParallelJoin, JoinWhen, Advancing, NextUnchanged, history
<1> PICK a \in Nodes : a = at
  BY <1>0, HandFields
<1>1. CASE nod[at].threadNumber + 1 >= Len(Children(at))
  <2>1. CallParent
    BY <1>1 DEF ParallelJoin, JoinWhen
  <2>2. Done(a) /\ \A k \in DOMAIN Children(a) : Owed(a, k) = 0
    BY <1>0 DEF Done, Owed, Bit
  <2> QED BY <1>0, <1>1, <2>1, <2>2, UpCount
<1>2. CASE ~(nod[at].threadNumber + 1 >= Len(Children(at)))
  <2>0. at' = None /\ UNCHANGED <<open, nods>>
    BY <1>2 DEF ParallelJoin, JoinWhen
  <2>1. /\ TypeOK /\ Slices /\ tree \in Trees /\ Flat(tree) /\ ActiveShape
        /\ Placed /\ Progress /\ Waits /\ Settled /\ Count /\ ~end /\ ~end'
    BY <1>0, ContextB
  <2>2. TypeOK' /\ Slices' /\ ActiveShape'
    BY <1>0, ContextNext
  <2>3. PICK h \in DOMAIN Active : Active[h] = a /\ h = Len(open) + 1
    BY <1>0, <2>1, InHand
  <2>4. Executed(h)
    <3>1. h > Len(open)
      BY <2>1, <2>3, SliceTypes
    <3> QED BY <1>0, <2>1, <3>1, InHand
  <2>5. Returns(a)
    BY <1>0, UpReturns
  <2>6. /\ Len(Active') = Len(Active) - 1
        /\ \A j \in DOMAIN Active' :
            /\ Skip(h, j) \in DOMAIN Active /\ Skip(h, j) # h
            /\ Active'[j] = Active[Skip(h, j)] /\ (Executed(j)' <=> Executed(Skip(h, j)))
    BY <1>0, <2>0, <2>1, <2>2, <2>3, DropMoves
  <2> QED BY <1>0, <2>1, <2>2, <2>3, <2>4, <2>5, <2>6, StayCount DEF InvB
<1> QED BY <1>1, <1>2

\* The root keeps InvB.
LEMMA RootB == ASSUME InvA, InvB, Flat(tree), InvA', RootNext PROVE InvB'
<1>0. /\ phase = "next" /\ at # None /\ Kind(at) = "Root" /\ NextUnchanged /\ tree' = tree /\ phase' = "next"
      /\ visits' = visits /\ passed' = passed
  BY DEF RootNext, Advancing, NextUnchanged, history
<1>1. /\ TypeOK /\ Slices /\ tree \in Trees /\ Flat(tree) /\ ActiveShape
      /\ Placed /\ Progress /\ Waits /\ Settled /\ Count /\ ~end
  BY <1>0, ContextB
<1>2. at \in Nodes /\ nod \in [Nodes -> NodeFields] /\ ~nod[at].waiting
  BY <1>0, HandFields
<1>3. CASE CanDescend
  <2>1. OpenChild(1) /\ nod' = [nod EXCEPT ![at].freeze = TRUE] /\ end' = end
    BY <1>3 DEF RootNext, Descend
  <2>2. Only(nod', nod, at, {"freeze"}) /\ nod'[at].freeze
    BY <1>2, <2>1, SetFreeze
  <2>3. ~nod'[at].waiting
    BY <1>2, <2>2 DEF Only, But
  <2> QED BY <1>0, <1>3, <2>1, <2>2, <2>3, DescendCount
<1>4. CASE ~CanDescend
  <2>1. end' /\ at' = None /\ nod' = nod /\ UNCHANGED <<open, nods>>
    BY <1>4 DEF RootNext
  <2>2. TypeOK' /\ Slices' /\ ActiveShape'
    BY <1>0, ContextNext
  <2> PICK a \in Nodes : a = at
    BY <1>2
  <2>3. PICK h \in DOMAIN Active : Active[h] = a /\ h = Len(open) + 1
    BY <1>0, <1>1, InHand
  <2>4. a = tree.root
    BY <1>0, <1>1, TreeFacts
  <2>5. Len(Active) = 1 /\ h = 1
    <3>1. \A p \in Nodes : ~Forked(p)
      BY <1>1, <2>3, <2>4, ForkedHand
    <3>2. Len(Active) = 1
      BY <1>1, <3>1 DEF Placed, Alone
    <3> QED BY <1>1, <3>2 DEF ActiveShape
  <2>6. Executed(1)
    <3>1. h > Len(open)
      BY <1>1, <2>3, SliceTypes
    <3> QED BY <1>0, <1>1, <2>3, <2>5, <3>1, InHand
  <2>7. Len(Active') = 0
    BY <1>0, <1>1, <2>1, <2>2, <2>5, EndMoves
  <2>8. nod[a].freeze \/ Children(a) = <<>>
    BY <1>4 DEF CanDescend
  <2> QED BY <1>0, <1>1, <2>1, <2>2, <2>3, <2>5, <2>6, <2>7, <2>8, EndCount DEF InvB
<1> QED BY <1>3, <1>4

-----------------------------------------------------------------------------
(* The whole. *)

\* Every onNext keeps InvB.
LEMMA OnNextB == ASSUME InvA, InvB, Flat(tree), InvA', OnNext PROVE InvB'
<1>1. CASE RootNext
  BY <1>1, RootB
<1>2. CASE ScriptNext
  <2>0. phase = "next" /\ at # None /\ Kind(at) = "Script" /\ NextUnchanged /\ end' = end
    BY <1>2 DEF ScriptNext, Advancing
  <2>1. at \in Nodes /\ nod \in [Nodes -> NodeFields] /\ ~nod[at].waiting
    BY <2>0, HandFields
  <2>2. CASE CanDescend
    <3>1. OpenChild(1) /\ nod' = [nod EXCEPT ![at].freeze = TRUE]
      BY <1>2, <2>2 DEF ScriptNext, Descend
    <3>2. Only(nod', nod, at, {"freeze"}) /\ nod'[at].freeze
      BY <2>1, <3>1, SetFreeze
    <3>3. ~nod'[at].waiting
      BY <2>1, <3>2 DEF Only, But
    <3> QED BY <2>0, <2>2, <3>1, <3>2, <3>3, DescendCount
  <2>3. CASE ~CanDescend
    <3>1. Done(at) /\ \A k \in DOMAIN Children(at) : Owed(at, k) = 0
      BY <2>0, <2>3 DEF Done, Owed, Bit, CanDescend
    <3> QED BY <1>2, <2>0, <2>3, <3>1, UpCount DEF ScriptNext
  <2> QED BY <2>2, <2>3
<1>3. CASE ConditionNext
  <2>0. phase = "next" /\ at # None /\ Kind(at) = "Condition" /\ NextUnchanged /\ end' = end
    BY <1>3 DEF ConditionNext, Advancing
  <2>1. at \in Nodes /\ nod \in [Nodes -> NodeFields] /\ ~nod[at].waiting
    BY <2>0, HandFields
  <2>2. CASE CanDescend /\ nod[at].succ
    <3>1. OpenChild(1) /\ nod' = [nod EXCEPT ![at].freeze = TRUE]
      BY <1>3, <2>2 DEF ConditionNext, Descend
    <3>2. Only(nod', nod, at, {"freeze"}) /\ nod'[at].freeze
      BY <2>1, <3>1, SetFreeze
    <3>3. ~nod'[at].waiting
      BY <2>1, <3>2 DEF Only, But
    <3> QED BY <2>0, <2>2, <3>1, <3>2, <3>3, DescendCount
  <2>3. CASE ~(CanDescend /\ nod[at].succ)
    <3>1. Done(at) /\ \A k \in DOMAIN Children(at) : Owed(at, k) = 0
      BY <2>0, <2>3 DEF Done, Owed, Bit, CanDescend
    <3> QED BY <1>3, <2>0, <2>3, <3>1, UpCount DEF ConditionNext
  <2> QED BY <2>2, <2>3
<1>4. CASE WaitOver
  <2>0. phase = "next" /\ at # None /\ Kind(at) = "Wait" /\ NextUnchanged /\ end' = end
    BY <1>4 DEF WaitOver, Advancing
  <2>1. at \in Nodes /\ nod \in [Nodes -> NodeFields]
    BY <2>0, HandFields
  <2>2. CASE CanDescend
    <3>1. OpenChild(1) /\ nod' = [nod EXCEPT ![at].freeze = TRUE, ![at].waiting = FALSE]
      BY <1>4, <2>2 DEF WaitOver
    <3>2. Only(nod', nod, at, {"freeze", "waiting"}) /\ nod'[at].freeze /\ ~nod'[at].waiting
      BY <2>1, <3>1, SetBoth
    <3> QED BY <2>0, <2>2, <3>1, <3>2, DescendCount
  <2>3. CASE ~CanDescend
    <3>0. nod[at].freeze => ~nod[at].waiting
      BY <2>0, <2>1, ContextB DEF Waits, Reset
    <3>1. Done(at) /\ \A k \in DOMAIN Children(at) : Owed(at, k) = 0
      BY <2>0, <2>3, <3>0 DEF Done, Owed, Bit, CanDescend
    <3> QED BY <1>4, <2>0, <2>3, <3>1, UpCount DEF WaitOver
  <2> QED BY <2>2, <2>3
<1> QED BY <1>1, <1>2, <1>3, <1>4, WaitAgainB, LoopB, StepB, ForkB, JoinB DEF OnNext

\* Between the handlers nothing is executed or opened.
LEMMA QuietB ==
  ASSUME InvA, InvB, Flat(tree), InvA', DoBegin \/ TickEnd \/ RangeNext \/ (DoEnd /\ phase' = "idle")
  PROVE  InvB'
<1>1. /\ tree' = tree /\ nod' = nod /\ end' = end /\ visits' = visits /\ passed' = passed
      /\ phase \in {"idle", "tick", "next"}
  BY DEF DoBegin, TickEnd, RangeNext, DoEnd, blackboard, history
<1>2. TypeOK /\ Slices /\ tree \in Trees /\ Settled /\ Count /\ TypeOK'
  BY <1>1, ContextB DEF InvA
<1>3. Active' = Active /\ \A j \in DOMAIN Active : Executed(j)' <=> Executed(j)
  BY <1>2, QuietMoves
<1> QED BY <1>1, <1>2, <1>3, QuietCount DEF InvB

\* A node is ticked: it has been asked for, and now asks for its children.
LEMMA TickB ==
  ASSUME InvA, InvB, Flat(tree), InvA', NEW n \in Nodes, NEW K, Ticking(n, K), NEW r, StateCheck(n, r),
         \A m \in Nodes \ {n} : nod'[m] = nod[m], But(nod'[n], nod[n], {"succ", "waiting"}),
         nod'[n].waiting <=> nod[n].waiting \/ Kind(n) = "Wait",
         visits' = IF nod[n].waiting THEN visits ELSE [visits EXCEPT ![n] = @ + 1],
         passed' = IF Kind(n) = "Condition" /\ nod'[n].succ THEN [passed EXCEPT ![n] = @ + 1] ELSE passed
  PROVE  InvB'
<1>1. /\ tree' = tree /\ end' = end /\ phase = "tick" /\ phase' \in {"tick", "ended"}
  BY DEF Ticking, StateCheck, blackboard
<1>2. /\ TypeOK /\ Slices /\ tree \in Trees /\ Flat(tree) /\ ActiveShape
      /\ Placed /\ Progress /\ Waits /\ Settled /\ Count /\ TypeOK'
  BY <1>1, ContextB DEF InvA
<1>3. /\ ~end /\ ~end'
      /\ i \in DOMAIN Active /\ Active[i] = n /\ ~Executed(i)
      /\ phase' = "tick" => Active' = Active
      /\ \A j \in DOMAIN Active :
              /\ ~HandAt(j) /\ ~HandAt(j)'
              /\ phase' = "tick" => (Executed(j)' <=> Executed(j) \/ j = i)
  BY <1>2, TickMoves
<1>4. Kind(n) # "Wait" => ~nod[n].waiting
  BY TickFields
<1>5. CASE phase' = "tick"
  <2> PICK q \in DOMAIN Active : q = i
    BY <1>3
  <2>1. Count' /\ Settled'
    BY <1>1, <1>2, <1>3, <1>4, <1>5, TickCount
  <2> QED BY <2>1 DEF InvB
<1>6. CASE phase' = "ended"
  BY <1>3, <1>6 DEF InvB, Live
<1> QED BY <1>1, <1>5, <1>6

\* Every onTick keeps InvB.
LEMMA OnTickB ==
  ASSUME InvA, InvB, Flat(tree), InvA', NEW n \in Nodes,
         ScriptTick(n) \/ ConditionTick(n) \/ WaitTick(n) \/ SelectorTick(n) \/ PlainTick(n)
  PROVE  InvB'
<1>0. nod \in [Nodes -> NodeFields]
  BY DEF InvA, TypeOK
<1>1. CASE ScriptTick(n)
  <2>1. /\ nod' = nod /\ Ticking(n, {"Script"}) /\ \E r \in Results : StateCheck(n, r)
        /\ visits' = [visits EXCEPT ![n] = @ + 1] /\ passed' = passed
    BY <1>1 DEF ScriptTick, Visit
  <2>2. Kind(n) = "Script" /\ ~nod[n].waiting
    BY <2>1, TickFields DEF Ticking
  <2> QED BY <2>1, <2>2, TickB DEF But
<1>2. CASE ConditionTick(n)
  <2>1. PICK s \in BOOLEAN :
          /\ nod' = [nod EXCEPT ![n].succ = s] /\ Ticking(n, {"Condition"}) /\ StateCheck(n, "Succ")
          /\ visits' = [visits EXCEPT ![n] = @ + 1]
          /\ passed' = IF s THEN [passed EXCEPT ![n] = @ + 1] ELSE passed
    BY <1>2 DEF ConditionTick, Visit
  <2>2. Kind(n) = "Condition" /\ ~nod[n].waiting
    BY <2>1, TickFields DEF Ticking
  <2>3. Only(nod', nod, n, {"succ"}) /\ nod'[n].succ = s
    BY <1>0, <2>1, SetSucc
  <2>4. But(nod'[n], nod[n], {"succ", "waiting"}) /\ nod'[n].waiting = nod[n].waiting
    BY <2>3 DEF Only, But
  <2> QED BY <2>1, <2>2, <2>3, <2>4, TickB DEF Only
<1>3. CASE WaitTick(n)
  <2>1. /\ nod' = [nod EXCEPT ![n].waiting = TRUE] /\ Ticking(n, {"Wait"}) /\ StateCheck(n, "Succ")
        /\ visits' = IF nod[n].waiting THEN visits ELSE [visits EXCEPT ![n] = @ + 1]
        /\ passed' = passed
    BY <1>3 DEF WaitTick, Visit
  <2>2. Kind(n) = "Wait"
    BY <2>1 DEF Ticking
  <2>3. Only(nod', nod, n, {"waiting"}) /\ nod'[n].waiting
    BY <1>0, <2>1, SetWaiting
  <2>4. But(nod'[n], nod[n], {"succ", "waiting"})
    BY <2>3 DEF Only, But
  <2> QED BY <2>1, <2>2, <2>3, <2>4, TickB DEF Only
<1>4. CASE SelectorTick(n)
  <2>1. Ticking(n, {"Selector"})
    BY <1>4 DEF SelectorTick
  <2>2. nod[n].step = 0 /\ ~nod[n].waiting /\ Kind(n) = "Selector"
    BY <2>1, TickFields DEF Reset, Ticking
  <2>3. /\ nod' = nod /\ StateCheck(n, "Succ") /\ visits' = [visits EXCEPT ![n] = @ + 1]
        /\ passed' = passed
    BY <1>4, <2>2 DEF SelectorTick, Visit
  <2> QED BY <2>1, <2>2, <2>3, TickB DEF But
<1>5. CASE PlainTick(n)
  <2>1. /\ nod' = nod /\ Ticking(n, {"Root", "Sequence", "Loop", "Parallel"}) /\ StateCheck(n, "Succ")
        /\ visits' = [visits EXCEPT ![n] = @ + 1] /\ passed' = passed
    BY <1>5 DEF PlainTick, Visit
  <2>2. Kind(n) \notin {"Wait", "Condition"} /\ ~nod[n].waiting
    BY <2>1, TickFields DEF Ticking
  <2> QED BY <2>1, <2>2, TickB DEF But
<1> QED BY <1>1, <1>2, <1>3, <1>4, <1>5

\* The end of Do keeps InvB.
LEMMA EndB == ASSUME InvA, InvB, Flat(tree), InvA', DoEnd, phase' = "ended" PROVE InvB'
<1>1. /\ tree' = tree /\ nod' = nod /\ end' = end /\ visits' = visits /\ passed' = passed /\ phase = "next"
  BY DEF DoEnd, blackboard
<1>2. /\ TypeOK /\ tree \in Trees /\ ActiveShape /\ Placed /\ Settled /\ Count /\ TypeOK'
  BY <1>1, ContextB DEF InvA
<1>3. ASSUME end PROVE Count' /\ Settled'
  <2>1. Len(Active) = 0
    BY <1>2, <1>3 DEF Placed, Alone, Forked
  <2>2. Active = <<>> /\ DOMAIN Active = {}
    BY <1>2, <2>1 DEF ActiveShape
  <2>3. Active' = <<>>
    BY DEF Active
  <2> QED BY <1>1, <1>2, <2>2, <2>3, QuietCount
<1> QED BY <1>1, <1>3 DEF InvB, Live

\* ... also after a step.
LEMMA StartCountNext ==
  TypeOK' /\ Start' /\ visits' = Zero(tree') /\ passed' = Zero(tree') => Count' /\ Settled'
<1>1. TypeOK /\ Start /\ visits = Zero(tree) /\ passed = Zero(tree) => Count /\ Settled
  BY StartCount
<1>2. (TypeOK /\ Start /\ visits = Zero(tree) /\ passed = Zero(tree))' => Count' /\ Settled'
  BY <1>1, PTL
<1> QED BY <1>2

\* The next bot begins with nothing executed and nothing owed.
LEMMA NewBotB == ASSUME InvA, InvB, Flat(tree), InvA', NewBot PROVE InvB'
<1>1. /\ tree' = tree /\ nod' = nod /\ ~end' /\ at' = at /\ open' = <<tree.root>>
      /\ phase = "pooled" /\ phase' = "idle" /\ visits' = Zero(tree) /\ passed' = Zero(tree)
  BY DEF NewBot
<1>2. Slices /\ tree \in Trees /\ (\A n \in Nodes : Reset(n) /\ ~nod[n].waiting) /\ TypeOK'
  BY <1>1 DEF InvA, TypeOK
<1>4. (Active = <<tree.root>>)' /\ Hand' = 0 /\ \A j \in DOMAIN Active' : ~Executed(j)'
  BY <1>1 DEF Active, Hand, Executed
<1>5. \A n \in Nodes : Reset(n)' /\ ~nod'[n].waiting
  BY <1>1, <1>2, EqualFacts
<1>6. Start'
  BY <1>1, <1>2, <1>4, <1>5, SameTree DEF Start
<1> QED BY <1>1, <1>2, <1>6, StartCountNext DEF InvB

\* InvB holds of a bot that begins.
LEMMA InitInvB == Init /\ Flat(tree) => InvB
<1> SUFFICES ASSUME Init, Flat(tree) PROVE InvB
  OBVIOUS
<1>1. InvA
  BY InitInvA
<1>2. Start /\ visits = Zero(tree) /\ passed = Zero(tree)
  <2>1. \A n \in Nodes : Reset(n) /\ ~nod[n].waiting
    BY InitFresh
  <2> QED BY <2>1 DEF Init, Start, Active, Hand, Executed
<1> QED BY <1>1, <1>2, StartCount DEF InvA, InvB

\* InvB is inductive, relative to InvA.
LEMMA NextInvB == InvA /\ InvB /\ Flat(tree) /\ InvA' /\ [Next]_vars => InvB'
<1> SUFFICES ASSUME InvA, InvB, Flat(tree), InvA', [Next]_vars PROVE InvB'
  OBVIOUS
<1>1. CASE UNCHANGED vars
  <2>1. /\ tree' = tree /\ nod' = nod /\ end' = end /\ phase' = phase /\ nods' = nods /\ open' = open
        /\ i' = i /\ at' = at /\ visits' = visits /\ passed' = passed
    BY <1>1 DEF vars, blackboard, local, history
  <2>2. Hand' = Hand /\ \A j : (HandAt(j)' <=> HandAt(j)) /\ (Executed(j)' <=> Executed(j))
    BY <2>1 DEF Hand, HandAt, Executed
  <2>3. Active' = Active /\ (Live' <=> Live)
    BY <2>1, <2>2 DEF Active, Live
  <2>4. TypeOK /\ TypeOK' /\ tree \in Trees
    BY DEF InvA, TypeOK
  <2> QED BY <2>1, <2>2, <2>3, <2>4, QuietCount DEF InvB
<1>2. CASE OnTick
  BY <1>2, OnTickB DEF OnTick
<1>3. CASE DoEnd
  BY <1>3, EndB, QuietB DEF DoEnd
<1>4. CASE Close
  BY <1>4 DEF Close, InvB, Live
<1> QED BY <1>1, <1>2, <1>3, <1>4, QuietB, OnNextB, NewBotB DEF Next, Do

\* At the end nothing is to come and nothing is owed.
LEMMA CountExact == InvA /\ InvB => VisitsExact
<1> SUFFICES ASSUME InvA, InvB, end, phase = "ended"
             PROVE  /\ visits[tree.root] = 1
                    /\ \A p \in Nodes : \A k \in DOMAIN Children(p) : visits[Children(p)[k]] = Asked(p, k)
  BY DEF VisitsExact
<1>1. TypeOK /\ Waits /\ Settled /\ Count /\ tree \in Trees
  BY DEF InvA, InvB, Live, TypeOK
<1>2. Active = <<>>
  BY DEF Active
<1>3. \A n \in Nodes : ~InRound(n) /\ ~Pending(n) /\ ~nod[n].waiting /\ Done(n)
  BY <1>1, <1>2 DEF InRound, Awaits, Pending, Waits, Busy, Settled
<1>4. visits \in [Nodes -> Nat] /\ tree.root \in Nodes
  BY <1>1, TreeFacts DEF TypeOK
<1>5. visits[tree.root] = 1
  BY <1>1, <1>3, <1>4 DEF Count, Bit
<1>6. ASSUME NEW p \in Nodes, NEW k \in DOMAIN Children(p) PROVE visits[Children(p)[k]] = Asked(p, k)
  <2> PICK d \in Nodes : d = Children(p)[k]
    BY <1>1, TreeFacts
  <2>1. visits[d] + Bit(Pending(d)) + Owed(p, k) = Asked(p, k)
    BY <1>1 DEF Count
  <2>2. Owed(p, k) = 0
    BY <1>1, <1>3, OwedNone
  <2>3. visits[d] + 0 + 0 = Asked(p, k)
    BY <2>1, <2>2, <1>3 DEF Bit
  <2> QED BY <1>4, <2>3
<1> QED BY <1>5, <1>6

-----------------------------------------------------------------------------
(* Thread numbers. *)

\* Of two nodes above a third one is above the other.
LEMMA Chain ==
  ASSUME tree \in Trees, NEW a \in Nodes, NEW b \in Nodes, NEW n \in Nodes,
         n \in Subtree(a), n \in Subtree(b)
  PROVE  a \in Subtree(b) \/ b \in Subtree(a)
<1> DEFINE S == {x \in Nodes : x \in Subtree(a) /\ x \in Subtree(b) => a \in Subtree(b) \/ b \in Subtree(a)}
<1>1. tree.root \in S
  <2>1. tree.root \in Nodes
    BY TreeFacts
  <2>2. tree.root \in Subtree(a) /\ tree.root \in Subtree(b) => a = tree.root /\ b = tree.root
    BY ParentInside
  <2> QED BY <2>1, <2>2
<1>2. ASSUME NEW x \in S, NEW k \in DOMAIN Children(x) PROVE Children(x)[k] \in S
  <2> PICK c \in Nodes : c = Children(x)[k]
    BY TreeFacts
  <2>1. c \in ChildSet(x)
    BY DEF ChildSet
  <2>2. ASSUME c \in Subtree(a), c \in Subtree(b) PROVE a \in Subtree(b) \/ b \in Subtree(a)
    <3>1. c = a \/ x \in Subtree(a)
      BY <2>1, <2>2, OpenStays
    <3>2. c = b \/ x \in Subtree(b)
      BY <2>1, <2>2, OpenStays
    <3> QED BY <2>2, <3>1, <3>2
  <2> QED BY <2>2
<1>3. ClosedSet(S)
  BY <1>2 DEF ClosedSet
<1>4. S = Nodes
  BY <1>1, <1>3, FromRoot
<1> QED BY <1>4

(***************************************************************************)
(* The thread numbers of the nodes: 1 for the root, one of its own for each *)
(* child of a parallel node that has forked, also when a loop has reset the *)
(* parallel node since, and none for other nodes (that of a parallel node   *)
(* counts the branches that have joined).                                   *)
(***************************************************************************)
Branches(p) ==
  \/ ~nod[p].freeze /\ \A c \in ChildSet(p) : nod[c].threadNumber = 0
  \/ \A c \in ChildSet(p) :
       /\ nod[c].threadNumber > 0
       /\ mode = "Step" => nod[c].threadNumber <= threads
       /\ \A d \in ChildSet(p) : nod[c].threadNumber = nod[d].threadNumber => c = d

Numbers ==
  /\ nod[tree.root].threadNumber = 1 /\ threads >= 1
  /\ \A n \in Nodes \ Parallels : n # tree.root /\ Parent(n) \notin Parallels => nod[n].threadNumber = 0
  /\ \A p \in Parallels : Branches(p)
  /\ phase = "pooled" => mode = "Thread"

\* No child of a fork is a fork, so its thread number counts no branches.
LEMMA PlainChildren ==
  ASSUME tree \in Trees, Flat(tree), NEW p \in Parallels, NEW c \in ChildSet(p)
  PROVE  c \in Nodes \ Parallels
<1>1. c \in Below(p)
  BY ChildFacts DEF Parallels
<1> QED BY <1>1, FlatFacts DEF Parallels

\* A step that leaves the numbers and forks nothing.
LEMMA NumbersKeep ==
  ASSUME tree \in Trees, Flat(tree), tree' = tree, mode' = mode, Numbers,
         threads \in Nat, threads' \in Nat, threads' >= 1, mode = "Step" => threads' >= threads,
         nod \in [Nodes -> NodeFields],
         \A n \in Nodes \ Parallels : nod'[n].threadNumber = nod[n].threadNumber,
         \A p \in Parallels : nod'[p].freeze => nod[p].freeze,
         phase' = "pooled" => phase = "pooled" \/ mode = "Thread"
  PROVE  Numbers'
<1>1. tree.root \in Nodes \ Parallels
  BY TreeFacts DEF Parallels
<1>2. ASSUME NEW p \in Parallels PROVE Branches(p)'
  <2>1. ASSUME NEW c \in ChildSet(p)
        PROVE  nod'[c].threadNumber = nod[c].threadNumber /\ nod[c].threadNumber \in Nat
    BY <2>1, PlainChildren, FieldTypes
  <2>2. Branches(p)
    BY DEF Numbers
  <2>3. CASE ~nod[p].freeze /\ \A c \in ChildSet(p) : nod[c].threadNumber = 0
    BY <2>1, <2>3, SameTree DEF Branches
  <2>4. CASE \A c \in ChildSet(p) :
       /\ nod[c].threadNumber > 0
       /\ mode = "Step" => nod[c].threadNumber <= threads
       /\ \A d \in ChildSet(p) : nod[c].threadNumber = nod[d].threadNumber => c = d
    <3>1. ASSUME NEW c \in ChildSet(p)
          PROVE  /\ nod'[c].threadNumber > 0
                 /\ mode' = "Step" => nod'[c].threadNumber <= threads'
                 /\ \A d \in ChildSet(p) : nod'[c].threadNumber = nod'[d].threadNumber => c = d
      <4>1. nod'[c].threadNumber > 0
        BY <2>1, <2>4
      <4>2. mode' = "Step" => nod'[c].threadNumber <= threads'
        BY <2>1, <2>4
      <4>3. \A d \in ChildSet(p) : nod'[c].threadNumber = nod'[d].threadNumber => c = d
        BY <2>1, <2>4
      <4> QED BY <4>1, <4>2, <4>3
    <3> QED BY <3>1, SameTree DEF Branches
  <2> QED BY <2>2, <2>3, <2>4 DEF Branches
<1>3. nod'[tree.root].threadNumber = 1
  BY <1>1 DEF Numbers
<1>4. \A n \in Nodes \ Parallels : n # tree.root /\ Parent(n) \notin Parallels => nod'[n].threadNumber = 0
  BY DEF Numbers
<1> QED BY <1>2, <1>3, <1>4, SameTree DEF Numbers

\* A fork gives its children the next free numbers, unless they have numbers already.
LEMMA ForkNumbers ==
  ASSUME TypeOK, tree \in Trees, Flat(tree), Numbers, ParallelFork, TypeOK'
  PROVE  Numbers'
<1>0. /\ phase = "next" /\ at # None /\ Kind(at) = "Parallel" /\ ~nod[at].freeze
      /\ tree' = tree /\ mode' = mode /\ phase' = "next" /\ threads' = threads + Len(Children(at))
  BY DEF ParallelFork, ForkWith, Advancing, NextUnchanged
<1>1. nod \in [Nodes -> NodeFields] /\ at \in Nodes /\ threads \in Nat
  BY <1>0 DEF TypeOK
<1> PICK a \in Parallels : a = at
  BY <1>0, <1>1 DEF Parallels
<1> DEFINE ix(n) == CHOOSE j \in DOMAIN Children(a) : Children(a)[j] = n
           g(n) == [j \in DOMAIN Children(a) |-> threads + j][ix(n)]
<1>2. nod' = [n \in Nodes |->
           IF n = a THEN [nod[n] EXCEPT !.freeze = TRUE]
           ELSE IF n \in ChildSet(a) /\ nod[n].threadNumber = 0
           THEN [nod[n] EXCEPT !.threadNumber = g(n)]
           ELSE nod[n]]
  BY DEF ParallelFork, ForkWith
<1>3. Children(a) \in Seq(Nodes) /\ a \in Nodes
  BY TreeFacts DEF Parallels
<1>4. PICK len \in Nat : len = Len(Children(a)) /\ DOMAIN Children(a) = 1 .. len
  BY <1>3
<1>5. ASSUME NEW c \in ChildSet(a)
      PROVE  /\ ix(c) \in 1 .. len /\ Children(a)[ix(c)] = c /\ g(c) = threads + ix(c) /\ c # a
             /\ c \in Nodes \ Parallels
  <2>1. \E j \in DOMAIN Children(a) : Children(a)[j] = c
    BY DEF ChildSet
  <2>2. ix(c) \in DOMAIN Children(a) /\ Children(a)[ix(c)] = c
    BY <2>1
  <2> QED BY <1>3, <1>4, <2>2, PlainChildren, ChildFacts
<1> HIDE DEF ix, g
<1>6. ASSUME NEW n \in Nodes, n \notin ChildSet(a)
      PROVE  nod'[n].threadNumber = nod[n].threadNumber /\ (n # a => nod'[n] = nod[n])
  BY <1>1, <1>2, <1>6 DEF NodeFields
<1>7. ASSUME NEW c \in ChildSet(a)
      PROVE  /\ nod[c].threadNumber \in Nat
             /\ nod'[c].threadNumber = IF nod[c].threadNumber = 0 THEN threads + ix(c) ELSE nod[c].threadNumber
  <2>1. nod[c].threadNumber \in Nat /\ nod[c] \in NodeFields
    BY <1>1, <1>5, FieldTypes
  <2>2. nod'[c] = IF nod[c].threadNumber = 0 THEN [nod[c] EXCEPT !.threadNumber = threads + ix(c)] ELSE nod[c]
    BY <1>2, <1>5
  <2> QED BY <2>1, <2>2 DEF NodeFields
<1>8. Branches(a)'
  <2>1. Branches(a)
    BY DEF Numbers
  <2>2. ASSUME NEW c \in ChildSet(a)
        PROVE  /\ nod'[c].threadNumber > 0
               /\ mode = "Step" => nod'[c].threadNumber <= threads'
               /\ \A d \in ChildSet(a) : nod'[c].threadNumber = nod'[d].threadNumber => c = d
    <3>1. CASE \A d \in ChildSet(a) : nod[d].threadNumber = 0
      <4>1. \A d \in ChildSet(a) : nod'[d].threadNumber = threads + ix(d)
        BY <1>7, <3>1
      <4>2. ix(c) \in 1 .. len
        BY <1>5
      <4>3. \A d \in ChildSet(a) : ix(d) = ix(c) => c = d
        BY <1>5
      <4>4. \A d \in ChildSet(a) : ix(d) \in Nat
        BY <1>5
      <4>5. nod'[c].threadNumber > 0 /\ nod'[c].threadNumber <= threads'
        BY <1>0, <1>1, <1>4, <4>1, <4>2
      <4>6. ASSUME NEW d \in ChildSet(a), nod'[c].threadNumber = nod'[d].threadNumber PROVE c = d
        <5>1. threads + ix(c) = threads + ix(d)
          BY <4>1, <4>6
        <5>2. ix(c) = ix(d)
          BY <1>1, <4>4, <5>1
        <5> QED BY <4>3, <5>2
      <4> QED BY <4>5, <4>6
    <3>2. CASE ~(\A d \in ChildSet(a) : nod[d].threadNumber = 0)
      <4>1. \A d \in ChildSet(a) :
               /\ nod[d].threadNumber > 0
               /\ mode = "Step" => nod[d].threadNumber <= threads
               /\ \A e \in ChildSet(a) : nod[d].threadNumber = nod[e].threadNumber => d = e
        BY <2>1, <3>2 DEF Branches
      <4>2. \A d \in ChildSet(a) : nod'[d].threadNumber = nod[d].threadNumber
        BY <1>7, <4>1
      <4>3. mode = "Step" => nod'[c].threadNumber <= threads'
        BY <1>0, <1>1, <1>4, <1>7, <4>1, <4>2
      <4> QED BY <4>1, <4>2, <4>3
    <3> QED BY <3>1, <3>2
  <2> QED BY <1>0, <2>2, SameTree DEF Branches
<1>9. ASSUME NEW p \in Parallels, p # a PROVE Branches(p)'
  <2>1. Branches(p) /\ nod'[p] = nod[p]
    <3>1. p \notin ChildSet(a) /\ p \in Nodes
      BY <1>5 DEF Parallels
    <3> QED BY <1>6, <1>9, <3>1 DEF Numbers
  <2>2. ASSUME NEW c \in ChildSet(p)
        PROVE  nod'[c].threadNumber = nod[c].threadNumber /\ nod[c].threadNumber \in Nat
    <3>1. c \in Nodes /\ Parent(c) = p
      BY ChildFacts DEF Parallels
    <3>2. c \notin ChildSet(a)
      BY <1>3, <1>9, <3>1, ChildFacts
    <3> QED BY <1>1, <1>6, <3>1, <3>2, FieldTypes
  <2>3. \A c \in ChildSet(p) : nod[c].threadNumber <= threads => nod[c].threadNumber <= threads'
    BY <1>0, <1>1, <1>4, <2>2
  <2>4. CASE ~nod[p].freeze /\ \A c \in ChildSet(p) : nod[c].threadNumber = 0
    BY <1>0, <2>1, <2>2, <2>4, SameTree DEF Branches
  <2>5. CASE ~(~nod[p].freeze /\ \A c \in ChildSet(p) : nod[c].threadNumber = 0)
    <3>1. \A c \in ChildSet(p) :
            /\ nod'[c].threadNumber > 0
            /\ mode = "Step" => nod'[c].threadNumber <= threads'
            /\ \A d \in ChildSet(p) : nod'[c].threadNumber = nod'[d].threadNumber => c = d
      <4> TAKE c \in ChildSet(p)
      <4>1. /\ nod[c].threadNumber > 0
            /\ mode = "Step" => nod[c].threadNumber <= threads
            /\ \A d \in ChildSet(p) : nod[c].threadNumber = nod[d].threadNumber => c = d
        BY <2>1, <2>5 DEF Branches
      <4> QED BY <2>2, <2>3, <4>1
    <3> QED BY <1>0, <3>1, SameTree DEF Branches
  <2> QED BY <2>4, <2>5
<1>10. nod'[tree.root].threadNumber = 1
  <2>1. tree.root \in Nodes /\ tree.root \notin ChildSet(a)
    BY <1>3, TreeFacts, ChildFacts
  <2> QED BY <1>6, <2>1 DEF Numbers
<1>11. \A n \in Nodes \ Parallels : n # tree.root /\ Parent(n) \notin Parallels => nod'[n].threadNumber = 0
  <2> TAKE n \in Nodes \ Parallels
  <2>1. Parent(n) \notin Parallels => n \notin ChildSet(a)
    BY <1>3, ChildFacts
  <2> QED BY <1>6, <2>1 DEF Numbers
<1>12. threads' >= 1
  BY <1>0, <1>1, <1>4 DEF Numbers
<1> QED BY <1>0, <1>8, <1>9, <1>10, <1>11, <1>12, SameTree DEF Numbers

\* The numbers are kept, but for those of parallel nodes, and no parallel node is frozen.
Keeps ==
  /\ \A n \in Nodes \ Parallels : nod'[n].threadNumber = nod[n].threadNumber
  /\ \A p \in Parallels : nod'[p].freeze => nod[p].freeze

\* An assignment to other fields keeps the numbers.
LEMMA OnlyKeeps ==
  ASSUME NEW a \in Nodes, NEW F, Only(nod', nod, a, F),
         "threadNumber" \notin F \/ Kind(a) = "Parallel", "freeze" \notin F \/ Kind(a) # "Parallel"
  PROVE  Keeps
BY DEF Only, But, Keeps, Parallels

\* onReset keeps all numbers but those of forks.
LEMMA ResetKeeps ==
  ASSUME NEW S, nod' = AfterReset(S)
  PROVE  Keeps
<1>1. ASSUME NEW n \in Nodes, n \in S
      PROVE  ~nod'[n].freeze /\ (Kind(n) # "Parallel" => nod'[n].threadNumber = nod[n].threadNumber)
  <2>1. nod'[n] = ResetNode(n)
    BY <1>1 DEF AfterReset
  <2> QED BY <2>1 DEF ResetNode, FreshNode
<1>2. ASSUME NEW n \in Nodes, n \notin S PROVE nod'[n] = nod[n]
  BY <1>2 DEF AfterReset
<1> QED BY <1>1, <1>2 DEF Keeps, Parallels

\* A loop keeps the numbers, although it resets what is below it.
LEMMA LoopKeeps ==
  ASSUME TypeOK, tree \in Trees, at \in Nodes, LoopNext
  PROVE  Keeps
<1>0. nod \in [Nodes -> NodeFields] /\ Kind(at) = "Loop"
  BY DEF TypeOK, LoopNext, LoopWhile, Advancing
<1>1. CASE nod' = nod
  BY <1>1 DEF Keeps
<1>2. CASE nod' = [AfterReset(Subtree(at) \ {at}) EXCEPT ![at].curLoop = @ + 1]
  <2> DEFINE r == AfterReset(Subtree(at) \ {at})
  <2>1. r \in [Nodes -> NodeFields]
    BY ResetTypes
  <2>2. ASSUME NEW n \in Nodes
        PROVE  /\ r[n].freeze => nod[n].freeze
               /\ Kind(n) # "Parallel" => r[n].threadNumber = nod[n].threadNumber
    <3>1. CASE n \in Subtree(at) \ {at}
      <4>1. r[n] = ResetNode(n)
        BY <3>1 DEF AfterReset
      <4> QED BY <4>1 DEF ResetNode, FreshNode
    <3>2. CASE n \notin Subtree(at) \ {at}
      BY <3>2 DEF AfterReset
    <3> QED BY <3>1, <3>2
  <2> HIDE DEF r
  <2>3. nod' = [r EXCEPT ![at].curLoop = @ + 1]
    BY <1>2 DEF r
  <2>4. Only(nod', r, at, {"curLoop"})
    BY <2>1, <2>3, SetCurLoop
  <2>5. \A n \in Nodes : nod'[n].freeze = r[n].freeze /\ nod'[n].threadNumber = r[n].threadNumber
    BY <2>4 DEF Only, But
  <2> QED BY <2>2, <2>5 DEF Keeps, Parallels
<1> QED BY <1>1, <1>2 DEF LoopNext, LoopWhile

\* So does every onNext but that of a fork.
LEMMA OnNextKeeps ==
  ASSUME TypeOK, tree \in Trees, OnNext, ~ParallelFork
  PROVE  Keeps
<1>1. at \in Nodes /\ nod \in [Nodes -> NodeFields]
  BY DEF TypeOK, OnNext, RootNext, ScriptNext, ConditionNext, WaitOver, WaitAgain, LoopNext, LoopWhile,
         StepNext, ParallelFork, ForkWith, ParallelJoin, JoinWhen, Advancing
<1>2. CASE nod' = nod
  BY <1>2 DEF Keeps
<1>3. CASE nod' = [nod EXCEPT ![at].freeze = TRUE] /\ Kind(at) # "Parallel"
  <2>1. Only(nod', nod, at, {"freeze"})
    BY <1>1, <1>3, SetFreeze
  <2> QED BY <1>1, <1>3, <2>1, OnlyKeeps
<1>4. CASE nod' = [nod EXCEPT ![at].freeze = TRUE, ![at].waiting = FALSE] /\ Kind(at) # "Parallel"
  <2>1. Only(nod', nod, at, {"freeze", "waiting"})
    BY <1>1, <1>4, SetBoth
  <2> QED BY <1>1, <1>4, <2>1, OnlyKeeps
<1>5. CASE nod' = [nod EXCEPT ![at].waiting = FALSE]
  <2>1. Only(nod', nod, at, {"waiting"})
    BY <1>1, <1>5, SetWaiting
  <2> QED BY <1>1, <2>1, OnlyKeeps
<1>6. CASE nod' = [nod EXCEPT ![at].step = @ + 1]
  <2>1. Only(nod', nod, at, {"step"})
    BY <1>1, <1>6, SetStep
  <2> QED BY <1>1, <2>1, OnlyKeeps
<1>7. CASE nod' = [nod EXCEPT ![at].threadNumber = @ + 1] /\ Kind(at) = "Parallel"
  <2>1. Only(nod', nod, at, {"threadNumber"})
    BY <1>1, <1>7, SetNumber
  <2> QED BY <1>1, <1>7, <2>1, OnlyKeeps
<1>8. CASE RootNext \/ ScriptNext \/ ConditionNext
  BY <1>2, <1>3, <1>8 DEF RootNext, ScriptNext, ConditionNext, Descend, Advancing
<1>9. CASE WaitOver \/ WaitAgain \/ StepNext
  BY <1>2, <1>4, <1>5, <1>6, <1>9 DEF WaitOver, WaitAgain, StepNext, Advancing
<1>10. CASE ParallelJoin
  BY <1>7, <1>10 DEF ParallelJoin, JoinWhen, Advancing
<1> QED BY <1>1, <1>8, <1>9, <1>10, LoopKeeps DEF OnNext

\* So does every onTick.
LEMMA OnTickKeeps ==
  ASSUME TypeOK, NEW n \in Nodes,
         ScriptTick(n) \/ ConditionTick(n) \/ WaitTick(n) \/ SelectorTick(n) \/ PlainTick(n)
  PROVE  Keeps
<1>1. nod \in [Nodes -> NodeFields]
  BY DEF TypeOK
<1>2. CASE nod' = nod
  BY <1>2 DEF Keeps
<1>3. CASE ConditionTick(n)
  <2>1. PICK s \in BOOLEAN : nod' = [nod EXCEPT ![n].succ = s]
    BY <1>3 DEF ConditionTick
  <2>2. Only(nod', nod, n, {"succ"})
    BY <1>1, <2>1, SetSucc
  <2> QED BY <2>2, OnlyKeeps
<1>4. CASE WaitTick(n)
  <2>1. nod' = [nod EXCEPT ![n].waiting = TRUE]
    BY <1>4 DEF WaitTick
  <2>2. Only(nod', nod, n, {"waiting"})
    BY <1>1, <2>1, SetWaiting
  <2> QED BY <2>2, OnlyKeeps
<1>5. CASE SelectorTick(n)
  <2>1. nod' = nod \/ nod' = [nod EXCEPT ![n].step = Len(Children(n))]
    BY <1>5 DEF SelectorTick
  <2>2. nod' = [nod EXCEPT ![n].step = Len(Children(n))] => Keeps
    BY <1>1 DEF Keeps, Parallels, NodeFields
  <2> QED BY <1>2, <2>1, <2>2
<1> QED BY <1>2, <1>3, <1>4, <1>5 DEF ScriptTick, PlainTick

\* Numbers holds of a bot that begins.
LEMMA InitNumbers == Init /\ Flat(tree) => Numbers
<1> SUFFICES ASSUME Init, Flat(tree) PROVE Numbers
  OBVIOUS
<1>0. tree \in Trees
  BY DEF Init
<1>1. ASSUME NEW n \in Nodes
      PROVE  ~nod[n].freeze /\ nod[n].threadNumber = IF n = tree.root THEN 1 ELSE 0
  <2>1. nod[n] = FreshNode(tree, n)
    BY DEF Init, Fresh, Nodes
  <2> QED BY <2>1 DEF FreshNode
<1>2. ASSUME NEW p \in Parallels PROVE Branches(p)
  <2>1. \A c \in ChildSet(p) : c \in Nodes \ {tree.root}
    BY <1>0, ChildFacts DEF Parallels
  <2> QED BY <1>1, <2>1 DEF Branches, Parallels
<1>3. tree.root \in Nodes
  BY <1>0, TreeFacts
<1>4. threads = 1 /\ phase = "idle"
  BY DEF Init
<1>5. nod[tree.root].threadNumber = 1
  BY <1>1, <1>3
<1>6. \A n \in Nodes \ Parallels : n # tree.root => nod[n].threadNumber = 0
  BY <1>1
<1> QED BY <1>2, <1>4, <1>5, <1>6 DEF Numbers

\* Numbers is inductive.
LEMMA NextNumbers == TypeOK /\ Numbers /\ Flat(tree) /\ TypeOK' /\ [Next]_vars => Numbers'
<1> SUFFICES ASSUME TypeOK, Numbers, Flat(tree), TypeOK', [Next]_vars PROVE Numbers'
  OBVIOUS
<1>1. tree \in Trees /\ Flat(tree) /\ nod \in [Nodes -> NodeFields] /\ threads \in Nat /\ threads' \in Nat
  BY DEF TypeOK
<1>2. CASE ParallelFork
  BY <1>1, <1>2, ForkNumbers
<1>3. CASE ~ParallelFork
  <2>1. Keeps
    <3>1. CASE nod' = nod
      BY <3>1 DEF Keeps
    <3>2. CASE OnTick
      BY <3>2, OnTickKeeps DEF OnTick
    <3>3. CASE Close
      BY <3>3, ResetKeeps DEF Close
    <3> QED BY <1>1, <1>3, <3>1, <3>2, <3>3, OnNextKeeps
            DEF Next, Do, DoBegin, TickEnd, RangeNext, DoEnd, NewBot, vars
  <2>2. tree' = tree /\ mode' = mode
    BY DEF Next, Do, DoBegin, TickEnd, RangeNext, DoEnd, Close, NewBot, vars,
           OnTick, ScriptTick, ConditionTick, WaitTick, SelectorTick, PlainTick, StateCheck,
           OnNext, RootNext, ScriptNext, ConditionNext, WaitOver, WaitAgain, LoopNext, LoopWhile,
           StepNext, ParallelFork, ForkWith, ParallelJoin, JoinWhen, NextUnchanged
  <2>3. threads' = threads \/ (threads' = 1 /\ phase = "pooled")
    BY <1>3 DEF Next, Do, DoBegin, TickEnd, RangeNext, DoEnd, Close, NewBot, vars, blackboard,
           OnTick, ScriptTick, ConditionTick, WaitTick, SelectorTick, PlainTick, StateCheck,
           OnNext, RootNext, ScriptNext, ConditionNext, WaitOver, WaitAgain, LoopNext, LoopWhile,
           StepNext, ParallelJoin, JoinWhen, Descend, OpenChild, CallParent
  <2>4. phase' = "pooled" => phase = "pooled" \/ mode = "Thread"
    BY DEF Next, Do, DoBegin, TickEnd, RangeNext, DoEnd, Close, NewBot, vars, local,
           OnTick, ScriptTick, ConditionTick, WaitTick, SelectorTick, PlainTick, StateCheck,
           OnNext, RootNext, ScriptNext, ConditionNext, WaitOver, WaitAgain, LoopNext, LoopWhile,
           StepNext, ParallelFork, ForkWith, ParallelJoin, JoinWhen, NextUnchanged
  <2>5. threads' >= 1 /\ (mode = "Step" => threads' >= threads)
    BY <1>1, <2>3 DEF Numbers
  <2> QED BY <1>1, <2>1, <2>2, <2>4, <2>5, NumbersKeep DEF Keeps
<1> QED BY <1>2, <1>3

\* The thread of a node is the number of the nearest numbered node above it.
LEMMA Nearest ==
  ASSUME tree \in Trees, NEW n \in Nodes, NEW m \in Nodes, n \in Subtree(m), nod[m].threadNumber # 0,
         \A q \in Nodes : n \in Subtree(q) /\ nod[q].threadNumber # 0 => m \in Subtree(q)
  PROVE  ThreadOf(n) = nod[m].threadNumber
<1> DEFINE numbered == {x \in Nodes : n \in Subtree(x) /\ nod[x].threadNumber # 0}
           nearest == CHOOSE x \in numbered : \A q \in numbered : x \in Subtree(q)
<1>1. m \in numbered /\ \A q \in numbered : m \in Subtree(q)
  OBVIOUS
<1>2. nearest \in numbered /\ \A q \in numbered : nearest \in Subtree(q)
  BY <1>1
<1>3. nearest = m
  BY <1>1, <1>2, Antisymmetry
<1> QED BY <1>3 DEF ThreadOf

\* What is ticked is the root's thread alone, or in branches with numbers of their own.
LEMMA NumbersDistinct == InvA /\ Numbers /\ Flat(tree) => ThreadsDistinct
<1> SUFFICES ASSUME InvA, Numbers, Flat(tree), phase = "tick", mode = "Step"
             PROVE  /\ \A k \in DOMAIN ticked : ThreadOf(ticked[k]) \in 1 .. threads
                    /\ \A j, k \in DOMAIN ticked : ThreadOf(ticked[j]) = ThreadOf(ticked[k]) => j = k
  BY DEF ThreadsDistinct
<1>1. TypeOK /\ Slices /\ Placed /\ Progress /\ tree \in Trees /\ Flat(tree) /\ ~end /\ ActiveShape
  BY Shape DEF InvA, Live, TypeOK, Slices
<1>2. nod \in [Nodes -> NodeFields] /\ threads \in Nat
  BY <1>1 DEF TypeOK
<1>3. /\ DOMAIN ticked \subseteq DOMAIN Active /\ \A k \in DOMAIN ticked : ticked[k] = Active[k]
      /\ \A j : ~HandAt(j)
  <2>1. /\ i \in 1 .. (Len(nods) + 1) /\ Len(ticked) = i - 1
        /\ \A k \in 1 .. (i - 1) : ticked[k] = nods[k]
    BY <1>1 DEF Slices
  <2>2. DOMAIN ticked = 1 .. Len(ticked) /\ DOMAIN nods = 1 .. Len(nods) /\ Len(nods) \in Nat
    BY <1>1, SliceTypes
  <2>3. Active = nods /\ \A j : ~HandAt(j)
    BY DEF Active, HandAt, Hand
  <2> QED BY <2>1, <2>2, <2>3
<1>4. CASE Alone
  <2>1. \A j, k \in DOMAIN ticked : j = k
    BY <1>1, <1>3, <1>4 DEF Alone, ActiveShape
  <2>2. ASSUME NEW k \in DOMAIN ticked PROVE ThreadOf(ticked[k]) = 1
    <3>1. PICK n \in Nodes : n = ticked[k] /\ n = Active[k] /\ k \in DOMAIN Active
      BY <1>1, <1>3 DEF ActiveShape
    <3>2. ASSUME NEW q \in Nodes, n \in Subtree(q), nod[q].threadNumber # 0 PROVE q = tree.root
      <4>1. q \notin Parallels
        <5> SUFFICES ASSUME q \in Parallels PROVE FALSE
          OBVIOUS
        <5>1. n \notin Below(q) /\ (n = q => ~nod[q].freeze)
          BY <1>4, <3>1 DEF Alone
        <5>2. ~nod[q].freeze
          BY <3>2, <5>1 DEF Below
        <5> QED BY <1>1, <3>2, <5>2 DEF Progress
      <4>2. q # tree.root => Parent(q) \notin Parallels
        <5> SUFFICES ASSUME q # tree.root, Parent(q) \in Parallels PROVE FALSE
          OBVIOUS
        <5>1. q \in ChildSet(Parent(q)) /\ Parent(q) \in Nodes
          BY <1>1, HasChild, TreeFacts
        <5>2. n \in Below(Parent(q))
          BY <1>1, <3>2, <5>1, ChildFacts
        <5> QED BY <1>4, <3>1, <5>2 DEF Alone
      <4> QED BY <3>2, <4>1, <4>2 DEF Numbers
    <3>3. n \in Subtree(tree.root) /\ tree.root \in Subtree(tree.root) /\ tree.root \in Nodes
      <4>1. tree.root \in Nodes
        BY <1>1, TreeFacts
      <4>2. Subtree(tree.root) = Nodes
        BY <1>1, <4>1, SubtreeFacts, FromRoot
      <4> QED BY <4>1, <4>2
    <3>4. nod[tree.root].threadNumber = 1
      BY DEF Numbers
    <3> QED BY <1>1, <3>1, <3>2, <3>3, <3>4, Nearest
  <2> QED BY <1>2, <2>1, <2>2 DEF Numbers
<1>5. CASE \E p \in Nodes : Forked(p)
  <2> PICK p \in Parallels : Forked(p)
    BY <1>5 DEF Forked
  <2>1. ASSUME NEW k \in DOMAIN ticked
        PROVE  \E c \in ChildSet(p) : ticked[k] \in Subtree(c) /\ ThreadOf(ticked[k]) = nod[c].threadNumber
    <3>1. PICK n \in Nodes : n = ticked[k] /\ n = Active[k] /\ n \in Below(p)
      BY <1>1, <1>3 DEF Forked, ActiveShape
    <3>2. PICK c \in ChildSet(p) : n \in Subtree(c)
      BY <1>1, <3>1, InBranch DEF Parallels
    <3>3. c \in Nodes /\ nod[c].threadNumber # 0
      <4>1. c \in Nodes
        BY <1>1, PlainChildren
      <4>2. nod[c].threadNumber \in Nat /\ nod[c].threadNumber > 0
        BY <1>2, <4>1, FieldTypes DEF Numbers, Branches, Forked
      <4> QED BY <4>1, <4>2
    <3>4. ASSUME NEW q \in Nodes, n \in Subtree(q), nod[q].threadNumber # 0 PROVE c \in Subtree(q)
      <4> SUFFICES ASSUME q \in Subtree(c), q # c PROVE FALSE
        BY <1>1, <3>2, <3>3, <3>4, Chain, SubtreeFacts
      <4>1. Subtree(c) \subseteq Below(p)
        BY <1>1, ChildFacts DEF Parallels
      <4>2. q \notin Parallels /\ q # tree.root
        BY <1>1, <4>1, FlatFacts DEF Parallels
      <4>3. Parent(q) \in Subtree(c)
        BY <1>1, <3>3, ParentInside
      <4>4. Parent(q) \notin Parallels
        BY <1>1, <4>1, <4>3, FlatFacts DEF Parallels
      <4> QED BY <3>4, <4>2, <4>4 DEF Numbers
    <3>5. ThreadOf(n) = nod[c].threadNumber
      BY <1>1, <3>2, <3>3, <3>4, Nearest
    <3> QED BY <3>1, <3>2, <3>5
  <2>2. \A c \in ChildSet(p) :
            /\ nod[c].threadNumber > 0 /\ nod[c].threadNumber <= threads
            /\ \A d \in ChildSet(p) : nod[c].threadNumber = nod[d].threadNumber => c = d
    BY DEF Numbers, Branches, Forked
  <2>3. ASSUME NEW k \in DOMAIN ticked PROVE ThreadOf(ticked[k]) \in 1 .. threads
    <3>1. PICK c \in ChildSet(p) : ThreadOf(ticked[k]) = nod[c].threadNumber
      BY <2>1
    <3>2. nod[c].threadNumber \in Nat
      BY <1>1, <1>2, PlainChildren, FieldTypes
    <3> QED BY <1>2, <2>2, <3>1, <3>2
  <2>4. ASSUME NEW j \in DOMAIN ticked, NEW k \in DOMAIN ticked, ThreadOf(ticked[j]) = ThreadOf(ticked[k])
        PROVE  j = k
    <3>1. PICK c \in ChildSet(p) : ticked[j] \in Subtree(c) /\ ThreadOf(ticked[j]) = nod[c].threadNumber
      BY <2>1
    <3>2. PICK d \in ChildSet(p) : ticked[k] \in Subtree(d) /\ ThreadOf(ticked[k]) = nod[d].threadNumber
      BY <2>1
    <3>3. c = d
      BY <2>2, <2>4, <3>1, <3>2
    <3>4. j \in DOMAIN Active /\ k \in DOMAIN Active /\ Active[j] \in Subtree(c) /\ Active[k] \in Subtree(c)
      BY <1>3, <3>1, <3>2, <3>3
    <3> QED BY <3>4 DEF Forked, Apart
  <2> QED BY <2>3, <2>4
<1> QED BY <1>1, <1>4, <1>5 DEF Placed

\* When the root has ended the bot, every node has been executed exactly as often as its
\* parent asked for, also with a tree that other bots have used before.
THEOREM VisitsCorrect == Spec => [](Flat(tree) => VisitsExact)
<1>1. Init => (Flat(tree) => InvA /\ InvB)
  BY InitInvA, InitInvB
<1>2. (Flat(tree) => InvA /\ InvB) /\ [Next]_vars => (Flat(tree) => InvA /\ InvB)'
  <2>1. [Next]_vars => (Flat(tree)' <=> Flat(tree))
    BY TreeStays
  <2> QED BY <2>1, NextInvA, NextInvB
<1>3. (Flat(tree) => InvA /\ InvB) => (Flat(tree) => VisitsExact)
  BY CountExact
<1> QED BY <1>1, <1>2, <1>3, PTL DEF Spec

\* The nodes one Do has ticked run in different threads of the blackboard, also after a loop
\* has reset the parallel node that gave out the numbers.
THEOREM ThreadsCorrect == Spec => [](Flat(tree) => ThreadsDistinct)
<1>1. Init => (Flat(tree) => InvA /\ Numbers)
  BY InitInvA, InitNumbers
<1>2. (Flat(tree) => InvA /\ Numbers) /\ [Next]_vars => (Flat(tree) => InvA /\ Numbers)'
  <2>1. [Next]_vars => (Flat(tree)' <=> Flat(tree))
    BY TreeStays
  <2>2. (InvA => TypeOK) /\ (InvA' => TypeOK')
    BY DEF InvA
  <2> QED BY <2>1, <2>2, NextInvA, NextNumbers
<1>3. (Flat(tree) => InvA /\ Numbers) => (Flat(tree) => ThreadsDistinct)
  BY NumbersDistinct
<1> QED BY <1>1, <1>2, <1>3, PTL DEF Spec

=============================================================================
