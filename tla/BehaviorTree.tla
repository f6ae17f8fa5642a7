---------------------------- MODULE BehaviorTree ----------------------------
(***************************************************************************)
(* The behaviour-tree engine of a bot: driver/bot/behavior and the loops   *)
(* of driver/bot/bot.go that call Tick.Do until the bot ends.              *)
(*                                                                         *)
(* A bot is one goroutine.  Each call of Do ticks the open nodes of the    *)
(* blackboard (onTick), empties the blackboard, and ranges over the same   *)
(* nodes again to let each of them open its successors (onNext).  A node   *)
(* that has none hands over to its parent's onNext, up to the root.        *)
(*                                                                         *)
(* Blackboard.Reset keeps the backing array (Nods[:0]), so the slice Do is *)
(* ranging over and the one the successors are appended to may be one      *)
(* array: `shared', with `cap' its capacity.                               *)
(***************************************************************************)
EXTENDS Integers, Sequences, FiniteSets

CONSTANTS
  Trees,    \* the behaviour files a bot may be given (see IsTree)
  Modes,    \* the run modes that are used, some of "Thread", "Block", "Step"
  Results,  \* what scripts return, some of "Succ", "Error", "Exit", "Break"
  Forever,  \* the count that stands for an endless loop (100000000000 in the code)
  MaxRuns,  \* bound: how many bots take the same tree from the pool in turn
  None      \* no node

ASSUME BoundsAssumption ==
  /\ Modes \subseteq {"Thread", "Block", "Step"}
  /\ Results \subseteq {"Succ", "Error", "Exit", "Break"}
  /\ Forever \in Nat \ {0}
  /\ MaxRuns \in Nat \ {0}

Kinds == {"Root", "Selector", "Sequence", "Condition", "Wait", "Loop",
          "Parallel", "Script"}

(* The sets of nodes that hold the children of each of their nodes. *)
ClosedSets(t) ==
  {S \in SUBSET t.nodes : \A n \in S : \A k \in DOMAIN t.children[n] : t.children[n][k] \in S}

(***************************************************************************)
(* A behaviour file: nodes with a kind, an ordered list of children, the   *)
(* parent Init links them to, and the count of a loop node.  Load makes    *)
(* nodes from the root down, so each node is one that the root reaches.    *)
(***************************************************************************)
IsTree(t) ==
  /\ t.root \in t.nodes
  /\ None \notin t.nodes
  /\ t.kind \in [t.nodes -> Kinds]
  /\ t.children \in [t.nodes -> Seq(t.nodes)]
  /\ t.parent \in [t.nodes \ {t.root} -> t.nodes]
  /\ t.loop \in [t.nodes -> Int]
  /\ \A n \in t.nodes : t.kind[n] = "Root" <=> n = t.root
  /\ \A n \in t.nodes : \A k \in DOMAIN t.children[n] :
        /\ t.children[n][k] # t.root
        /\ t.parent[t.children[n][k]] = n
        /\ \A j \in DOMAIN t.children[n] : t.children[n][j] = t.children[n][k] => j = k
  /\ \A S \in ClosedSets(t) : t.root \in S => S = t.nodes

\* Each node of each file with all below it: the least closed set that holds the node.
SubtreeOf ==
  [t \in Trees |->
    LET closed == ClosedSets(t)
    IN  [n \in t.nodes |-> {m \in t.nodes : \A S \in closed : n \in S => m \in S}]]

(* No fork below another one: Tick.Do handles such files only (see FrozenWasExecuted). *)
Flat(t) ==
  \A p, q \in {n \in t.nodes : t.kind[n] = "Parallel"} : q \in SubtreeOf[t][p] => q = p

ASSUME TreesAssumption == \A t \in Trees : IsTree(t)

VARIABLES
  tree,     \* the bot's tree, never changed once loaded
  mode,     \* Mode of the bot
  nod,      \* the mutable fields of every node
  open,     \* Blackboard.Nods
  cap,      \* capacity of the array behind open
  end,      \* Blackboard.end
  threads,  \* the numbers in Blackboard.Threadlst are 1..threads
  phase,    \* where the goroutine is: "idle", "tick", "next", "ended", "pooled"
  nods,     \* the local slice of Do
  shared,   \* is nods backed by the same array as open?
  i,        \* the index the range over nods has reached
  at,       \* the node whose onNext is running, or None
  state,    \* the local state of Do
  outcome,  \* "running", "done" (ended), "err" (reported as an error), "panic"
  runs,     \* bots that have used this tree object
  ticked,   \* history: the nodes this Do has ticked, in order
  visits,   \* history: executions of each node in this run
  passed    \* history: how often each condition evaluated to true in this run

blackboard == <<open, cap, end, threads>>
local      == <<phase, nods, shared, i, at, state>>
history    == <<ticked, visits, passed>>
vars == <<tree, mode, nod, blackboard, local, outcome, runs, history>>

Nodes       == tree.nodes
Kind(n)     == tree.kind[n]
Children(n) == tree.children[n]
Parent(n)   == tree.parent[n]
ChildSet(n) == {Children(n)[k] : k \in DOMAIN Children(n)}
Limit(n)    == IF tree.loop[n] = 0 THEN Forever ELSE tree.loop[n]

(* A node and all below it. *)
Subtree(n) == SubtreeOf[tree][n]

-----------------------------------------------------------------------------
(* What NewNode and Init leave in a node. *)
FreshNode(t, n) ==
  [freeze  |-> FALSE,  step |-> 0,  curLoop |-> 0,  succ |-> FALSE,
   waiting |-> FALSE,  threadNumber |-> IF n = t.root THEN 1 ELSE 0]

(* Bugs onReset could have: it forgets the step of a sequence or selector, or the count  *)
(* of a loop.                                                                            *)
ResetKeepsStep(n) == [FreshNode(tree, n) EXCEPT !.step = nod[n].step]
ResetKeepsLoop(n) == [FreshNode(tree, n) EXCEPT !.curLoop = nod[n].curLoop]

(* What onReset leaves in a node: only a parallel node's thread number is cleared. *)
ResetNode(n) ==
  [FreshNode(tree, n) EXCEPT !.threadNumber =
     IF Kind(n) = "Parallel" THEN 0 ELSE nod[n].threadNumber]

AfterReset(S) == [n \in Nodes |-> IF n \in S THEN ResetNode(n) ELSE nod[n]]

(* The capacity append grows an array of capacity c to when it must hold n elements: c *)
(* doubled until it is enough, which is the only multiple by a power of two in n..2*n-1. *)
Grow(c, n) ==
  LET doubled == {c * 2^k : k \in 1..n} \cap n .. 2 * n - 1
  IN  IF n <= c THEN c ELSE CHOOSE m \in n .. 2 * n - 1 : doubled # {} => m \in doubled

(***************************************************************************)
(* Blackboard.Append, once per node of ns.  As long as the array has room  *)
(* the new elements land in it, also where the range over nods has yet to  *)
(* read; once it is full append moves open to an array of its own.         *)
(***************************************************************************)
BlackboardAppend(ns) ==
  LET all == open \o ns
  IN  /\ open' = all
      /\ cap' = Grow(cap, Len(all))
      /\ shared' = (shared /\ Len(all) <= cap)
      /\ nods' = [k \in DOMAIN nods |->
                    IF shared /\ k \in Len(open)+1 .. Len(all) /\ k <= cap
                    THEN all[k] ELSE nods[k]]

-----------------------------------------------------------------------------
Fresh(t) == [n \in t.nodes |-> FreshNode(t, n)]
Zero(t)  == [n \in t.nodes |-> 0]

Init ==
  /\ tree \in Trees
  /\ mode \in Modes
  /\ nod = Fresh(tree)
  /\ open = <<tree.root>> /\ cap = 1 /\ end = FALSE /\ threads = 1
  /\ phase = "idle" /\ nods = <<>> /\ shared = FALSE /\ i = 1 /\ at = None
  /\ state = "" /\ outcome = "running" /\ runs = 1
  /\ ticked = <<>> /\ visits = Zero(tree) /\ passed = Zero(tree)

(* Do begins: the open nodes become the slice to range over. *)
DoBegin ==
  /\ phase = "idle"
  /\ phase' = "tick" /\ nods' = open /\ shared' = TRUE /\ i' = 1 /\ state' = ""
  /\ ticked' = <<>>
  /\ UNCHANGED <<tree, mode, nod, blackboard, at, outcome, runs, visits, passed>>

-----------------------------------------------------------------------------
(* onTick and stateCheck.  result is the state of the node just ticked; Exit and Break *)
(* end the bot at once, before any onNext.                                              *)
Ticking(n, kinds) ==
  /\ phase = "tick" /\ i \in DOMAIN nods /\ n = nods[i] /\ Kind(n) \in kinds

StateCheck(n, result) ==
  /\ state' = result
  /\ ticked' = Append(ticked, n)
  /\ i' = i + 1
  /\ IF result \in {"Exit", "Break"}
     THEN phase' = "ended" /\ outcome' = "done"
     ELSE UNCHANGED <<phase, outcome>>
  /\ UNCHANGED <<tree, mode, blackboard, nods, shared, at, runs>>

Visit(n) == visits' = [visits EXCEPT ![n] = @ + 1]

ScriptTick(n) ==
  /\ Ticking(n, {"Script"})
  /\ \E r \in Results : StateCheck(n, r)
  /\ Visit(n)
  /\ UNCHANGED <<nod, passed>>

(* A condition whose script fails keeps succ as it was. *)
ConditionTick(n) ==
  /\ Ticking(n, {"Condition"})
  /\ \E s \in BOOLEAN :
       /\ nod' = [nod EXCEPT ![n].succ = s]
       /\ passed' = IF s THEN [passed EXCEPT ![n] = @ + 1] ELSE passed
  /\ StateCheck(n, "Succ") /\ Visit(n)

WaitTick(n) ==
  /\ Ticking(n, {"Wait"})
  /\ nod' = [nod EXCEPT ![n].waiting = TRUE]
  /\ IF nod[n].waiting THEN UNCHANGED visits ELSE Visit(n)
  /\ StateCheck(n, "Succ")
  /\ UNCHANGED passed

(* A selector that has already opened a child asserts that this child is a condition. *)
SelectorTick(n) ==
  LET step == nod[n].step
      last == Children(n)[step]
  IN  /\ Ticking(n, {"Selector"})
      /\ IF step # 0 /\ Kind(last) # "Condition"
         THEN /\ phase' = "ended" /\ outcome' = "panic"
              /\ UNCHANGED <<tree, mode, nod, blackboard, nods, shared, i, at, state,
                             runs, history>>
         ELSE /\ nod' = IF step # 0 /\ nod[last].succ
                        THEN [nod EXCEPT ![n].step = Len(Children(n))] ELSE nod
              /\ StateCheck(n, "Succ") /\ Visit(n)
              /\ UNCHANGED passed

PlainTick(n) ==
  /\ Ticking(n, {"Root", "Sequence", "Loop", "Parallel"})
  /\ StateCheck(n, "Succ") /\ Visit(n)
  /\ UNCHANGED <<nod, passed>>

(* All open nodes are ticked: the blackboard is emptied and the second range begins. *)
TickEnd ==
  /\ phase = "tick" /\ i > Len(nods)
  /\ phase' = "next" /\ i' = 1 /\ open' = <<>>
  /\ UNCHANGED <<tree, mode, nod, cap, end, threads, nods, shared, at, state, outcome,
                 runs, history>>

-----------------------------------------------------------------------------
(* The second range reads its next element when it gets there, not before. *)
RangeNext ==
  /\ phase = "next" /\ at = None /\ i <= Len(nods)
  /\ at' = nods[i] /\ i' = i + 1
  /\ UNCHANGED <<tree, mode, nod, blackboard, phase, nods, shared, state, outcome, runs,
                 history>>

Advancing(kinds) == phase = "next" /\ at # None /\ Kind(at) \in kinds

NextUnchanged == UNCHANGED <<tree, mode, phase, i, state, outcome, runs, history>>

(* onNext opens a child and returns ... *)
OpenChild(k) == BlackboardAppend(<<Children(at)[k]>>) /\ at' = None /\ UNCHANGED threads

(* ... or calls the parent's onNext. *)
CallParent == at' = Parent(at) /\ UNCHANGED <<open, cap, threads, nods, shared>>

(* A node with one child opens it once, and is frozen from then on. *)
CanDescend == Children(at) # <<>> /\ ~nod[at].freeze

Descend == OpenChild(1) /\ nod' = [nod EXCEPT ![at].freeze = TRUE]

RootNext ==
  /\ Advancing({"Root"})
  /\ IF CanDescend
     THEN Descend /\ UNCHANGED end
     ELSE /\ end' = TRUE /\ at' = None
          /\ UNCHANGED <<nod, open, cap, threads, nods, shared>>
  /\ NextUnchanged

ScriptNext ==
  /\ Advancing({"Script"})
  /\ IF CanDescend THEN Descend ELSE CallParent /\ UNCHANGED nod
  /\ UNCHANGED end /\ NextUnchanged

ConditionNext ==
  /\ Advancing({"Condition"})
  /\ IF CanDescend /\ nod[at].succ THEN Descend ELSE CallParent /\ UNCHANGED nod
  /\ UNCHANGED end /\ NextUnchanged

(* The wait is over when the clock has passed its end time. *)
WaitOver ==
  /\ Advancing({"Wait"})
  /\ IF CanDescend
     THEN /\ OpenChild(1)
          /\ nod' = [nod EXCEPT ![at].freeze = TRUE, ![at].waiting = FALSE]
     ELSE CallParent /\ nod' = [nod EXCEPT ![at].waiting = FALSE]
  /\ UNCHANGED end /\ NextUnchanged

(* Until then the node opens itself again. *)
WaitAgain ==
  /\ Advancing({"Wait"}) /\ nod[at].waiting
  /\ BlackboardAppend(<<at>>) /\ at' = None
  /\ UNCHANGED <<nod, threads, end>> /\ NextUnchanged

LoopWhile(more) ==
  /\ Advancing({"Loop"})
  /\ IF Children(at) # <<>> /\ more
     THEN /\ nod' = [AfterReset(Subtree(at) \ {at}) EXCEPT ![at].curLoop = @ + 1]
          /\ OpenChild(1)
     ELSE CallParent /\ UNCHANGED nod
  /\ UNCHANGED end /\ NextUnchanged

(* A bug it could have: one iteration too many. *)
LoopOnceMore == LoopWhile(nod[at].curLoop <= Limit(at))

LoopNext == LoopWhile(nod[at].curLoop < Limit(at))

(* SequenceAction.onNext and SelectAction.onNext: the children in turn. *)
StepNext ==
  /\ Advancing({"Sequence", "Selector"})
  /\ IF nod[at].step < Len(Children(at))
     THEN /\ nod' = [nod EXCEPT ![at].step = @ + 1]
          /\ OpenChild(nod[at].step + 1)
     ELSE CallParent /\ UNCHANGED nod
  /\ UNCHANGED end /\ NextUnchanged

(* First call: open every child; number[k] is the thread number of the k-th. *)
ForkWith(number) ==
  /\ Advancing({"Parallel"}) /\ ~nod[at].freeze
  /\ BlackboardAppend(Children(at)) /\ at' = None
  /\ threads' = threads + Len(Children(at))
  /\ nod' = [n \in Nodes |->
       IF n = at THEN [nod[n] EXCEPT !.freeze = TRUE]
       ELSE IF n \in ChildSet(at) /\ nod[n].threadNumber = 0
       THEN LET k == CHOOSE j \in DOMAIN Children(at) : Children(at)[j] = n
            IN  [nod[n] EXCEPT !.threadNumber = number[k]]
       ELSE nod[n]]
  /\ UNCHANGED end /\ NextUnchanged

(* A bug it could have: the next free number is looked up once for all children. *)
ForkOneThread == ForkWith([k \in DOMAIN Children(at) |-> threads + 1])

ParallelFork == ForkWith([k \in DOMAIN Children(at) |-> threads + k])

(* Later calls come from branches that are through; the thread number counts them, and   *)
(* when enough have come the parent is called.                                           *)
JoinWhen(enough) ==
  /\ Advancing({"Parallel"}) /\ nod[at].freeze
  /\ nod' = [nod EXCEPT ![at].threadNumber = @ + 1]
  /\ IF enough THEN CallParent
     ELSE at' = None /\ UNCHANGED <<open, cap, threads, nods, shared>>
  /\ UNCHANGED end /\ NextUnchanged

(* Bugs it could have: every branch calls the parent; the last branch does not count. *)
JoinAtOnce  == JoinWhen(TRUE)
JoinTooLate == JoinWhen(nod[at].threadNumber + 1 > Len(Children(at)))

ParallelJoin == JoinWhen(nod[at].threadNumber + 1 >= Len(Children(at)))

-----------------------------------------------------------------------------
(* The states in which loopThread, RunByBlock and RunByStep give up after a Do that did *)
(* not end the bot, and what they then report.                                          *)
GivesUp == state \in (IF mode = "Thread" THEN {"Break", "Error"} ELSE {"Break", "Exit"})

DoEnd ==
  /\ phase = "next" /\ at = None /\ i > Len(nods)
  /\ state' = IF end THEN "Exit" ELSE state
  /\ outcome' = IF end THEN "done" ELSE IF GivesUp THEN "err" ELSE outcome
  /\ phase' = IF end \/ GivesUp THEN "ended" ELSE "idle"
  /\ nods' = <<>> /\ shared' = FALSE /\ i' = 1 /\ ticked' = <<>>
  /\ UNCHANGED <<tree, mode, nod, blackboard, at, runs, visits, passed>>

(* Bot.close in thread mode: the tree is reset and goes back to the pool. *)
Close ==
  /\ phase = "ended" /\ mode = "Thread" /\ outcome \in {"done", "err"}
  /\ nod' = AfterReset(Nodes)
  /\ phase' = "pooled" /\ nods' = <<>> /\ shared' = FALSE /\ i' = 1 /\ ticked' = <<>>
  /\ UNCHANGED <<tree, mode, blackboard, at, state, outcome, runs, visits, passed>>

(* A later bot takes the tree from the pool, with a blackboard of its own. *)
NewBot ==
  /\ phase = "pooled" /\ runs < MaxRuns
  /\ runs' = runs + 1 /\ phase' = "idle" /\ outcome' = "running" /\ state' = ""
  /\ open' = <<tree.root>> /\ cap' = 1 /\ end' = FALSE /\ threads' = 1
  /\ visits' = Zero(tree) /\ passed' = Zero(tree)
  /\ UNCHANGED <<tree, mode, nod, nods, shared, i, at, ticked>>

OnTick ==
  \E n \in Nodes :
    ScriptTick(n) \/ ConditionTick(n) \/ WaitTick(n) \/ SelectorTick(n) \/ PlainTick(n)

OnNext ==
  \/ RootNext \/ ScriptNext \/ ConditionNext \/ WaitOver \/ WaitAgain
  \/ LoopNext \/ StepNext \/ ParallelFork \/ ParallelJoin

Do == DoBegin \/ OnTick \/ TickEnd \/ RangeNext \/ OnNext \/ DoEnd

Next == Do \/ Close \/ NewBot

(* loopThread and RunByBlock call Do until the bot ends, RunByStep once per request; the *)
(* clock passes the end time of every wait.                                              *)
Fairness == WF_vars(mode # "Step" /\ Do) /\ WF_vars(Close) /\ SF_vars(WaitOver)

Spec == Init /\ [][Next]_vars /\ Fairness

-----------------------------------------------------------------------------
NodeFields == [freeze : BOOLEAN, step : Nat, curLoop : Nat, succ : BOOLEAN,
               waiting : BOOLEAN, threadNumber : Nat]

(* The fields stay within what the handlers index with: a step is an index into the      *)
(* children, a loop never counts past its limit, what is open or ranged over is a node.  *)
TypeOK ==
  /\ tree \in Trees /\ mode \in Modes
  /\ nod \in [Nodes -> NodeFields]
  /\ \A n \in Nodes :
        /\ nod[n].step <= Len(Children(n))
        /\ nod[n].curLoop = 0 \/ nod[n].curLoop <= Limit(n)
  /\ open \in Seq(Nodes) /\ nods \in Seq(Nodes) /\ ticked \in Seq(Nodes)
  /\ cap \in Nat /\ threads \in Nat /\ i \in Nat \ {0} /\ runs \in Nat
  /\ end \in BOOLEAN /\ shared \in BOOLEAN
  /\ phase \in {"idle", "tick", "next", "ended", "pooled"}
  /\ at \in Nodes \cup {None}
  /\ state \in {"", "Succ"} \cup Results \cup {"Exit"}
  /\ outcome \in {"running", "done", "err", "panic"}
  /\ visits \in [Nodes -> Nat] /\ passed \in [Nodes -> Nat]

(* Do hands over only from nodes it has ticked: what onNext appends to the blackboard    *)
(* never replaces an element of the slice that Do has yet to range over.                 *)
RangeIntact ==
  phase = "next" =>
    /\ Len(ticked) = Len(nods)
    /\ \A k \in DOMAIN nods : k >= i => nods[k] = ticked[k]

(* Only a node that has been executed is frozen. *)
FrozenWasExecuted == \A n \in Nodes : nod[n].freeze /\ phase # "pooled" => visits[n] > 0

(* The root ends the bot only when nothing is left to run: no branch of a parallel node  *)
(* is open or about to be handled.                                                       *)
NothingLeftBehind == end => open = <<>> /\ at = None /\ (phase = "next" => i > Len(nods))

(* No tick runs into the type assertion of a selector on a child that is no condition. *)
NoPanic == outcome # "panic"

(* When the root has ended the bot, every node has been executed exactly as often as its *)
(* parent asked for: once per execution of a sequence, selector or parallel parent, once *)
(* per iteration of a loop, once per success of a condition; also for a tree that other  *)
(* bots have used before.                                                                *)
Asked(p, k) ==
  LET once == IF k = 1 THEN visits[p] ELSE 0
  IN  CASE Kind(p) \in {"Root", "Script", "Wait"} -> once
        [] Kind(p) = "Condition" -> IF k = 1 THEN passed[p] ELSE 0
        [] Kind(p) = "Loop" -> IF Limit(p) > 0 THEN Limit(p) * once ELSE 0
        [] OTHER -> visits[p]

VisitsExact ==
  end /\ phase = "ended" =>
    /\ visits[tree.root] = 1
    /\ \A p \in Nodes : \A k \in DOMAIN Children(p) : visits[Children(p)[k]] = Asked(p, k)

(* The nodes one Do has ticked run in different threads of the blackboard, so the info   *)
(* of one never overwrites the info of another in what the editor is shown.              *)
ThreadOf(n) ==
  LET numbered == {m \in Nodes : n \in Subtree(m) /\ nod[m].threadNumber # 0}
      nearest == CHOOSE m \in numbered : \A p \in numbered : m \in Subtree(p)
  IN  nod[nearest].threadNumber

ThreadsDistinct ==
  phase = "tick" /\ mode = "Step" =>
    /\ \A k \in DOMAIN ticked : ThreadOf(ticked[k]) \in 1..threads
    /\ \A j, k \in DOMAIN ticked : ThreadOf(ticked[j]) = ThreadOf(ticked[k]) => j = k

(* Every bot in a goroutine of its own ends. *)
BotEnds == mode # "Step" /\ phase = "idle" ~> phase \in {"ended", "pooled"}

=============================================================================
