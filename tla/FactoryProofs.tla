---------------------------- MODULE FactoryProofs ----------------------------
(***************************************************************************)
(* Proofs about Factory, for any number of tasks, clients and crashes.     *)
(*                                                                         *)
(* The inductive invariant IInv says of every place that holds a task's    *)
(* progress (the queue, what callers and taskLoop hold of it, the batches, *)
(* the table) that this progress has been made, and that a batch past its  *)
(* waves has made all of it.  The sets below take the reports as an        *)
(* argument because the progress in one place stays backed when bots of    *)
(* another report (MoreReports).                                           *)
(*                                                                         *)
(* ListMatches needs no more than IInv beside it: what is counted on the   *)
(* list and what is counted among the batches grow and shrink together.    *)
(***************************************************************************)
EXTENDS Factory, FiniteSetTheorems, FunctionTheorems, SequenceTheorems, TLAPS

(* Tasks with a progress, callers between load and store, what taskLoop has taken, and   *)
(* batches, all with progress that the reports r cover; batches past their waves have it *)
(* all.                                                                                  *)
Backed(r) == {b \in Infos : b.cur <= r[b.task]}

Pending(r) ==
  {a \in [task : Tasks, cur : 0 .. Total, seen : Seq(Backed(r))] : a.cur <= r[a.task]}

Taken(r) == [first : Backed(r), rest : Seq(Backed(r))]

Made(r) ==
  {b \in [task : Tasks, began : 0 .. Total, cur : 0 .. Total + 1,
          stage : {"wave", "done", "popped"}] :
     b.cur <= r[b.task] /\ (b.stage # "wave" => b.cur >= Total)}

Rows == [state : {"none", "live", "deleted"}, cur : 0 .. Total]

Flags ==
  /\ up \in BOOLEAN /\ file \in BOOLEAN /\ crashes \in 0 .. MaxCrashes
  /\ accepted \in SUBSET Tasks

Start == history \in SUBSET Tasks /\ recovering \in Tasks \cup {None}

Queue ==
  /\ adding \in [Callers -> Pending(reported) \cup {None}]
  /\ cache \in Seq(Backed(reported))

Loop ==
  /\ loopPc \in {"top", "rest", "take", "create", "poll"}
  /\ loopPc \in {"rest", "take", "create"} => taken \in Taken(reported)
  /\ loopPc = "rest" => cache # <<>>

Batches ==
  /\ made \in Seq(Made(reported)) /\ batches \in Seq(DOMAIN made)
  /\ generated \in SUBSET Tasks /\ \A t \in generated : reported[t] >= Total

Table ==
  /\ table \in [Tasks -> Rows]
  /\ \A t \in Tasks : table[t].cur <= reported[t]

IInv ==
  /\ reported \in [Tasks -> Nat]
  /\ Flags /\ Start /\ Queue /\ Loop /\ Batches /\ Table

-----------------------------------------------------------------------------
(* Progress that is backed stays so when more bots report. *)
LEMMA MoreReports ==
  ASSUME NEW r \in [Tasks -> Nat], NEW s \in [Tasks -> Nat], \A t \in Tasks : r[t] <= s[t]
  PROVE  /\ Backed(r) \subseteq Backed(s) /\ Seq(Backed(r)) \subseteq Seq(Backed(s))
         /\ Pending(r) \subseteq Pending(s) /\ Taken(r) \subseteq Taken(s)
         /\ Made(r) \subseteq Made(s)
<1>0. Total \in Nat
  BY BoundsAssumption
<1>1. Backed(r) \subseteq Backed(s)
  BY <1>0 DEF Backed, Infos
<1>2. Seq(Backed(r)) \subseteq Seq(Backed(s))
  BY <1>1, SeqMonotonic
<1>3. Pending(r) \subseteq Pending(s)
  BY <1>0, <1>2 DEF Pending
<1>4. Taken(r) \subseteq Taken(s)
  BY <1>1, <1>2 DEF Taken
<1>5. Made(r) \subseteq Made(s)
  BY <1>0 DEF Made
<1>6. QED  BY <1>1, <1>2, <1>3, <1>4, <1>5

(* A sequence one element of which is replaced. *)
LEMMA Replaced ==
  ASSUME NEW S, NEW T, NEW s \in Seq(S), NEW o \in DOMAIN s, NEW x \in T, S \subseteq T
  PROVE  /\ [s EXCEPT ![o] = x] \in Seq(T)
         /\ DOMAIN [s EXCEPT ![o] = x] = DOMAIN s
         /\ Len([s EXCEPT ![o] = x]) = Len(s)
<1>1. s \in Seq(T)
  BY SeqMonotonic
<1>2. o \in 1 .. Len(s) /\ DOMAIN s = 1 .. Len(s)
  BY LenProperties
<1>3. [s EXCEPT ![o] = x] \in Seq(T) /\ Len([s EXCEPT ![o] = x]) = Len(s)
  BY <1>1, <1>2, ExceptSeq
<1>4. QED  BY <1>2, <1>3

(* What a queue that is not empty consists of. *)
LEMMA FirstAndRest ==
  ASSUME NEW S, NEW s \in Seq(S), s # <<>>
  PROVE  Head(s) \in S /\ Tail(s) \in Seq(S)
  BY HeadTailProperties

(* The factory starts with nothing queued and nothing made. *)
LEMMA InitInductive == Init => IInv
<1> SUFFICES ASSUME Init PROVE IInv
  OBVIOUS
<1> USE BoundsAssumption DEF Init
<1>1. reported \in [Tasks -> Nat]
  OBVIOUS
<1>2. Flags
  BY DEF Flags
<1>3. Start
  BY DEF Start
<1>4. Queue
  BY EmptySeq DEF Queue
<1>5. Loop
  BY DEF Loop
<1>6. Batches
  BY EmptySeq DEF Batches
<1>7. Table
  BY DEF Table, Rows
<1>8. QED  BY <1>1, <1>2, <1>3, <1>4, <1>5, <1>6, <1>7 DEF IInv

-----------------------------------------------------------------------------
(* The callers of AddBatch and the recovery move progress from the table to the queue. *)
LEMMA QueueSteps ==
  ASSUME IInv,
         (\E c \in Clients : Request(c)) \/ (\E c \in Callers : AddStore(c)) \/ FileRemove
           \/ Recovery
  PROVE  IInv'
<1> USE DEF IInv
<1>0. Total \in Nat /\ Clients \subseteq Callers /\ Main \in Callers /\ None \notin Tasks
  BY BoundsAssumption DEF Callers
<1>1. ASSUME NEW c \in Clients, Request(c) PROVE IInv'
  <2>1. PICK t \in Tasks : AddLoad(c, t, 0)
    BY <1>1 DEF Request
  <2>2. [task |-> t, cur |-> 0, seen |-> cache] \in Pending(reported)
    BY <1>0 DEF Queue, Pending
  <2>3. Queue'
    BY <1>0, <1>1, <2>1, <2>2 DEF Queue, Request, AddLoad, made_
  <2>4. reported' \in [Tasks -> Nat] /\ Flags' /\ Start' /\ Loop'
    BY <1>1 DEF Request, Flags, Start, Loop, start, loop, made_
  <2>5. Batches' /\ Table'
    BY <1>1 DEF Request, Batches, Table, made_
  <2>6. QED  BY <2>3, <2>4, <2>5
<1>2. ASSUME NEW c \in Callers, AddStore(c) PROVE IInv'
  <2>1. adding[c] \in Pending(reported)
    BY <1>2 DEF AddStore, Queue
  <2>2. /\ [task |-> adding[c].task, cur |-> adding[c].cur] \in Backed(reported)
        /\ adding[c].seen \in Seq(Backed(reported)) /\ adding[c].task \in Tasks
    BY <2>1 DEF Pending, Backed, Infos
  <2>3. cache' \in Seq(Backed(reported)) /\ cache' # <<>>
    BY <1>2, <2>2, AppendProperties DEF AddStore
  <2>4. Queue'
    BY <1>2, <2>3 DEF Queue, AddStore, made_
  <2>5. Loop'
    BY <1>2, <2>3 DEF Loop, AddStore, loop, made_
  <2>6. reported' \in [Tasks -> Nat] /\ Flags' /\ Start'
    BY <1>2, <2>2 DEF AddStore, Flags, Start, start, made_
  <2>7. Batches' /\ Table'
    BY <1>2 DEF AddStore, Batches, Table, made_
  <2>8. QED  BY <2>4, <2>5, <2>6, <2>7
<1>3. CASE FileRemove
  <2>1. reported' \in [Tasks -> Nat] /\ Flags' /\ Start' /\ Queue' /\ Loop'
    BY <1>3 DEF FileRemove, Flags, Start, Queue, Loop, start, queue, loop, made_
  <2>2. Batches' /\ Table'
    BY <1>3 DEF FileRemove, Batches, Table, made_
  <2>3. QED  BY <2>1, <2>2
<1>4. CASE HistoryAdd
  <2>1. PICK t \in history :
          /\ recovering' = t /\ history' = history \ {t}
          /\ IF file THEN AddLoad(Main, t, table[t].cur) ELSE UNCHANGED adding
    BY <1>4 DEF HistoryAdd
  <2>2. t \in Tasks
    BY DEF Start
  <2>3. [task |-> t, cur |-> table[t].cur, seen |-> cache] \in Pending(reported)
    BY <1>0, <2>2 DEF Queue, Table, Rows, Pending
  <2>4. Queue'
    BY <1>0, <1>4, <2>1, <2>3 DEF Queue, HistoryAdd, AddLoad, made_
  <2>5. Start'
    BY <2>1, <2>2 DEF Start
  <2>6. reported' \in [Tasks -> Nat] /\ Flags' /\ Loop'
    BY <1>4 DEF HistoryAdd, Flags, Loop, loop, made_
  <2>7. Batches' /\ Table'
    BY <1>4 DEF HistoryAdd, Batches, Table, made_
  <2>8. QED  BY <2>4, <2>5, <2>6, <2>7
<1>5. CASE HistoryRmv
  <2>1. recovering \in Tasks
    BY <1>5 DEF HistoryRmv, Start
  <2>2. Table'
    BY <1>5, <2>1 DEF HistoryRmv, Rmv, Table, Rows, made_
  <2>3. reported' \in [Tasks -> Nat] /\ Flags' /\ Start' /\ Queue' /\ Loop'
    BY <1>5 DEF HistoryRmv, Flags, Start, Queue, Loop, queue, loop, made_
  <2>4. Batches'
    BY <1>5 DEF HistoryRmv, Batches, made_
  <2>5. QED  BY <2>2, <2>3, <2>4
<1>6. QED  BY <1>1, <1>2, <1>3, <1>4, <1>5 DEF Recovery

(* taskLoop moves progress from the queue to a new batch. *)
LEMMA TaskLoopSteps ==
  ASSUME IInv, TakeFirst \/ TakeRest \/ TakeStore \/ CreateBatch \/ NothingToTake \/ PollEnd
  PROVE  IInv'
<1> USE DEF IInv
<1>0. Total \in Nat
  BY BoundsAssumption
<1>1. CASE TakeFirst
  <2>1. Head(cache) \in Backed(reported) /\ cache # <<>>
    BY <1>1, FirstAndRest DEF TakeFirst, Queue
  <2>2. <<>> \in Seq(Backed(reported))
    BY EmptySeq
  <2>3. taken' \in Taken(reported)
    BY <1>1, <2>1, <2>2 DEF TakeFirst, Taken
  <2>4. Loop'
    BY <1>1, <2>1, <2>3 DEF TakeFirst, Loop, queue, made_
  <2>5. reported' \in [Tasks -> Nat] /\ Flags' /\ Start' /\ Queue'
    BY <1>1 DEF TakeFirst, Flags, Start, Queue, start, queue, made_
  <2>6. Batches' /\ Table'
    BY <1>1 DEF TakeFirst, Batches, Table, made_
  <2>7. QED  BY <2>4, <2>5, <2>6
<1>2. CASE TakeRest
  <2>1. Tail(cache) \in Seq(Backed(reported))
    BY <1>2, FirstAndRest DEF TakeRest, Queue, Loop
  <2>2. taken' \in Taken(reported)
    BY <1>2, <2>1 DEF TakeRest, Loop, Taken
  <2>3. Loop'
    BY <1>2, <2>2 DEF TakeRest, Loop, made_
  <2>4. reported' \in [Tasks -> Nat] /\ Flags' /\ Start' /\ Queue'
    BY <1>2 DEF TakeRest, Flags, Start, Queue, start, queue, made_
  <2>5. Batches' /\ Table'
    BY <1>2 DEF TakeRest, Batches, Table, made_
  <2>6. QED  BY <2>3, <2>4, <2>5
<1>3. CASE TakeStore
  <2>1. taken \in Taken(reported)
    BY <1>3 DEF TakeStore, Loop
  <2>2. Queue'
    BY <1>3, <2>1 DEF TakeStore, Queue, Taken, made_
  <2>3. Loop'
    BY <1>3, <2>1 DEF TakeStore, Loop, made_
  <2>4. reported' \in [Tasks -> Nat] /\ Flags' /\ Start'
    BY <1>3 DEF TakeStore, Flags, Start, start, made_
  <2>5. Batches' /\ Table'
    BY <1>3 DEF TakeStore, Batches, Table, made_
  <2>6. QED  BY <2>2, <2>3, <2>4, <2>5
<1>4. CASE CreateBatch
  <2> DEFINE new == [task |-> taken.first.task, began |-> taken.first.cur,
                     cur |-> taken.first.cur, stage |-> "wave"]
  <2>1. taken.first \in Backed(reported)
    BY <1>4 DEF CreateBatch, Loop, Taken
  <2>2. new \in Made(reported) /\ taken.first.task \in Tasks
    BY <1>0, <2>1 DEF Backed, Infos, Made
  <2>3. made' = Append(made, new) /\ batches' = Append(batches, Len(made) + 1)
    BY <1>4 DEF CreateBatch
  <2> HIDE DEF new
  <2>4. made' \in Seq(Made(reported)) /\ Len(made') = Len(made) + 1 /\ Len(made) \in Nat
        /\ DOMAIN made = 1 .. Len(made) /\ DOMAIN made' = 1 .. Len(made')
    BY <2>2, <2>3, AppendProperties, LenProperties DEF Batches
  <2>5. batches \in Seq(DOMAIN made')
    <3>1. DOMAIN made \subseteq DOMAIN made'
      BY <2>4
    <3>2. QED  BY <3>1, SeqMonotonic DEF Batches
  <2>6. batches' \in Seq(DOMAIN made')
    BY <2>3, <2>4, <2>5, AppendProperties
  <2>7. Batches'
    BY <1>4, <2>4, <2>6 DEF CreateBatch, Batches
  <2>8. Table'
    BY <1>4, <2>2 DEF CreateBatch, NewRow, Table, Rows
  <2>9. reported' \in [Tasks -> Nat] /\ Flags' /\ Start' /\ Queue' /\ Loop'
    BY <1>4 DEF CreateBatch, Flags, Start, Queue, Loop, start, queue
  <2>10. QED  BY <2>7, <2>8, <2>9
<1>5. CASE NothingToTake \/ PollEnd
  <2>1. Loop'
    BY <1>5 DEF NothingToTake, PollEnd, Loop, queue, made_
  <2>2. reported' \in [Tasks -> Nat] /\ Flags' /\ Start' /\ Queue'
    BY <1>5 DEF NothingToTake, PollEnd, Flags, Start, Queue, start, queue, made_
  <2>3. Batches' /\ Table'
    BY <1>5 DEF NothingToTake, PollEnd, Batches, Table, made_
  <2>4. QED  BY <2>1, <2>2, <2>3
<1>6. QED  BY <1>1, <1>2, <1>3, <1>4, <1>5

(* What a step that replaces one batch, after some bots may have reported, has to show. *)
LEMMA ReplacesOne ==
  ASSUME IInv, reported' \in [Tasks -> Nat], \A t \in Tasks : reported[t] <= reported'[t],
         NEW o \in DOMAIN made, NEW x \in Made(reported'), made' = [made EXCEPT ![o] = x],
         UNCHANGED <<up, start, queue, loop, file, crashes>>,
         batches' \in Seq(DOMAIN made), generated' \in SUBSET Tasks,
         \A t \in generated' : reported[t] >= Total
  PROVE  Flags' /\ Start' /\ Queue' /\ Loop' /\ Batches'
<1> USE DEF IInv
<1>1. /\ Seq(Backed(reported)) \subseteq Seq(Backed(reported'))
      /\ Pending(reported) \subseteq Pending(reported')
      /\ Taken(reported) \subseteq Taken(reported')
      /\ Made(reported) \subseteq Made(reported')
  BY MoreReports
<1>2. made' \in Seq(Made(reported')) /\ DOMAIN made' = DOMAIN made
  BY <1>1, Replaced DEF Batches
<1>3. \A t \in generated' : reported'[t] >= Total
  BY BoundsAssumption
<1>4. Batches'
  BY <1>2, <1>3 DEF Batches
<1>5. Queue'
  BY <1>1 DEF Queue, queue
<1>6. Loop'
  BY <1>1 DEF Loop, loop, queue
<1>7. Flags' /\ Start'
  BY DEF Flags, Start, start, queue
<1>8. QED  BY <1>4, <1>5, <1>6, <1>7

(* A batch makes progress only with a report, and is done only with all of them. *)
LEMMA BatchSteps ==
  ASSUME IInv, NEW o \in DOMAIN made, Report(o) \/ WaveEnds(o)
  PROVE  IInv'
<1> USE DEF IInv
<1>0. Total \in Nat
  BY BoundsAssumption
<1>1. /\ made[o] \in Made(reported)
      /\ made[o].task \in Tasks /\ made[o].cur \in 0 .. Total + 1 /\ made[o].began \in 0 .. Total
      /\ made[o].cur <= reported[made[o].task]
  <2>1. made[o] \in Made(reported)
    BY ElementOfSeq, LenProperties DEF Batches
  <2>2. QED  BY <2>1 DEF Made
<1>2. CASE Report(o)
  <2> DEFINE x == [made[o] EXCEPT !.cur = @ + 1]
  <2>1. /\ reported' = [reported EXCEPT ![made[o].task] = @ + 1]
        /\ made' = [made EXCEPT ![o] = x] /\ made[o].cur + 1 <= Total + 1
        /\ made[o].stage = "wave"
    BY <1>0, <1>1, <1>2 DEF Report, MayReport
  <2>2. reported' \in [Tasks -> Nat] /\ \A t \in Tasks : reported[t] <= reported'[t]
    BY <1>1, <2>1
  <2>3. x \in Made(reported')
    BY <1>0, <1>1, <2>1 DEF Made
  <2>4. Flags' /\ Start' /\ Queue' /\ Loop' /\ Batches'
    <3> HIDE DEF x
    <3>1. QED  BY <1>2, <2>1, <2>2, <2>3, ReplacesOne DEF Report, Batches
  <2>5. Table'
    BY <1>2, <2>2 DEF Report, Table, Rows
  <2>6. QED  BY <2>2, <2>4, <2>5
<1>3. CASE WaveEnds(o)
  <2>1. PICK late \in {0, 1} :
          /\ late = 1 => MayReport(o)
          /\ made' = [made EXCEPT ![o].cur = made[o].cur + late,
                                  ![o].stage = IF Reached(made[o].cur + late) THEN "done" ELSE "wave"]
          /\ reported' = [reported EXCEPT ![made[o].task] = @ + late]
    BY <1>3 DEF WaveEnds, EndWave
  <2> DEFINE x == [made[o] EXCEPT !.cur = made[o].cur + late,
                                  !.stage = IF Reached(made[o].cur + late) THEN "done" ELSE "wave"]
  <2>2. made' = [made EXCEPT ![o] = x]
    BY <1>1, <2>1 DEF Made
  <2>3. reported' \in [Tasks -> Nat] /\ \A t \in Tasks : reported[t] <= reported'[t]
    BY <1>1, <2>1
  <2>4. made[o].cur + late \in 0 .. Total + 1
    BY <1>0, <1>1, <2>1 DEF MayReport
  <2>5. x \in Made(reported')
    BY <1>0, <1>1, <2>1, <2>4 DEF Made, Reached
  <2>6. Flags' /\ Start' /\ Queue' /\ Loop' /\ Batches'
    <3> HIDE DEF x
    <3>1. QED  BY <1>3, <2>2, <2>3, <2>5, ReplacesOne DEF WaveEnds, EndWave, Batches
  <2>7. Table'
    <3>1. table' = [table EXCEPT ![made[o].task] = Updated(@, made[o].cur)]
      BY <1>3 DEF WaveEnds, EndWave
    <3>2. Updated(table[made[o].task], made[o].cur) \in Rows
      BY <1>0, <1>1 DEF Updated, Rows, Table
    <3>3. Updated(table[made[o].task], made[o].cur).cur <= reported[made[o].task]
      BY <1>0, <1>1 DEF Updated, Rows, Table
    <3>4. QED  BY <1>0, <1>1, <2>3, <3>1, <3>2, <3>3 DEF Table, Rows
  <2>8. QED  BY <2>3, <2>6, <2>7
<1>4. QED  BY <1>2, <1>3

(* Removing an element of a sequence removes it from what is counted, and nothing else. *)
LEMMA WithoutOne ==
  ASSUME NEW S, NEW s \in Seq(S), NEW k \in DOMAIN s, NEW G
  PROVE  /\ Without(s, k) \in Seq(S)
         /\ Cardinality({j \in DOMAIN Without(s, k) : Without(s, k)[j] \in G})
              = Cardinality({j \in DOMAIN s : s[j] \in G}) - (IF s[k] \in G THEN 1 ELSE 0)
<1> DEFINE w == Without(s, k)
           n == Len(s)
           A == {j \in DOMAIN s : s[j] \in G}
           B == {j \in DOMAIN w : w[j] \in G}
           f == [j \in B |-> IF j < k THEN j ELSE j + 1]
<1>1. n \in Nat /\ DOMAIN s = 1 .. n /\ k \in 1 .. n /\ \A j \in 1 .. n : s[j] \in S
  BY LenProperties, ElementOfSeq
<1>2. /\ SubSeq(s, 1, k - 1) \in Seq(S) /\ Len(SubSeq(s, 1, k - 1)) = k - 1
      /\ \A j \in 1 .. k - 1 : SubSeq(s, 1, k - 1)[j] = s[j]
  <2> HIDE DEF n
  <2>1. \A j \in 1 .. k - 1 : s[j] \in S
    BY <1>1
  <2>2. k - 1 \in Int /\ 1 \in Int
    BY <1>1
  <2>3. /\ SubSeq(s, 1, k - 1) \in Seq(S)
        /\ Len(SubSeq(s, 1, k - 1)) = IF 1 <= k - 1 THEN (k - 1) - 1 + 1 ELSE 0
        /\ \A j \in 1 .. (k - 1) - 1 + 1 : SubSeq(s, 1, k - 1)[j] = s[1 + j - 1]
    BY <2>1, <2>2, SubSeqProperties
  <2>4. QED  BY <1>1, <2>3
<1>3. /\ SubSeq(s, k + 1, n) \in Seq(S) /\ Len(SubSeq(s, k + 1, n)) = n - k
      /\ \A j \in 1 .. n - k : SubSeq(s, k + 1, n)[j] = s[k + j]
  <2> HIDE DEF n
  <2>1. \A j \in k + 1 .. n : s[j] \in S
    BY <1>1
  <2>2. k + 1 \in Int /\ n \in Int
    BY <1>1
  <2>3. /\ SubSeq(s, k + 1, n) \in Seq(S)
        /\ Len(SubSeq(s, k + 1, n)) = IF k + 1 <= n THEN n - (k + 1) + 1 ELSE 0
        /\ \A j \in 1 .. n - (k + 1) + 1 : SubSeq(s, k + 1, n)[j] = s[(k + 1) + j - 1]
    BY <2>1, <2>2, SubSeqProperties
  <2>4. QED  BY <1>1, <2>3
<1>4. /\ w \in Seq(S) /\ Len(w) = n - 1 /\ DOMAIN w = 1 .. n - 1
      /\ \A j \in 1 .. n - 1 : w[j] = s[IF j < k THEN j ELSE j + 1]
  <2> DEFINE p == SubSeq(s, 1, k - 1)
             q == SubSeq(s, k + 1, n)
  <2>1. w = p \o q
    BY DEF Without
  <2>0. p \in Seq(S) /\ Len(p) = k - 1 /\ q \in Seq(S) /\ Len(q) = n - k
    BY <1>2, <1>3
  <2>2. /\ w \in Seq(S) /\ Len(w) = (k - 1) + (n - k)
        /\ \A j \in 1 .. (k - 1) + (n - k) :
              w[j] = IF j <= k - 1 THEN SubSeq(s, 1, k - 1)[j] ELSE SubSeq(s, k + 1, n)[j - (k - 1)]
    <3> HIDE DEF w, p, q, n
    <3>1. /\ p \o q \in Seq(S) /\ Len(p \o q) = Len(p) + Len(q)
          /\ \A j \in 1 .. Len(p) + Len(q) :
                (p \o q)[j] = IF j <= Len(p) THEN p[j] ELSE q[j - Len(p)]
      BY <2>0, ConcatProperties
    <3>2. /\ w \in Seq(S) /\ Len(w) = (k - 1) + (n - k)
          /\ \A j \in 1 .. (k - 1) + (n - k) :
                w[j] = IF j <= k - 1 THEN p[j] ELSE q[j - (k - 1)]
      BY <2>0, <2>1, <3>1
    <3>3. QED  BY <3>2 DEF p, q
  <2> HIDE DEF w, n
  <2>3. Len(w) = n - 1 /\ DOMAIN w = 1 .. n - 1
    BY <1>1, <2>2, LenProperties
  <2>4. ASSUME NEW j \in 1 .. n - 1 PROVE w[j] = s[IF j < k THEN j ELSE j + 1]
    <3>1. CASE j < k
      BY <1>1, <1>2, <2>2, <3>1
    <3>2. CASE ~(j < k)
      <4>1. j - (k - 1) \in 1 .. n - k /\ k + (j - (k - 1)) = j + 1
        BY <1>1, <3>2
      <4>2. w[j] = SubSeq(s, k + 1, n)[j - (k - 1)]
        BY <1>1, <2>2, <3>2
      <4>3. QED  BY <1>3, <3>2, <4>1, <4>2
    <3>3. QED  BY <3>1, <3>2
  <2>5. QED  BY <2>2, <2>3, <2>4
<1>5. f \in [B -> A \ {k}]
  <2> HIDE DEF w, n
  <2>1. ASSUME NEW j \in B PROVE (IF j < k THEN j ELSE j + 1) \in A \ {k}
    BY <1>1, <1>4
  <2>2. QED  BY <2>1
<1>6. \A i, j \in B : f[i] = f[j] => i = j
  <2> HIDE DEF w, n
  <2>1. \A j \in B : j \in 1 .. n - 1
    BY <1>4
  <2>2. QED  BY <1>1, <2>1
<1>7. \A a \in A \ {k} : \E j \in B : f[j] = a
  <2> HIDE DEF w, n
  <2>1. SUFFICES ASSUME NEW a \in A \ {k} PROVE \E j \in B : f[j] = a
    OBVIOUS
  <2>2. a \in 1 .. n /\ a # k /\ s[a] \in G
    BY <1>1
  <2>3. CASE a < k
    <3>1. a \in 1 .. n - 1 /\ w[a] = s[a]
      BY <1>1, <1>4, <2>2, <2>3
    <3>2. a \in B
      BY <1>4, <2>2, <3>1
    <3>3. QED  BY <2>3, <3>2
  <2>4. CASE ~(a < k)
    <3>1. a - 1 \in 1 .. n - 1 /\ ~(a - 1 < k) /\ (a - 1) + 1 = a
      BY <1>1, <2>2, <2>4
    <3>2. w[a - 1] = s[a]
      BY <1>4, <3>1
    <3>3. a - 1 \in B
      BY <1>4, <2>2, <3>1, <3>2
    <3>4. f[a - 1] = a
      BY <3>1, <3>3
    <3>5. QED  BY <3>3, <3>4
  <2>5. QED  BY <2>3, <2>4
<1>8. ExistsBijection(B, A \ {k})
  <2> HIDE DEF f, A, B
  <2>1. f \in Injection(B, A \ {k})
    BY <1>5, <1>6 DEF Injection, IsInjective
  <2>2. f \in Surjection(B, A \ {k})
    BY <1>5, <1>7 DEF Surjection
  <2>3. QED  BY <2>1, <2>2 DEF ExistsBijection, Bijection
<1>9. IsFiniteSet(A) /\ IsFiniteSet(B) /\ Cardinality(A) \in Nat
  <2> HIDE DEF w, n
  <2>1. A \subseteq 1 .. n /\ B \subseteq 1 .. n - 1
    BY <1>1, <1>4
  <2>2. IsFiniteSet(1 .. n) /\ IsFiniteSet(1 .. n - 1)
    BY <1>1, FS_Interval
  <2>3. IsFiniteSet(A) /\ IsFiniteSet(B)
    BY <2>1, <2>2, FS_Subset
  <2>4. QED  BY <2>3, FS_CardinalityType
<1>10. Cardinality(A \ {k}) = Cardinality(B)
  <2> HIDE DEF A, B
  <2>1. QED  BY <1>8, <1>9, FS_Bijection
<1>11. Cardinality(B) = Cardinality(A) - (IF s[k] \in G THEN 1 ELSE 0)
  <2>1. k \in A <=> s[k] \in G
    OBVIOUS
  <2> HIDE DEF A, B
  <2>2. CASE k \in A
    BY <1>9, <1>10, <2>1, <2>2, FS_RemoveElement
  <2>3. CASE k \notin A
    <3>1. Cardinality(A \ {k}) = Cardinality(A)
      BY <1>9, <2>3, FS_RemoveElement
    <3>2. ~(s[k] \in G)
      BY <2>1, <2>3
    <3>3. Cardinality(A) - 0 = Cardinality(A)
      BY <1>9
    <3>4. QED  BY <1>10, <3>1, <3>2, <3>3
  <2>4. QED  BY <2>2, <2>3
<1>12. QED  BY <1>4, <1>11

(* popBatch takes one entry of the batch's task off the list. *)
LEMMA PopSteps ==
  ASSUME IInv, NEW o \in DOMAIN made, PopBatch(o)
  PROVE  IInv'
<1> USE DEF IInv
<1>0. Total \in Nat
  BY BoundsAssumption
<1> DEFINE x == [made[o] EXCEPT !.stage = "popped"]
<1>1. made[o] \in Made(reported) /\ made[o].task \in Tasks
  <2>1. made[o] \in Made(reported)
    BY ElementOfSeq, LenProperties DEF Batches
  <2>2. QED  BY <2>1 DEF Made
<1>2. made[o].stage = "done" /\ made' = [made EXCEPT ![o] = x] /\ reported' = reported
  BY DEF PopBatch
<1>3. x \in Made(reported) /\ reported[made[o].task] >= Total
  BY <1>0, <1>1, <1>2 DEF Made
<1>4. batches' \in Seq(DOMAIN made)
  <2>1. PICK k \in DOMAIN batches : batches' = Without(batches, k)
    BY DEF PopBatch
  <2>2. QED  BY <2>1, WithoutOne DEF Batches
<1>5. generated' \in SUBSET Tasks /\ \A t \in generated' : reported[t] >= Total
  BY <1>1, <1>3 DEF PopBatch, Batches
<1>6. Flags' /\ Start' /\ Queue' /\ Loop' /\ Batches'
  <2>1. reported' \in [Tasks -> Nat] /\ \A t \in Tasks : reported[t] <= reported'[t]
    BY <1>2
  <2>2. UNCHANGED <<up, start, queue, loop, file, crashes>>
    BY DEF PopBatch
  <2> HIDE DEF x
  <2>3. QED  BY <1>2, <1>3, <1>4, <1>5, <2>1, <2>2, ReplacesOne
<1>7. Table'
  BY <1>2 DEF PopBatch, Table
<1>8. QED  BY <1>2, <1>6, <1>7

(* A crash keeps the table and what has been reported, a restart lists the table. *)
LEMMA CrashSteps ==
  ASSUME IInv, Crash \/ CreateNil \/ Restart
  PROVE  IInv'
<1> USE DEF IInv
<1>0. Total \in Nat /\ MaxCrashes \in Nat
  BY BoundsAssumption
<1>1. CASE Crash \/ CreateNil
  <2>1. GoesDown /\ crashes' \in 0 .. MaxCrashes
    BY <1>0, <1>1 DEF Crash, CreateNil, Flags
  <2>2. reported' \in [Tasks -> Nat] /\ Flags' /\ Start'
    BY <2>1 DEF GoesDown, Flags, Start
  <2>3. Queue' /\ Loop'
    BY <2>1, EmptySeq DEF GoesDown, Queue, Loop
  <2>4. Batches'
    BY <2>1, EmptySeq DEF GoesDown, Batches
  <2>5. Table'
    BY <2>1 DEF GoesDown, Table
  <2>6. QED  BY <2>2, <2>3, <2>4, <2>5
<1>2. CASE Restart
  <2>1. reported' \in [Tasks -> Nat] /\ Flags' /\ Start' /\ Queue' /\ Loop'
    BY <1>2 DEF Restart, Flags, Start, Queue, Loop, queue, loop, made_
  <2>2. Batches' /\ Table'
    BY <1>2 DEF Restart, Batches, Table, made_
  <2>3. QED  BY <2>1, <2>2
<1>3. QED  BY <1>1, <1>2

(* Every step of callers, taskLoop, batches and recovery preserves the invariant. *)
LEMMA StepInductive == IInv /\ [Next]_vars => IInv'
<1> SUFFICES ASSUME IInv, [Next]_vars PROVE IInv'
  OBVIOUS
<1>1. CASE TaskLoop
  BY <1>1, TaskLoopSteps, CrashSteps DEF TaskLoop
<1>2. CASE Recovery \/ FileRemove \/ (\E c \in Callers : AddStore(c))
             \/ (\E c \in Clients : Request(c))
  BY <1>2, QueueSteps
<1>3. CASE Crash \/ Restart
  BY <1>3, CrashSteps
<1>4. CASE \E o \in DOMAIN made : PopBatch(o) \/ Report(o) \/ WaveEnds(o)
  BY <1>4, PopSteps, BatchSteps
<1>5. CASE UNCHANGED vars
  <2>1. reported' \in [Tasks -> Nat] /\ Flags' /\ Start' /\ Queue' /\ Loop'
    BY <1>5 DEF IInv, vars, Flags, Start, Queue, Loop, start, queue, loop, made_
  <2>2. Batches' /\ Table'
    BY <1>5 DEF IInv, vars, Batches, Table, made_
  <2>3. QED  BY <2>1, <2>2 DEF IInv
<1>6. QED  BY <1>1, <1>2, <1>3, <1>4, <1>5 DEF Next

-----------------------------------------------------------------------------
(* The invariant holds in every reachable state of the factory. *)
THEOREM Inductive == Spec => []IInv
<1>1. QED
  BY InitInductive, StepInductive, PTL DEF Spec

(* The queue, the batches and the table only ever hold progress within the total. *)
THEOREM TypeCorrect == Spec => []TypeOK
<1>1. ASSUME IInv PROVE TypeOK
  <2> USE <1>1 DEF IInv
  <2>1. Backed(reported) \subseteq Infos /\ Seq(Backed(reported)) \subseteq Seq(Infos)
    <3>1. Backed(reported) \subseteq Infos
      BY DEF Backed
    <3>2. QED  BY <3>1, SeqMonotonic
  <2>2. \A c \in Callers : adding[c] # None =>
           /\ adding[c].task \in Tasks /\ adding[c].cur \in 0 .. Total
           /\ adding[c].seen \in Seq(Infos)
    BY <2>1 DEF Queue, Pending
  <2>3. cache \in Seq(Infos)
    BY <2>1 DEF Queue
  <2>4. /\ loopPc \in {"top", "rest", "take", "create", "poll"}
        /\ loopPc \in {"rest", "take", "create"} =>
             taken.first \in Infos /\ taken.rest \in Seq(Infos)
    BY <2>1 DEF Loop, Taken
  <2>5. made \in Seq([task : Tasks, began : 0 .. Total, cur : 0 .. Total + 1,
                     stage : {"wave", "done", "popped"}])
    <3>1. Made(reported) \subseteq [task : Tasks, began : 0 .. Total, cur : 0 .. Total + 1,
                                   stage : {"wave", "done", "popped"}]
      BY DEF Made
    <3>2. QED  BY <3>1, SeqMonotonic DEF Batches
  <2>6. batches \in Seq(DOMAIN made) /\ generated \in SUBSET Tasks
    BY DEF Batches
  <2>7. table \in [Tasks -> [state : {"none", "live", "deleted"}, cur : 0 .. Total]]
    BY DEF Table, Rows
  <2>8. Flags /\ Start /\ reported \in [Tasks -> Nat]
    OBVIOUS
  <2>9. QED
    BY <2>2, <2>3, <2>4, <2>5, <2>6, <2>7, <2>8 DEF TypeOK, Flags, Start
<1>2. QED
  BY <1>1, Inductive, PTL

(* Whatever the crashes and lost updates, no progress is claimed that bots have not made. *)
THEOREM ProgressIsBacked == Spec => []ProgressBacked
<1>1. ASSUME IInv PROVE ProgressBacked
  <2> USE <1>1 DEF IInv
  <2>1. \A k \in DOMAIN cache : cache[k] \in Backed(reported)
    BY ElementOfSeq, LenProperties DEF Queue
  <2>2. \A o \in DOMAIN made : made[o] \in Made(reported)
    BY ElementOfSeq, LenProperties DEF Batches
  <2>3. \A t \in Tasks : table[t].cur <= reported[t]
    BY DEF Table
  <2>4. QED  BY <2>1, <2>2, <2>3 DEF ProgressBacked, Backed, Made
<1>2. QED
  BY <1>1, Inductive, PTL

(* A report is generated only when all bots of the task have reported, crashes included. *)
THEOREM ReportsAreComplete == Spec => []ReportsComplete
<1>1. IInv => ReportsComplete
  BY DEF IInv, Batches, ReportsComplete
<1>2. QED
  BY <1>1, Inductive, PTL

-----------------------------------------------------------------------------
(* The list of batches: what it shows of a task, and the batches of that task at large. *)
Listed(t) == {k \in DOMAIN batches : made[batches[k]].task = t}
AtLarge(t) == {o \in DOMAIN made : made[o].task = t /\ made[o].stage # "popped"}

(* Both are finite, so their elements can be counted. *)
LEMMA ListedFinite ==
  ASSUME IInv, NEW t
  PROVE  /\ IsFiniteSet(Listed(t)) /\ Listed(t) \subseteq 1 .. Len(batches)
         /\ IsFiniteSet(AtLarge(t)) /\ AtLarge(t) \subseteq 1 .. Len(made)
         /\ Cardinality(Listed(t)) \in Nat /\ Cardinality(AtLarge(t)) \in Nat
<1>1. /\ DOMAIN batches = 1 .. Len(batches) /\ Len(batches) \in Nat
      /\ DOMAIN made = 1 .. Len(made) /\ Len(made) \in Nat
  BY LenProperties DEF IInv, Batches
<1>2. Listed(t) \subseteq 1 .. Len(batches) /\ AtLarge(t) \subseteq 1 .. Len(made)
  BY <1>1 DEF Listed, AtLarge
<1>3. IsFiniteSet(1 .. Len(batches)) /\ IsFiniteSet(1 .. Len(made))
  BY <1>1, FS_Interval
<1>4. IsFiniteSet(Listed(t)) /\ IsFiniteSet(AtLarge(t))
  BY <1>2, <1>3, FS_Subset
<1>5. QED  BY <1>2, <1>4, FS_CardinalityType

(* Creating a batch adds one to both. *)
LEMMA CreateCounts ==
  ASSUME IInv, CreateBatch, NEW t \in Tasks, Cardinality(Listed(t)) = Cardinality(AtLarge(t))
  PROVE  Cardinality(Listed(t)') = Cardinality(AtLarge(t)')
<1> DEFINE new == [task |-> taken.first.task, began |-> taken.first.cur,
                   cur |-> taken.first.cur, stage |-> "wave"]
           n == Len(made)
           m == Len(batches)
<1>1. made' = Append(made, new) /\ batches' = Append(batches, n + 1)
  BY DEF CreateBatch
<1>2. new.task = taken.first.task /\ new.stage # "popped"
  OBVIOUS
<1> HIDE DEF new
<1>3. /\ n \in Nat /\ DOMAIN made = 1 .. n
      /\ m \in Nat /\ DOMAIN batches = 1 .. m /\ \A k \in 1 .. m : batches[k] \in 1 .. n
  BY LenProperties, ElementOfSeq DEF IInv, Batches
<1>4. /\ DOMAIN made' = 1 .. n + 1 /\ made'[n + 1] = new
      /\ \A k \in 1 .. n : made'[k] = made[k]
  BY <1>1, <1>3 DEF IInv, Batches
<1>5. /\ DOMAIN batches' = 1 .. m + 1 /\ batches'[m + 1] = n + 1
      /\ \A k \in 1 .. m : batches'[k] = batches[k]
  BY <1>1, <1>3 DEF IInv, Batches
<1>6. /\ IsFiniteSet(Listed(t)) /\ Listed(t) \subseteq 1 .. m
      /\ IsFiniteSet(AtLarge(t)) /\ AtLarge(t) \subseteq 1 .. n
  BY ListedFinite
<1> HIDE DEF n, m
<1>7. CASE new.task = t
  <2>1. Listed(t)' = Listed(t) \cup {m + 1} /\ m + 1 \notin Listed(t)
    BY <1>3, <1>4, <1>5, <1>6, <1>7 DEF Listed
  <2>2. AtLarge(t)' = AtLarge(t) \cup {n + 1} /\ n + 1 \notin AtLarge(t)
    BY <1>2, <1>3, <1>4, <1>6, <1>7 DEF AtLarge
  <2>3. Cardinality(Listed(t)') = Cardinality(Listed(t)) + 1
    BY <1>6, <2>1, FS_AddElement
  <2>4. Cardinality(AtLarge(t)') = Cardinality(AtLarge(t)) + 1
    BY <1>6, <2>2, FS_AddElement
  <2>5. QED  BY <2>3, <2>4
<1>8. CASE new.task # t
  <2>1. Listed(t)' = Listed(t)
    BY <1>3, <1>4, <1>5, <1>8 DEF Listed
  <2>2. AtLarge(t)' = AtLarge(t)
    BY <1>3, <1>4, <1>8 DEF AtLarge
  <2>3. QED  BY <2>1, <2>2
<1>9. QED  BY <1>7, <1>8

(* Popping one takes one from both, though not necessarily the entry of the batch popped. *)
LEMMA PopCounts ==
  ASSUME IInv, NEW o \in DOMAIN made, PopBatch(o),
         NEW t \in Tasks, Cardinality(Listed(t)) = Cardinality(AtLarge(t))
  PROVE  Cardinality(Listed(t)') = Cardinality(AtLarge(t)')
<1> DEFINE G == {p \in DOMAIN made : made[p].task = t}
<1>1. PICK k \in DOMAIN batches :
         made[batches[k]].task = made[o].task /\ batches' = Without(batches, k)
  BY DEF PopBatch
<1>2. /\ made[o].stage = "done" /\ made' = [made EXCEPT ![o].stage = "popped"]
  BY DEF PopBatch
<1>3. \A p \in DOMAIN made : made[p] \in Made(reported)
  BY ElementOfSeq, LenProperties DEF IInv, Batches
<1>4. /\ DOMAIN made' = DOMAIN made
      /\ \A p \in DOMAIN made : made'[p].task = made[p].task
      /\ \A p \in DOMAIN made : p # o => made'[p] = made[p]
      /\ made'[o].stage = "popped"
  BY <1>2, <1>3, LenProperties DEF IInv, Batches, Made
<1>5. batches \in Seq(DOMAIN made) /\ batches' \in Seq(DOMAIN made)
  BY <1>1, WithoutOne DEF IInv, Batches
<1>6. /\ \A j \in DOMAIN batches : batches[j] \in DOMAIN made
      /\ \A j \in DOMAIN batches' : batches'[j] \in DOMAIN made
  BY <1>5, ElementOfSeq, LenProperties
<1>7. /\ Listed(t) = {j \in DOMAIN batches : batches[j] \in G}
      /\ Listed(t)' = {j \in DOMAIN batches' : batches'[j] \in G}
  BY <1>4, <1>6 DEF Listed
<1>8. Cardinality(Listed(t)') = Cardinality(Listed(t)) - (IF batches[k] \in G THEN 1 ELSE 0)
  <2>1. Cardinality({j \in DOMAIN Without(batches, k) : Without(batches, k)[j] \in G})
          = Cardinality({j \in DOMAIN batches : batches[j] \in G})
              - (IF batches[k] \in G THEN 1 ELSE 0)
    <3> HIDE DEF G
    <3>1. QED  BY <1>5, WithoutOne
  <2> HIDE DEF G
  <2>2. QED  BY <1>1, <1>7, <2>1
<1>9. batches[k] \in G <=> made[o].task = t
  BY <1>1, <1>6
<1>10. /\ IsFiniteSet(AtLarge(t)) /\ Cardinality(AtLarge(t)) \in Nat
       /\ Cardinality(Listed(t)) \in Nat
  BY ListedFinite
<1> HIDE DEF G
<1>11. CASE made[o].task = t
  <2>1. AtLarge(t)' = AtLarge(t) \ {o} /\ o \in AtLarge(t)
    BY <1>2, <1>4, <1>11 DEF AtLarge
  <2>2. Cardinality(AtLarge(t)') = Cardinality(AtLarge(t)) - 1
    BY <1>10, <2>1, FS_RemoveElement
  <2>3. QED  BY <1>8, <1>9, <1>11, <2>2
<1>12. CASE made[o].task # t
  <2>1. AtLarge(t)' = AtLarge(t)
    BY <1>4, <1>12 DEF AtLarge
  <2>2. Cardinality(Listed(t)') = Cardinality(Listed(t))
    BY <1>8, <1>9, <1>10, <1>12
  <2>3. QED  BY <2>1, <2>2
<1>13. QED  BY <1>11, <1>12

(* The steps of a batch before it is popped change neither. *)
LEMMA BatchKeepsList ==
  ASSUME IInv, NEW o \in DOMAIN made, Report(o) \/ WaveEnds(o), NEW t
  PROVE  Listed(t)' = Listed(t) /\ AtLarge(t)' = AtLarge(t)
<1>1. \A p \in DOMAIN made : made[p] \in Made(reported)
  BY ElementOfSeq, LenProperties DEF IInv, Batches
<1>2. /\ DOMAIN made' = DOMAIN made /\ batches' = batches
      /\ \A p \in DOMAIN made : made'[p].task = made[p].task
      /\ \A p \in DOMAIN made : p # o => made'[p] = made[p]
      /\ made[o].stage # "popped" /\ made'[o].stage # "popped"
  <2>1. CASE Report(o)
    BY <1>1, <2>1, LenProperties DEF Report, IInv, Batches, Made
  <2>2. CASE WaveEnds(o)
    <3>1. made[o].stage = "wave" /\ batches' = batches
      BY <2>2 DEF WaveEnds, EndWave
    <3>2. PICK late \in {0, 1} :
            made' = [made EXCEPT ![o].cur = made[o].cur + late,
                                 ![o].stage = IF Reached(made[o].cur + late) THEN "done" ELSE "wave"]
      BY <2>2 DEF WaveEnds, EndWave
    <3>3. QED  BY <1>1, <3>1, <3>2, LenProperties DEF IInv, Batches, Made
  <2>3. QED  BY <2>1, <2>2
<1>3. \A j \in DOMAIN batches : batches[j] \in DOMAIN made
  BY ElementOfSeq, LenProperties DEF IInv, Batches
<1>4. QED  BY <1>2, <1>3 DEF Listed, AtLarge

(* No step makes the list and the batches at large differ. *)
LEMMA ListStep == IInv /\ ListMatches /\ [Next]_vars => ListMatches'
<1> SUFFICES ASSUME IInv, ListMatches, [Next]_vars, NEW t \in Tasks
             PROVE  Cardinality(Listed(t)') = Cardinality(AtLarge(t)')
  BY DEF ListMatches, Listed, AtLarge
<1>1. Cardinality(Listed(t)) = Cardinality(AtLarge(t))
  BY DEF ListMatches, Listed, AtLarge
<1>2. CASE UNCHANGED <<made, batches>>
  BY <1>1, <1>2 DEF Listed, AtLarge
<1>3. CASE CreateBatch
  BY <1>1, <1>3, CreateCounts
<1>4. CASE \E o \in DOMAIN made : PopBatch(o)
  BY <1>1, <1>4, PopCounts
<1>5. CASE \E o \in DOMAIN made : Report(o) \/ WaveEnds(o)
  BY <1>1, <1>5, BatchKeepsList
<1>6. CASE GoesDown
  <2>1. made' = <<>> /\ batches' = <<>>
    BY <1>6 DEF GoesDown
  <2>2. Listed(t)' = {} /\ AtLarge(t)' = {}
    BY <2>1 DEF Listed, AtLarge
  <2>3. QED  BY <2>2
<1>7. QED
  BY <1>2, <1>3, <1>4, <1>5, <1>6
     DEF Next, TaskLoop, Recovery, TakeFirst, TakeRest, TakeStore, CreateNil, NothingToTake,
         PollEnd, HistoryAdd, HistoryRmv, FileRemove, Crash, Restart, AddStore, Request, vars,
         made_

(* However often a task runs, the list shows as many batches of it as there are. *)
THEOREM ListIsRight == Spec => []ListMatches
<1>1. Init => ListMatches
  <2>1. SUFFICES ASSUME Init, NEW t \in Tasks
                 PROVE  Cardinality(Listed(t)) = Cardinality(AtLarge(t))
    BY DEF ListMatches, Listed, AtLarge
  <2>2. made = <<>> /\ batches = <<>>
    BY <2>1 DEF Init
  <2>3. Listed(t) = {} /\ AtLarge(t) = {}
    BY <2>2 DEF Listed, AtLarge
  <2>4. QED  BY <2>3
<1>2. QED
  BY <1>1, ListStep, Inductive, PTL DEF Spec

=============================================================================
