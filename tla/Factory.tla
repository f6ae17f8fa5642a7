------------------------------ MODULE Factory -------------------------------
(***************************************************************************)
(* The factory of batches (driver/factory/factory.go) with the task table  *)
(* (driver/database/db_task.go) that is to carry the batches over a crash  *)
(* of the driver.                                                          *)
(*                                                                         *)
(* Three kinds of goroutines share the queue pipelineCache: the HTTP       *)
(* handlers and the main goroutine, which append to it in AddBatch without *)
(* a lock, and taskLoop, which takes the first task from it, creates the   *)
(* batch and later pops it.  An unlocked update is a load and a store.  A  *)
(* batch is here its progress; what happens inside is Batch's.             *)
(***************************************************************************)
EXTENDS Integers, Sequences, FiniteSets

CONSTANTS
  Tasks,       \* ids of batches, each asked for at most once
  Total,       \* how many bots every batch is to run
  Clients,     \* goroutines that handle HTTP requests
  Main,        \* the main goroutine
  None,        \* no task
  MayRemove,   \* is the behaviour file of the batches ever removed?
  MaxCrashes   \* bound: how often the driver goes down

ASSUME BoundsAssumption ==
  /\ Total \in Nat /\ MaxCrashes \in Nat /\ MayRemove \in BOOLEAN
  /\ Main \notin Clients /\ None \notin Tasks

VARIABLES
  up,          \* is the driver running?
  history,     \* tasks CheckTaskHistory has listed and not yet come to
  recovering,  \* the task CheckTaskHistory is at, or None
  adding,      \* per caller of AddBatch: what it is about to store, or None
  cache,       \* Factory.pipelineCache
  loopPc,      \* where taskLoop is
  taken,       \* its local copy of the first task and of the rest
  made,        \* the batches created since the driver is up, in order
  batches,     \* Factory.batches, as positions in made
  file,        \* is the behaviour file there?
  table,       \* the task table, per id
  accepted,    \* history: the tasks clients were told are accepted
  reported,    \* history: the bots of a task that have reported, over all crashes
  generated,   \* history: the tasks popBatch has generated a report for
  crashes

queue  == <<adding, cache, accepted>>
loop   == <<loopPc, taken>>
start  == <<history, recovering>>
made_  == <<made, batches, reported, generated>>
vars == <<up, start, queue, loop, made_, file, table, crashes>>

Callers == Clients \cup {Main}
Serving == up /\ history = {} /\ recovering = None
Live(t) == table[t].state = "live"

Init ==
  /\ up = TRUE /\ history = {} /\ recovering = None
  /\ adding = [c \in Callers |-> None] /\ cache = <<>>
  /\ loopPc = "top" /\ taken = None
  /\ made = <<>> /\ batches = <<>>
  /\ file = TRUE /\ table = [t \in Tasks |-> [state |-> "none", cur |-> 0]]
  /\ accepted = {} /\ reported = [t \in Tasks |-> 0] /\ generated = {} /\ crashes = 0

-----------------------------------------------------------------------------
(* AddBatch of an existing file loads the queue ... *)
AddLoad(c, t, cur) ==
  adding' = [adding EXCEPT ![c] = [task |-> t, cur |-> cur, seen |-> cache]]

(* ... and stores it with the task appended; what others stored since is gone. *)
AddStore(c) ==
  /\ up /\ adding[c] # None
  /\ cache' = Append(adding[c].seen, [task |-> adding[c].task, cur |-> adding[c].cur])
  /\ adding' = [adding EXCEPT ![c] = None]
  /\ accepted' = IF c = Main THEN accepted ELSE accepted \cup {adding[c].task}
  /\ UNCHANGED <<up, start, loop, made_, file, table, crashes>>

(* BotCreateBatch, with a new id. *)
Request(c) ==
  /\ Serving /\ file /\ adding[c] = None
  /\ \E t \in Tasks :
       /\ t \notin accepted /\ \A d \in Clients : adding[d] # None => adding[d].task # t
       /\ AddLoad(c, t, 0)
  /\ UNCHANGED <<up, start, cache, accepted, loop, made_, file, table, crashes>>

FileRemove ==
  /\ Serving /\ MayRemove /\ file /\ file' = FALSE
  /\ UNCHANGED <<up, start, queue, loop, made_, table, crashes>>

(* CheckTaskHistory: each listed task is added, unless its file is gone, ... *)
HistoryAdd ==
  /\ up /\ recovering = None
  /\ \E t \in history :
       /\ recovering' = t /\ history' = history \ {t}
       /\ IF file THEN AddLoad(Main, t, table[t].cur) ELSE UNCHANGED adding
  /\ UNCHANGED <<up, cache, accepted, loop, made_, file, table, crashes>>

Rmv(t) == table' = [table EXCEPT ![t].state = IF @ = "live" THEN "deleted" ELSE @]

(* ... and then its row is deleted, which keeps it in the table as a deleted one. *)
HistoryRmv ==
  /\ up /\ recovering # None /\ adding[Main] = None
  /\ Rmv(recovering) /\ recovering' = None
  /\ UNCHANGED <<up, history, queue, loop, made_, file, crashes>>

-----------------------------------------------------------------------------
(* taskLoop, with f.lock, which no other goroutine uses.  It takes the first task: a     *)
(* load of it, a load of the rest, a store of the rest, ...                              *)
TakeFirst ==
  /\ up /\ loopPc = "top" /\ cache # <<>>
  /\ taken' = [first |-> Head(cache), rest |-> <<>>] /\ loopPc' = "rest"
  /\ UNCHANGED <<up, start, queue, made_, file, table, crashes>>

TakeRest ==
  /\ up /\ loopPc = "rest"
  /\ taken' = [taken EXCEPT !.rest = Tail(cache)] /\ loopPc' = "take"
  /\ UNCHANGED <<up, start, queue, made_, file, table, crashes>>

TakeStore ==
  /\ up /\ loopPc = "take"
  /\ cache' = taken.rest /\ loopPc' = "create"
  /\ UNCHANGED <<up, start, adding, accepted, taken, made_, file, table, crashes>>

(* Task.New: the id is the primary key, of deleted rows too. *)
NewRow(t) ==
  table' = IF table[t].state = "none" THEN [table EXCEPT ![t].state = "live"] ELSE table

(* ... creates the batch and pushes it, ... *)
CreateBatch ==
  LET info == taken.first
  IN  /\ up /\ loopPc = "create" /\ file
      /\ NewRow(info.task)
      /\ made' = Append(made, [task |-> info.task, began |-> info.cur, cur |-> info.cur,
                               stage |-> "wave"])
      /\ batches' = Append(batches, Len(made) + 1)
      /\ loopPc' = "poll" /\ taken' = None
      /\ UNCHANGED <<up, start, queue, reported, generated, file, crashes>>

NothingToTake ==
  /\ up /\ loopPc = "top" /\ cache = <<>>
  /\ loopPc' = "poll"
  /\ UNCHANGED <<up, start, queue, taken, made_, file, table, crashes>>

(* popBatch goes by the id: it removes the first batch of that task. *)
Without(s, k) == SubSeq(s, 1, k - 1) \o SubSeq(s, k + 1, Len(s))

(* Bugs it could have: no break after the first; any batch is taken for done. *)
PopAll(o) ==
  /\ up /\ loopPc = "poll" /\ made[o].stage = "done"
  /\ made' = [made EXCEPT ![o].stage = "popped"]
  /\ batches' = SelectSeq(batches, LAMBDA p : made[p].task # made[o].task)
  /\ generated' = generated \cup {made[o].task}
  /\ UNCHANGED <<up, start, queue, loop, reported, file, table, crashes>>

PopAny(o) ==
  /\ up /\ loopPc = "poll" /\ made[o].stage # "popped"
  /\ made' = [made EXCEPT ![o].stage = "popped"]
  /\ \E k \in DOMAIN batches :
       /\ made[batches[k]].task = made[o].task
       /\ \A j \in 1 .. k-1 : made[batches[j]].task # made[o].task
       /\ batches' = Without(batches, k)
  /\ generated' = generated \cup {made[o].task}
  /\ UNCHANGED <<up, start, queue, loop, reported, file, table, crashes>>

(* ... and pops the batches that have sent BatchDone. *)
PopBatch(o) ==
  /\ up /\ loopPc = "poll" /\ made[o].stage = "done"
  /\ made' = [made EXCEPT ![o].stage = "popped"]
  /\ \E k \in DOMAIN batches :
       /\ made[batches[k]].task = made[o].task
       /\ \A j \in 1 .. k-1 : made[batches[j]].task # made[o].task
       /\ batches' = Without(batches, k)
  /\ generated' = generated \cup {made[o].task}
  /\ UNCHANGED <<up, start, queue, loop, reported, file, table, crashes>>

PollEnd ==
  /\ up /\ loopPc = "poll" /\ loopPc' = "top"
  /\ UNCHANGED <<up, start, queue, taken, made_, file, table, crashes>>

-----------------------------------------------------------------------------
(* A bug run could have: it creates bots whatever has been counted. *)
ReportAlways(o) == o \in DOMAIN made

(* A batch, as Batch has it: CurNum counts the reports, and exceeds the total by one at  *)
(* most (LaunchBound), which takes a late count of a bot of this batch.                  *)
MayReport(o) ==
  made[o].cur < Total \/ (made[o].cur = Total /\ made[o].began < Total)

Report(o) ==
  /\ up /\ made[o].stage = "wave" /\ MayReport(o)
  /\ made' = [made EXCEPT ![o].cur = @ + 1]
  /\ reported' = [reported EXCEPT ![made[o].task] = @ + 1]
  /\ UNCHANGED <<up, start, queue, loop, batches, generated, file, table, crashes>>

(* The end of a wave: Update stores CurNum, the last bot may be counted only then, and   *)
(* the check reads CurNum again.                                                         *)
EndWave(o, Stored(_, _), Enough(_)) ==
  /\ up /\ made[o].stage = "wave"
  /\ table' = [table EXCEPT ![made[o].task] = Stored(@, made[o].cur)]
  /\ \E late \in {0, 1} :
       /\ late = 1 => MayReport(o)
       /\ LET now == made[o].cur + late
          IN  made' = [made EXCEPT ![o].cur = now,
                                   ![o].stage = IF Enough(now) THEN "done" ELSE "wave"]
       /\ reported' = [reported EXCEPT ![made[o].task] = @ + late]
  /\ UNCHANGED <<up, start, queue, loop, batches, generated, file, crashes>>

(* Task.Update finds no deleted row, and deletes the row that is past the total. *)
Updated(row, cur) ==
  IF row.state # "live" THEN row
  ELSE IF cur > Total THEN [row EXCEPT !.state = "deleted"] ELSE [row EXCEPT !.cur = cur]

Reached(cur) == cur >= Total

(* Bugs they could have: Update stores the bots still to come; the check is off by one. *)
UpdatedAhead(row, cur) ==
  IF row.state # "live" THEN row
  ELSE IF cur > Total THEN [row EXCEPT !.state = "deleted"] ELSE [row EXCEPT !.cur = Total]

ReachedEarly(cur) == cur + 1 >= Total

EndWaveAhead(o) == EndWave(o, UpdatedAhead, Reached)
EndWaveEarly(o) == EndWave(o, Updated, ReachedEarly)

WaveEnds(o) == EndWave(o, Updated, Reached)

-----------------------------------------------------------------------------
(* What a crash leaves: the database, and what has been told to clients. *)
GoesDown ==
  /\ up' = FALSE /\ history' = {} /\ recovering' = None
  /\ adding' = [c \in Callers |-> None] /\ cache' = <<>>
  /\ loopPc' = "top" /\ taken' = None /\ made' = <<>> /\ batches' = <<>>
  /\ UNCHANGED <<file, table, accepted, reported, generated>>

Crash == up /\ crashes < MaxCrashes /\ crashes' = crashes + 1 /\ GoesDown

(* Without its file createBatch returns nil, and taskLoop dereferences it: the driver    *)
(* panics.                                                                               *)
CreateNil == up /\ loopPc = "create" /\ ~file /\ GoesDown /\ UNCHANGED crashes

(* The driver is started again and lists the tasks that are not deleted. *)
Restart ==
  /\ ~up /\ up' = TRUE
  /\ history' = {t \in Tasks : Live(t)}
  /\ UNCHANGED <<recovering, queue, loop, made_, file, table, crashes>>

TaskLoop ==
  TakeFirst \/ TakeRest \/ TakeStore \/ CreateBatch \/ CreateNil \/ NothingToTake \/ PollEnd
Recovery == HistoryAdd \/ HistoryRmv

Next ==
  \/ TaskLoop \/ Recovery \/ FileRemove \/ Crash \/ Restart
  \/ \E c \in Callers : AddStore(c)
  \/ \E c \in Clients : Request(c)
  \/ \E o \in DOMAIN made : PopBatch(o) \/ Report(o) \/ WaveEnds(o)

(* All goroutines keep running: bots report, waves end, and taskLoop looks at every      *)
(* channel in every round.                                                               *)
Objects == 1 .. 2 * Cardinality(Tasks)

Fairness ==
  /\ WF_vars(TaskLoop) /\ WF_vars(Recovery)
  /\ \A c \in Callers : WF_vars(AddStore(c))
  /\ \A o \in Objects :
       /\ WF_vars(o \in DOMAIN made /\ WaveEnds(o))
       /\ WF_vars(o \in DOMAIN made /\ made[o].cur < Total /\ Report(o))
       /\ SF_vars(o \in DOMAIN made /\ PopBatch(o))

Spec == Init /\ [][Next]_vars /\ Fairness

-----------------------------------------------------------------------------
Infos == [task : Tasks, cur : 0 .. Total]

(* The queue, the batches and the table only hold tasks and progress up to the total,    *)
(* which a batch exceeds by one at most.                                                 *)
TypeOK ==
  /\ up \in BOOLEAN /\ file \in BOOLEAN /\ crashes \in 0 .. MaxCrashes
  /\ history \in SUBSET Tasks /\ recovering \in Tasks \cup {None}
  /\ \A c \in Callers : adding[c] # None =>
        /\ adding[c].task \in Tasks /\ adding[c].cur \in 0 .. Total
        /\ adding[c].seen \in Seq(Infos)
  /\ cache \in Seq(Infos)
  /\ loopPc \in {"top", "rest", "take", "create", "poll"}
  /\ loopPc \in {"rest", "take", "create"} => taken.first \in Infos /\ taken.rest \in Seq(Infos)
  /\ made \in Seq([task : Tasks, began : 0 .. Total, cur : 0 .. Total + 1,
                   stage : {"wave", "done", "popped"}])
  /\ batches \in Seq(DOMAIN made)
  /\ table \in [Tasks -> [state : {"none", "live", "deleted"}, cur : 0 .. Total]]
  /\ accepted \in SUBSET Tasks /\ generated \in SUBSET Tasks
  /\ reported \in [Tasks -> Nat]

(* Whatever crashes and lost updates of the queue there are, no progress is ever claimed *)
(* that bots have not made: not in the table, and not by a batch that starts from it.    *)
ProgressBacked ==
  /\ \A t \in Tasks : table[t].cur <= reported[t]
  /\ \A k \in DOMAIN cache : cache[k].cur <= reported[cache[k].task]
  /\ \A o \in DOMAIN made : made[o].cur <= reported[made[o].task]

(* A report is generated only for a task all of whose bots have reported, before and     *)
(* after crashes taken together.                                                         *)
ReportsComplete == \A t \in generated : reported[t] >= Total

(* The list of batches the editor is shown has, for every task, as many entries as there *)
(* are batches of it that have not been popped; also when lost updates of the queue make *)
(* a task run twice and popBatch goes by its id.                                         *)
ListMatches ==
  \A t \in Tasks :
    Cardinality({k \in DOMAIN batches : made[batches[k]].task = t})
      = Cardinality({o \in DOMAIN made : made[o].task = t /\ made[o].stage # "popped"})

(* Every task a client was told is accepted is created as a batch. *)
AcceptedIsCreated == \A t \in Tasks : t \in accepted ~> table[t].state # "none"

(* The progress of every running batch is in the table, for the next start to find. *)
RunningIsKept ==
  \A o \in DOMAIN made :
    made[o].stage = "wave" /\ made[o].cur < Total => Live(made[o].task)
=============================================================================
