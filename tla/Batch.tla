------------------------------- MODULE Batch --------------------------------
(***************************************************************************)
(* One batch of bots: driver/factory/batch.go with the size-limited wait   *)
(* group and the switch of driver/utils.                                   *)
(*                                                                         *)
(* CreateBatch starts two goroutines.  `run' creates the bots in waves,    *)
(* waits for each wave and writes the progress to the task table; `loop'   *)
(* starts the bots it gets from run, takes in their results, and ends when *)
(* run tells it that all are through.  Every bot is a goroutine too; what  *)
(* it does is BehaviorTree's, here it is at work until it sends its result.*)
(***************************************************************************)
EXTENDS Integers, Sequences, FiniteSets

CONSTANT
  Jobs      \* the arguments of CreateBatch: records [cur, total, size]

ASSUME JobsAssumption ==
  \A j \in Jobs : j.cur \in Nat /\ j.total \in Int /\ j.size \in Nat \ {0}

VARIABLES
  job,       \* the arguments of this batch, never changed
  runPc,     \* where the run goroutine is
  left,      \* how many bots run has still to create in this wave
  loopPc,    \* where the loop goroutine is
  cursor,    \* Batch.cursorNum, the id of the last bot created
  curNum,    \* Batch.CurNum
  errors,    \* Batch.Errors
  slots,     \* length of SizeWaitGroup.blockch
  wg,        \* counter of SizeWaitGroup.wg
  pipeline,  \* channel pipeline, of capacity size
  running,   \* bots started by loop that have not ended
  onDone,    \* bots that wait to send on botDoneCh
  onErr,     \* bots that wait to send on botErrCh
  reported,  \* bots whose report loop has stored
  done,      \* length of channel done, of capacity 1
  batchDone, \* BatchDone has been sent
  exitOpen,  \* Switch.opened of exit
  row        \* CurNumber in the batch's row of the task table, Deleted if it has none

runVars  == <<runPc, left, cursor>>
loopVars == <<loopPc, reported, errors, batchDone, exitOpen>>
bots     == <<pipeline, running, onDone, onErr>>
group    == <<slots, wg>>
vars == <<job, runVars, loopVars, bots, group, curNum, done, row>>

Deleted == -1

Queued   == {pipeline[k] : k \in DOMAIN pipeline}
AtWork   == Queued \cup running \cup onDone \cup onErr
Last     == job.total - curNum
Smaller(a, b) == IF a < b THEN a ELSE b

(* Task.New stores the row with progress 0.  For a batch taken up again it fails, and the *)
(* batch goes on with the row it had before a crash, or with none (see Factory).          *)
Init ==
  /\ job \in Jobs
  /\ runPc = "top" /\ left = 0 /\ cursor = 0
  /\ loopPc = "select" /\ reported = {} /\ errors = 0 /\ batchDone = FALSE
  /\ exitOpen = FALSE
  /\ pipeline = <<>> /\ running = {} /\ onDone = {} /\ onErr = {}
  /\ slots = 0 /\ wg = 0
  /\ curNum = job.cur /\ done = 0 /\ row \in {0, job.cur, Deleted}

-----------------------------------------------------------------------------
(* The run goroutine. *)

RunGoes(from, to) == runPc = from /\ runPc' = to

(* The size of the next wave; a wave of no bots goes straight to Wait. *)
RunWave ==
  /\ runPc = "top"
  /\ left' = Smaller(job.size, Last)
  /\ runPc' = IF exitOpen THEN "exited" ELSE IF left' > 0 THEN "slot" ELSE "wait"
  /\ UNCHANGED <<job, cursor, loopVars, bots, group, curNum, done, row>>

(* cursorNum is counted up and SizeWaitGroup.Add sends on blockch ... *)
RunAddSlot ==
  /\ RunGoes("slot", "wg") /\ slots < job.size
  /\ cursor' = cursor + 1 /\ slots' = slots + 1
  /\ UNCHANGED <<job, left, loopVars, bots, wg, curNum, done, row>>

(* ... and adds to the wait group. *)
RunAddWg ==
  /\ RunGoes("wg", "enqueue")
  /\ wg' = wg + 1
  /\ UNCHANGED <<job, left, cursor, loopVars, bots, slots, curNum, done, row>>

RunEnqueue ==
  /\ runPc = "enqueue" /\ Len(pipeline) < job.size
  /\ pipeline' = Append(pipeline, cursor)
  /\ left' = left - 1
  /\ runPc' = IF left' > 0 THEN "slot" ELSE "wait"
  /\ UNCHANGED <<job, cursor, loopVars, running, onDone, onErr, group, curNum, done, row>>

(* A bug run could have: it does not wait for the wave. *)
RunNoWait ==
  /\ RunGoes("wait", "update")
  /\ UNCHANGED <<job, left, cursor, loopVars, bots, group, curNum, done, row>>

RunWait ==
  /\ RunGoes("wait", "update") /\ wg = 0
  /\ UNCHANGED <<job, left, cursor, loopVars, bots, group, curNum, done, row>>

(* A bug Update could have: it adds the progress the batch started from once more. *)
RunUpdateTwice ==
  /\ RunGoes("update", "check")
  /\ row' = IF row = Deleted \/ curNum > job.total THEN Deleted ELSE job.cur + curNum
  /\ UNCHANGED <<job, left, cursor, loopVars, bots, group, curNum, done>>

(* Task.Update: a row whose progress is past the total is deleted. *)
RunUpdate ==
  /\ RunGoes("update", "check")
  /\ row' = IF row = Deleted \/ curNum > job.total THEN Deleted ELSE curNum
  /\ UNCHANGED <<job, left, cursor, loopVars, bots, group, curNum, done>>

(* Bugs it could have: done one bot early; done only past the total. *)
RunCheckEarly ==
  /\ runPc = "check"
  /\ runPc' = IF curNum + 1 >= job.total THEN "done" ELSE "sleep"
  /\ UNCHANGED <<job, left, cursor, loopVars, bots, group, curNum, done, row>>

RunCheckPast ==
  /\ runPc = "check"
  /\ runPc' = IF curNum > job.total THEN "done" ELSE "sleep"
  /\ UNCHANGED <<job, left, cursor, loopVars, bots, group, curNum, done, row>>

(* CurNum is loaded again, it may have moved since Update. *)
RunCheck ==
  /\ runPc = "check"
  /\ runPc' = IF curNum >= job.total THEN "done" ELSE "sleep"
  /\ UNCHANGED <<job, left, cursor, loopVars, bots, group, curNum, done, row>>

RunDone ==
  /\ RunGoes("done", "sleep") /\ done < 1
  /\ done' = done + 1
  /\ UNCHANGED <<job, left, cursor, loopVars, bots, group, curNum, row>>

(* The pause of 100 ms: nothing bounds what the other goroutines do meanwhile. *)
RunSleep ==
  /\ RunGoes("sleep", "top")
  /\ UNCHANGED <<job, left, cursor, loopVars, bots, group, curNum, done, row>>

Run == RunWave \/ RunAddSlot \/ RunAddWg \/ RunEnqueue \/ RunWait \/ RunUpdate
       \/ RunCheck \/ RunDone \/ RunSleep

-----------------------------------------------------------------------------
(* The bots. *)

(* A bug loopThread could have: it goes on after it has sent its result. *)
BotGoesOn(b) ==
  /\ b \in running /\ UNCHANGED running
  /\ \/ onDone' = onDone \cup {b} /\ UNCHANGED onErr
     \/ onErr' = onErr \cup {b} /\ UNCHANGED onDone
  /\ UNCHANGED <<job, runVars, loopVars, pipeline, group, curNum, done, row>>

(* loopThread has ended its last Do and sends the bot's id on one of the channels. *)
BotEnds(b) ==
  /\ b \in running /\ running' = running \ {b}
  /\ \/ onDone' = onDone \cup {b} /\ UNCHANGED onErr
     \/ onErr' = onErr \cup {b} /\ UNCHANGED onDone
  /\ UNCHANGED <<job, runVars, loopVars, pipeline, group, curNum, done, row>>

-----------------------------------------------------------------------------
(* The loop goroutine.  select takes any channel that is ready. *)

LoopGoes(from, to) == loopPc = from /\ loopPc' = to

LoopStart ==
  /\ loopPc = "select" /\ pipeline # <<>>
  /\ running' = running \cup {Head(pipeline)} /\ pipeline' = Tail(pipeline)
  /\ UNCHANGED <<job, runVars, loopVars, onDone, onErr, group, curNum, done, row>>

(* The bot's report is stored; what is left of the receive is pop. *)
LoopBotDone(b) ==
  /\ LoopGoes("select", "slot") /\ b \in onDone
  /\ onDone' = onDone \ {b} /\ reported' = reported \cup {b}
  /\ UNCHANGED <<job, runVars, errors, batchDone, exitOpen, pipeline, running, onErr,
                 group, curNum, done, row>>

(* A bug the error branch could have: it counts the wait group down and pop does again. *)
LoopErrPopsTwice(b) ==
  /\ LoopGoes("select", "slot") /\ b \in onErr
  /\ onErr' = onErr \ {b} /\ reported' = reported \cup {b} /\ errors' = errors + 1
  /\ wg' = wg - 1
  /\ UNCHANGED <<job, runVars, batchDone, exitOpen, pipeline, running, onDone, slots,
                 curNum, done, row>>

LoopBotErr(b) ==
  /\ LoopGoes("select", "slot") /\ b \in onErr
  /\ onErr' = onErr \ {b} /\ reported' = reported \cup {b} /\ errors' = errors + 1
  /\ UNCHANGED <<job, runVars, batchDone, exitOpen, pipeline, running, onDone,
                 group, curNum, done, row>>

(* pop: SizeWaitGroup.Done takes from blockch, *)
LoopPopSlot ==
  /\ LoopGoes("slot", "wg") /\ slots > 0
  /\ slots' = slots - 1
  /\ UNCHANGED <<job, runVars, reported, errors, batchDone, exitOpen, bots, wg, curNum,
                 done, row>>

(* counts the wait group down, *)
LoopPopWg ==
  /\ LoopGoes("wg", "count")
  /\ wg' = wg - 1
  /\ UNCHANGED <<job, runVars, reported, errors, batchDone, exitOpen, bots, slots,
                 curNum, done, row>>

(* and only then CurNum is counted up. *)
LoopPopCount ==
  /\ LoopGoes("count", "select")
  /\ curNum' = curNum + 1
  /\ UNCHANGED <<job, runVars, reported, errors, batchDone, exitOpen, bots, group, done,
                 row>>

LoopDone ==
  /\ LoopGoes("select", "exit") /\ done > 0
  /\ done' = done - 1
  /\ UNCHANGED <<job, runVars, reported, errors, batchDone, exitOpen, bots, group,
                 curNum, row>>

(* exit.Done() only returns the switch's channel, it opens nothing. *)
LoopExit ==
  /\ LoopGoes("exit", "exited")
  /\ batchDone' = TRUE
  /\ UNCHANGED <<job, runVars, reported, errors, exitOpen, bots, group, curNum, done, row>>

Loop ==
  \/ LoopStart \/ LoopPopSlot \/ LoopPopWg \/ LoopPopCount \/ LoopDone \/ LoopExit
  \/ \E b \in onDone : LoopBotDone(b)
  \/ \E b \in onErr : LoopBotErr(b)

Next == Run \/ Loop \/ \E b \in running : BotEnds(b)

(* The goroutines keep running and every bot ends (BehaviorTree's BotEnds).  A select    *)
(* with several channels ready picks among them at random, so none waits for ever.       *)
Fairness ==
  /\ WF_vars(Run) /\ WF_vars(Loop)
  /\ WF_vars(\E b \in running : BotEnds(b))

Spec == Init /\ [][Next]_vars /\ Fairness

-----------------------------------------------------------------------------
RunPcs  == {"top", "slot", "wg", "enqueue", "wait", "update", "check", "done", "sleep",
            "exited"}
LoopPcs == {"select", "slot", "wg", "count", "exit", "exited"}

(* The counters stay within the channels' capacities, the wait group never goes below 0. *)
TypeOK ==
  /\ job \in Jobs
  /\ runPc \in RunPcs /\ loopPc \in LoopPcs
  /\ left \in Int /\ cursor \in Nat /\ curNum \in Nat /\ errors \in Nat
  /\ slots \in 0..job.size /\ wg \in Nat /\ done \in 0..1
  /\ pipeline \in Seq(Nat) /\ Len(pipeline) <= job.size
  /\ running \in SUBSET Nat /\ onDone \in SUBSET Nat /\ onErr \in SUBSET Nat
  /\ reported \in SUBSET Nat
  /\ batchDone \in BOOLEAN /\ exitOpen \in BOOLEAN
  /\ row \in Int

(* No more than the configured number of bots is at work. *)
Concurrency == Cardinality(AtWork) <= job.size

(* CurNum lags behind the results by at most one, so however the goroutines are          *)
(* scheduled a batch never creates more than one bot beyond what was asked for.          *)
LaunchBound == cursor > 0 => cursor <= job.total - job.cur + 1

(* The progress in the task table never claims a bot whose report is not in. *)
RowBehind == row # Deleted => row <= job.cur + Cardinality(reported)

(* When BatchDone is sent every bot created has reported, and they are as many as asked. *)
DoneComplete ==
  batchDone =>
    /\ AtWork = {}
    /\ reported = 1..cursor
    /\ cursor >= job.total - job.cur

Job == INSTANCE BatchJob WITH
  wanted <- job.total - job.cur, width <- job.size, atWork <- AtWork,
  reported <- reported, closed <- batchDone

(* The batch keeps the promises of BatchJob. *)
ImplementsJob == Job!Spec

(* Every batch is done in the end, with everything it was asked for. *)
BatchEnds == <>batchDone

(* When the batch is done its run goroutine ends too. *)
RunExits == batchDone ~> runPc = "exited"
=============================================================================
