# apibot in TLA+

apibot runs bots against a server under test. A bot follows a behaviour tree
drawn in the editor; the driver (Go) runs one bot step by step for debugging,
one bot to its end, or batches of many bots for load tests. This directory
models the driver's core: the engine that runs a tree, the batch that runs many
bots at once, and the factory that queues batches and takes them up again after
the driver went down; and the editor (TypeScript): the tree being edited with the
canvas that shows it, the debugger, and the pages of the console.

## The system

| component | state | operations | talks to |
|---|---|---|---|
| behaviour-tree engine (`driver/bot/behavior`) | per node: freeze, step, curLoop, succ, endtime, threadNumber; blackboard: open nodes, thread infos, end | `Tick.Do`: `onTick` of the open nodes, `onNext` of each, `onReset` | Lua state of the bot |
| bot (`driver/bot/bot.go`) | tree, blackboard, Lua state, mode | `loopThread`, `RunByBlock`, `RunByStep`, `close`, `GetReport` | batch over channels; pools |
| behaviour pool, Lua pool (`behavior_pool.go`, `bot/pool`) | trees per file name; Lua states | Get, Put | bots of all batches |
| batch (`factory/batch.go`, `utils/sizewaitgroup.go`, `utils/switch.go`) | CurNum, Errors, cursorNum, six channels (one of them the wait group's), wait group, map of bots | goroutines `run` and `loop` | bots; task table; factory over BatchDone |
| factory (`factory/factory.go`) | pipelineCache, batches, batchDoneChannels, debugBots | AddBatch, taskLoop, createBatch, pushBatch, popBatch, CheckTaskHistory | HTTP API; batches; tables |
| task table (`database/db_task.go`) | a row per batch: total and current number, soft delete | New, List, Rmv, Update | factory, batches |
| HTTP API (`openapi`) | none of its own | create batch, debug create/step, file upload/removal | factory, tables |
| factory report (`factory/report.go`) | counts per API, reports received | Record, Generate, cluster watch | batches, report table |
| script modules (`script/module`) | connection, read buffer or queue, list of reports | dial, close, read, write; integer and byte reads | network, Lua |
| editor: tree model (`editor/src/models/tree.ts`) | forest of nodes, history, name, node clicked | the reducers: add, remove, link, unlink, update, undo, load, clean, save | graph page; files of the server |
| editor: graph page (`pages/edit/graph.tsx`) | canvas (cells, embedding, edges), breakpoints, form of a node | handlers of the canvas, redraw, upload | tree model, HTTP API |
| editor: debugger (`graph.tsx`, `models/debuginfo.ts`) | timers, current bot, thread info | create, step, run, breakpoint | debug handlers of the driver |
| editor: console pages (`pages/*.tsx`, `task/heart.tsx`, `models/prefab.ts`, `config.ts`) | tables as last read, selections, forms, timers; the address of the server | sync, refresh, edit, upload, apply, poll | HTTP API, each other through slices, localStorage and PubSub |

What makes it hard:

* **aliasing in one goroutine**: `Do` ranges over a slice whose array receives
  the nodes it opens;
* **trees with memory**: nodes keep steps and counters, loops reset whole
  subtrees, and a tree goes from one bot to the next through a pool;
* **three kinds of goroutines per batch** on channels of capacity 0, 1 and n,
  with a wait group counted down before the counter that the next wave is
  computed from;
* **an unlocked queue** between HTTP handlers and `taskLoop`;
* **a crash at any point**, with a table of tasks that deletes softly;
* **two pictures of one tree** in the editor: handlers decide on the canvas and
  change the store, and the redraw follows a counter, not the store;
* **closures of earlier renders**: timers, key bindings, subscriptions and answers
  see the state of the render that made them;
* **calls without order**: syncs, lists, edits, steps and uploads overlap, are
  answered in any order or not at all, and outlive the page that asked.

`PROJECT.json` lists each hazard at its line, with the properties aimed at it.

What correctness means, part by part: every node is executed exactly as often as
its parent asks for and a bot ends with nothing left behind (engine); bounded
concurrency, no bot too few and at most one too many, an end (batch); every task
accepted becomes a batch, what the table or the editor's list says agrees with
what is running, reports only when complete, and all that after a crash too
(factory); a forest with one Root in the store and in all undo can bring back, every
node of it on the open canvas in its place, and whole trees on the server, never over
the file of a former tree unless its name is typed again (editor); what ends a run ends it, and a run ends (debugger); tables, slices and
forms that agree with the server once all answers have come, and silence from
pages that were left (console).

## Modules

| module | models | status |
|---|---|---|
| `BehaviorTree` | the engine and the loops that drive it | checked and proved |
| `BehaviorTreeProofs` | types for every file; inductive invariant and safety for files without nested forks | proved |
| `VisitProofs` | on top of it: executions, thread numbers | proved |
| `MCBehaviorTree` | six small behaviour files | |
| `BatchJob` | abstract specification: what a batch promises | implemented by `Batch` |
| `Batch` | one batch: run, loop, bots, channels, wait group, row | checked and proved |
| `MCBatch` | fourteen small batches | |
| `BatchProofs` | inductive invariant, safety, refinement | proved |
| `Factory` | queue, recovery, task table, batches as progress | checked and proved |
| `FactoryProofs` | inductive invariant, safety | proved |
| `MCFactory` | the symmetry of tasks and clients | |
| `EditorTree` | the slice `tree`: reducers on a forest | proved; checked within `GraphEditor` |
| `EditorTreeProofs` | forest and single Root under any reducers | proved |
| `GraphEditor` | the graph page: canvas, handlers, breakpoints, saves, loads, with `EditorTree` | checked and proved |
| `GraphEditorProofs` | inductive invariant of page, store and server, safety, one action property | proved |
| `MCGraphEditor` | one file, five nodes | |
| `DebugSession` | buttons, keys and timers of the debugger with the driver's debug bots | checked, with liveness, and proved |
| `DebugSessionProofs` | inductive invariant, safety | proved |
| `MCDebugSession` | a tree of two steps | |
| `Site` | what the console's modules share: page, visit, address, calls, the budget of clicks | |
| `Prefabs`, `BotTable`, `Status`, `Settings` | prefabs, files, what runs and has run, settings: the server's tables and the pages that show them | checked and proved within `Console` |
| `Console` | the pages behind one router | checked and proved |
| `ConsoleProofs` | an inductive invariant per property, safety, one action property | proved |
| `MCConsole` | two servers, eight users | |

The modules meet at three places. `Batch` takes a bot as one that ends some time
on one of two channels; `BehaviorTree` shows that it does (`BotEnds`). `Factory`
takes a batch as a progress that exceeds its total by one at most and is done
only at its total; `Batch` shows and `BatchProofs` proves this (`LaunchBound`,
`DoneComplete`). `Batch` starts from any row the table may hold, and `Factory`
shows which these are.

### BehaviorTree

One bot. `phase` follows `Do`: `idle`, the first range (`tick`), the second range
(`next`), `ended`, `pooled`. `OnTick` has an action per kind of node and ends with
`StateCheck`; `OnNext` has an action per branch of each `onNext`, where `at` is the
node whose handler runs, so a chain of calls up to the root is a chain of steps.
`open` is `Blackboard.Nods`, `nods` the local slice of `Do`. `Blackboard.Reset` is
`Nods[:0]`, so both share an array until an append exceeds `cap`; `BlackboardAppend`
writes through to `nods` as long as they do. `Grow` is Go's growth of small slices:
the capacity is doubled until it is enough.

A tree is any record that `IsTree` accepts: what the parser links, with one root
from which every node is reached. The subtree that a loop resets (`SubtreeOf`) is
the least set that holds a node and the children of its members, so that nothing
about trees is recursive and lemmas about subtrees come from closed sets. `Flat`
says that no fork has another one below it.

What a script returns is any of `Results`, whatever `stateCheck` finds on the Lua
stack; a condition yields any Boolean; the clock may pass a wait's end time at any
moment. `close` resets the tree and puts it into the pool, and `NewBot` takes it
again with a new blackboard, for `MaxRuns` bots.

History variables: `ticked` (the nodes this `Do` has ticked), `visits` (executions
per node in this run; a wait that opens itself again is the same execution) and
`passed` (successes of conditions).

### Batch

`runPc` and `loopPc` are the program counters of the two goroutines, one action per
operation that another goroutine can observe: `SizeWaitGroup.Add` is two actions
(the channel, the wait group), and `pop` is three (the channel, the wait group,
`CurNum`). Bots are numbers, as in the code, and move through the sets `pipeline`,
`running`, `onDone` or `onErr` (blocked on an unbuffered channel), `reported`.
`Batch.bots` is not a variable: every id comes from the pipeline, so the test
for it always succeeds. The pauses of the code are no-ops between which anything
may happen. `row` is the task table's progress, `Deleted` when the table has
no live row of this id; all three initial values occur in `Factory`.

### Factory

Clients and the main goroutine call `AddBatch`; `taskLoop` takes from the queue. None
of the callers holds the lock, so an update of the slice is a load (`AddLoad`,
`TakeFirst`, `TakeRest`) and a store (`AddStore`, `TakeStore`). A slice is modelled
as its value. Left out are the races below that level, a slice header that is
read half written and two appends of HTTP handlers that write the same element of
one array: they lose no fewer tasks than the lost updates that are modelled, and
the runs have one client, so that every race in them is with `taskLoop`. A batch is a record in `made`: its
task, where it began, its progress, and `wave`, `done` (BatchDone sent) or `popped`;
`batches` is the list the editor is shown. `WaveEnds` is `Update` followed by the
check, with the one late count that may fall between them. A crash (`Crash`, or
the nil dereference `CreateNil`) leaves the table, the files, and the history
variables; `Restart` lists the live rows, and `Recovery` handles them one by one
before requests are served (`init.go:88` precedes `init.go:95`).

### EditorTree and GraphEditor

`state.nodes`, an array of nested nodes, is flattened: `kids` maps each id to the
sequence of its children and `Top` to the array itself, so that a node in two
places, or in none, is a value the module can express. A reducer is an operator from
the slice to the slice, as in redux, and a mutated reducer is what a bug would be.
`link` is `_cut` followed by `_copy`, with the order that matters: a parent below
the child is not found any more.

`GraphEditor` has one action per handler. A handler dispatches reducers and then
`Commit` runs the redraw effect if `updatetick` moved: React flushes the effects of
a discrete event before it takes the next one, so the redraw belongs to the
handler. An answer of the server is no such event, and `initTree` moves no
`updatetick`: `Loaded` says what each of the three loads draws. The canvas is an X6
graph (external): cells, which of them was added before which, the embedding and the
edges. The order decides in `FindCell` only, which looks below the first root; what is
embedded below a cell (`Branch`) is the least closed set, like `Below` in the tree, so
that neither needs a recursive operator.
An upload of a tree without a name is several steps: `ClickUpload` opens the dialog, which
covers the page (`AtHand`), `behaviorNameChange`, then `modalHandleOk` or
`modalHandleCancel`. What was typed (`behaviorName`) survives a cancel, `CleanTree` and a
load; OK with nothing typed since takes it for the tree that is open by then, and only a
save by OK, or leaving the page, clears it.
History variables: `former` (names of trees that were saved and then cleaned away or
loaded over, until they are typed again) and `misled` (an answer has replaced the tree
under an open canvas, the finding `stale_drawing`).

### DebugSession

The effect of the page makes a timer whenever the bot or the breakpoints change,
and its cleanup stops `captured`, the timer its own render knew, one behind
`timerRef`. A tick asks for a step without waiting for the last one. The driver's
handler is four steps: `FindBot`, `RunByStep` under the bot's mutex, `Answer`, which
reads the thread info when the mutex is free, and the deferred `RmvBot`. A bot at its end is
one with nothing open; that Exit and Break leave the open nodes where they are
(`tick.go:138` skips the reset) is not modelled. The keys
F10 and F11 act with what the first render of the visit knew (`StepKey`, `CreateKey`).
`lock` is kept because the code sets it; it gates nothing. `halted` is a history
variable: the timers an answer has told to stop since they were last started.

### Console

A call is a record in the set of its module, with the visit that asked for it. The
state of a page is new with every visit; an answer of a former visit may still change
the slice, the address, or ask further calls, and does so in `Answered`,
`EditAnswered` and `Healthy`. `Prefabs` remembers which sync began last (`newest`) and which
names had their last entry from an earlier one (`stale`), since `GetNodInfo` takes the last
entry of a name. Handlers, ticks, the server's part of a call and its
answer are actions of their own, in any order; a call may be lost. What the user does, and a crash or a
loss, uses the budget of clicks.

## Runs

| run | result | shows |
|---|---|---|
| `behavior_tree` | passes, 4 005 states | on five files with flat forks, in all modes, each tree used twice: the range is never overtaken (`RangeIntact`), nothing is left behind, no panic, executions are exact (`VisitsExact`), threads of one tick are distinct, every bot ends |
| `nested_fork` | violated: `FrozenWasExecuted` | a fork inside a fork: a node opened just now is handed over from before it was executed |
| `batch` | passes, 16 606 states | the invariants of a batch, that it implements `BatchJob`, and that it is done in the end |
| `run_exits` | violated: `RunExits` | the run goroutine of a finished batch blocks for ever |
| `factory` | passes, 2 435 940 states (about a minute) | table, queue and batches never claim progress nobody made, reports are complete, the list of batches matches, with lost updates, a crash and a removed file |
| `lost_task` | violated: `AcceptedIsCreated` | an accepted task is overwritten in the queue |
| `recovery` | violated: `RunningIsKept` | a recovered batch has no row, a second crash loses it |
| `editor` | passes, 286 343 states (about two minutes) | forest and one Root in all versions, every node of the store is on the open canvas below the parent it has in the store (until a late load has replaced the tree), single mounts, markers belong to breakpoints, the server's files are whole trees, and that of a former tree is overwritten only if its name is typed again |
| `stale_drawing` | violated: `DrawnFromTree` | a late load changes the store under an open canvas |
| `debug` | passes, 33 118 states | a breakpoint, the end or an unknown bot ends the run whatever overlapped; leaked timers are few; ended bots are forgotten; every run ends |
| `console` | passes, about 1.7 million states (two minutes) | the table of prefabs is one listing, the slice offers what the server has and, but for late answers of an overtaken sync, the last entry of a name is the server's, the table of files follows tags and list, the form follows the address, old pages are silent, the charts follow the selection |
| `heartbeat` | violated: `HeartbeatStops` | the heartbeat of a visit of the editor goes on after it |

The six violations are findings, quoted with the text each contradicts in
`PROJECT.json`. Three more things the
modules show without a run of their own: a Break counts as a bot that is done
(`StateCheck`, `DoEnd`; `tick.go:129`), linking a node below itself takes the subtree out of
the store while the canvas goes on showing it (`link`, `Connect`; `tree.ts:90`), and a name typed and cancelled
is taken by the next OK for whatever tree is open (`modalHandleCancel`; `graph.tsx:931`). Deadlock is not checked: a bot that has ended, a finished batch, an
idle factory and an all-popped list are states where the modelled part stops, and so
is a page whose user has stopped.

**Bounds.** *BehaviorTree*: `Forever` 3 stands for the endless loop (the code's
10^11 is a bound as well, only a larger one); two bots per tree, enough for any
field a reset could leave behind to be seen by the second; loops of 2, so that
every nested node is reset and executed again. The passing files have forks of
one to three branches, one inside a loop, two in sequence, and loops, waits,
selectors and conditions inside branches, but no fork inside a branch of another:
that is `nested_fork`, where `RangeIntact` fails. *Batch*: sizes 1 to 3 and totals
1 and 4, so waves that are full, partial and single; start 0 or 1; a batch already
finished and one with a negative number (the API refuses 0 only). *Factory*: two
tasks are the least for an update to be lost to another task; two bots let a
crash fall in the middle of a batch; after one crash the row is in each of its
states. *GraphEditor*: two Roots (one of a file, one drawn anew), a node of a
prefab and two composites, so that every rule on who may mount whom is met; `MaxWork`
limits undo history and calls together, enough for a save, a load and edits between
them. *DebugSession*: five things the user does (create, leave, come back, run and
step fit), one call of each timer or of the buttons at a time, so that calls of
several timers overlap, and one lost call. *Console*: a user (`Tours`) visits one or two
pages and clicks two to five times; nothing is clicked or lost while more than
`MaxFlight` (one) call is under way, but one click may start several calls and each answer may
start more, and a click always meets the calls of the one before; timers tick when no call of a
timer is in flight. Two servers hold different tables, and the console starts with an address or
without.

**Fairness.** Go schedules every runnable goroutine, so `Run`, `Loop`, `TaskLoop`,
`Recovery` and `Do` are weakly fair; `Do` is not in step mode, where an operator
decides. `select` picks at random among ready channels, and a batch hands over
finitely many bots, so weak fairness of `Loop` is enough. `WaitOver` is strongly
fair: the clock passes every end time, and a wait that opens itself again is
disabled in between. In `Factory`, `PopBatch` is strongly fair per batch because
`taskLoop` looks at every channel in each round; a batch that still has bots to run
reports and ends its waves. Requests, removals and crashes are not fair.
In `DebugSession` a running timer ticks, a handler of the driver goes on (a Go mutex
serves its waiters in turn) and an answer that is not lost arrives; what a user does
is not fair. `GraphEditor` and `Console` state no liveness: everything in them waits for
a user.

## Proofs

`BatchProofs` (tlapm, SMT, Zenon and LS4; no liveness) proves for every set of
`Jobs` that satisfies `JobsAssumption` (natural start, integer total, positive size):

* `TypeCorrect`, `ConcurrencyBounded`, `LaunchBounded`, `RowIsBehind`,
  `DoneIsComplete`: the five invariants of run `batch`;
* `BatchImplementsJob`: `Spec => ImplementsJob`, the refinement of `BatchJob`.

None of the invariants is inductive, they only count what is at rest. The invariant
`IInv` (theorem `Inductive`) adds what holds *between* the steps:

* `OnePlace`: every bot is in exactly one of pipeline, running, onDone, onErr,
  reported, and the ids in use are 1 to the number created;
* `Counts`: slots, wait group and `CurNum` each equal what follows from the sets and
  the two program counters: for instance, the wait group is the number of bots at work,
  plus one for a bot that `run` has added and not yet enqueued, plus one for one
  whose pop has not reached the wait group;
* `Waves`: outside the creation of a wave and after `Wait` no bot is at work and at
  most one pop has not yet been counted, hence the next wave is at most one bot
  too large;
* `Ending`: once `RunCheck` succeeded nothing is at work and nothing is created any
  more.

`InitInductive` and `StepInductive` are its two halves; the second is split by
goroutine (`RunMovesNoBot`, `RunCreatesABot`, `BotMoves`, `BotReports`,
`LoopMovesNoBot`), and the same lemmas say how `AtWork` and `reported` change,
which the refinement needs: creating is `Start`, taking in a report is `Report`,
sending BatchDone is `Close`, everything else a stutter. `AllCounted` turns sets
into cardinalities with the library's theorems on finite sets.

`FactoryProofs` proves, for any sets of tasks and clients, any total and any number of
crashes, the four invariants of run `factory`: `TypeCorrect`, `ProgressIsBacked`,
`ReportsAreComplete` and `ListIsRight`. `ProgressBacked` is not inductive because
progress also travels in places it does not mention: in what a caller of `AddBatch`
holds between load and store, a stale copy of the whole queue included, and in
what `taskLoop` has taken. The invariant `IInv` types all of these with sets that
take the reports as an argument (`Backed`, `Pending`, `Taken`, `Made`); `MoreReports`
says that these sets only grow, which carries everything a step does not touch,
and `Made` adds that a batch past its waves has made all its progress, which is
what `ReportsComplete` needs. `ListMatches` counts: `WithoutOne` gives the bijection
that shows what popping by id removes from the list (one entry of the task,
whichever batch it belongs to), `CreateCounts` and `PopCounts` that both counts move
together.

`EditorTreeProofs` proves, for any sets of ids, types, infos, names and files that
satisfy `TreeAssumption` and under any reducers in any order: `LinkKeeps` (linking
to any parent keeps a forest, and loses the node and all below it exactly if the parent is
missing or is itself below the node), `ForestAlways` and `OneRootAlways`, two of the
invariants of run `editor`. That a forest hangs together would ask for induction
along its depth; it is stated with closed sets instead (`IsForest`: a set with `Top`
that contains the children of its members is everything; `Below`: what every
closed set with x contains), so that each lemma shows one set to be closed:
`CutForest` that what is left is reached without what was cut, `MovedForest` that a
node moved to a new end, not below itself, is still reached. The invariant `Good`
adds to the two properties that the current nodes and every version in the
history have them with the *same* `rootid`, and that nodes have the fields they
should; `EditGood`, `UndoGood`, `InitTreeGood`, `CleanGood` and `OtherGood` through the reducers.

`GraphEditorProofs` proves the eight properties of run `editor` for the page as a whole:
any finite set of ids (`GraphAssumption`; no id is that of a marker), any types, prefabs,
texts and positions, any history, any calls, and any files of the server that have been
drawn in this editor (`DiskAssumption`: whole trees, script nodes with one child at most).
A handler is several reducers in a row and, where `updatetick` has moved, a redraw. So the
reducers are taken first, as steps from slice to slice: `Follows(new, st, n)` says that new
is a slice with the same name, at most `n` versions more, and well mounted if st was.
`RedrawFacts` and `CommitFacts` say what the redraw leaves, `HandlerKeeps` what a handler keeps that
commits such a slice, and each action is one lemma. The invariant has five parts:

* `SliceInv`: `Good` of `EditorTreeProofs`, no redraw is due, and `Naming`: neither the
  name of the tree nor the one in the dialog is that of a former tree, and a tree that has
  a name leaves nothing in the dialog. An OK that forgot to clear the dialog would break it:
  the name saved under would be there again after a clean (hence `NoForeignOverwrite`);
* `PageInv`: the canvas is well formed, and its markers have breakpoints;
* `DrawInv`: until an answer has replaced the tree, all versions are well mounted and an
  open canvas embeds every node of the store where the store has it. Neither half is
  inductive alone: `Connect` asks the *canvas* whether the source has a child and then
  changes the *store*, which stays well mounted because the two agree; and they agree after an
  undo or a load because what is redrawn is a forest;
* `ServerInv`, `StoredInv`: every file stored, read or on its way is one whole tree, and well
  mounted. `SubtreeFile` shows it of what a save sends, `LoadedFile` of what parsing
  keeps of a file.

The agreement of parents comes from `ParentFacts` (a node of a forest has one parent) and
`SameParent` (it keeps it where it stays in its array), of which `CutParents`, `AddFacts` and
`LinkFacts` are uses. `ForestInv` and `OneRoot` hold for the page as well (`EditorForests`), since
every reducer in a handler keeps `Good`.

`BehaviorTreeProofs` and `VisitProofs` are about every set of files that satisfies
`TreesAssumption`, every set of script results and any number of bots per tree.
`TypeCorrect` (`TypeOK`) holds for all files: among other things, no handler indexes a child
that is not there, and no loop counts past its limit. The other five theorems have the form
`Spec => [](Flat(tree) => P)`. The hypothesis is what the code needs: with nested forks
`RangeIntact` and `VisitsExact` are false, which is the finding `nested_fork`. The invariant
`InvA` looks at `Active`, the nodes the two ranges of `Do` have yet to handle, as one sequence:
what is left of `nods`, the node in hand, and what is open already. In it every handler replaces one
element by a child, by a parent, or by nothing, and a fork replaces the only element by
its children. Its parts:

* `Slices`: what is appended stays clear of what has yet to be read, although `nods` and
  `open` may be one array;
* `Placed`: one node is active (`Alone`), or one fork is open and each of its branches has
  joined or holds exactly one active node (`Forked`);
* `Progress` and `Waits`: what no parent has opened, and what is active but not yet in hand, is as
  a reset left it; what is active has been opened by its parent; only an active wait waits.

`RangeCorrect`, `NothingLeftCorrect` and `NoPanicCorrect` are read off it. The last one
says that the type assertion in `action_selector.go` cannot fail: a selector that is *ticked*
always has step 0, so the branch that looks back at a child is never taken. `VisitsCorrect`
needs what holds before the end of a run: `Count` says of each node that its executions, the one
pending and those its parent still owes add up to what the parent has asked for, and
`Settled` that what is not on the way to something active owes nothing, also when the tree
comes back from the pool. `ThreadsCorrect` needs `Numbers`: the thread numbers a fork gave out
survive all resets.

`DebugSessionProofs` proves the four invariants of run `debug` for any tree, any number of
clicks, calls and visits (of `Spec`; the run checks them under `FairSpec`, which adds
fairness only): `SessionTypeCorrect`, `HaltAlways`, `LeakBounded`,
`EndedForgottenAlways`. `SessionInv` adds to them where timers and calls belong: the timer of
a page shown is of the visit under way (`HeldTimer`), a call of a timer carries the visit in
which the timer was made (`CallsOfTimers`), so an answer whose page was left is never one to the page's
timer, and of a former visit at most one timer runs (`FewRun`).

`ConsoleProofs` proves all eight properties of run `console`, for any servers, prefabs, files,
tags, reports and tours, any number of clicks, losses and visits, from what the servers start with
(`PrefabsAssumption`, `FilesAssumption`, `ConfAssumption`; a stored delay is never zero:
`db_config.go:41` starts at 1 and `api_server.go:412` skips a zero). `Types` says what the state and every call
on its way look like, and each property has an invariant of its own, which the steps of the other pages
leave:

* `TableInv`: while the list is empty nothing is shown, so a change of tags may skip the filter;
* `RowsInv`: a sync holds each name once, in one of its three sets, and all of them as long as it has
  lost no answer (`SyncRows`): overlapping syncs do not share sets;
* `OfferInv`: while the slice does not offer all prefabs, an upload is done and its
  answer will start a sync, or a sync for the slice's server has yet to read the list, or every prefab
  missing is on its way in one. That a sync empties the slice others have filled does no
  harm, because it is itself about to ask for everything. `LastInv` is about the last entry
  of each name: unless the name is `stale` it is right, and so is what the sync begun last has
  read (`LastRight`), or an upload will start another sync. The exemption is real: without it TLC finds an
  answer of an overtaken sync that puts old code last;
* `ListInv`: a removal or an upload waits for the answer that starts a new list, or all lists
  under way are true and either one is due or the page has it;
* `FormInv`: each field the user left alone is right or will be filled by a call of a sync
  (`Filling`), or exactly one call is under way, which sends what the form has (`Sending`);
* `ChartInv`, `Messages`: messages to the charts come in order, and the last one is of the row selected.

`LateAnswersIgnored` is an action property, `Spec => LateAnswersSilent`: module by module, a step that takes an answer
of a former visit leaves what the page shows. Like the properties, `OfferInv`, `ListInv` and
`FormInv` speak of states in which no answer was lost and, for lists and forms, in which the code's own
races (`overlapped`, `crossed`, `unchecked`, and `stale` for one prefab) have not happened; those are described with the hazards.

Only model-checked: liveness (`BatchEnds`, `BotEnds`, `RunEnds`), which is beyond tlapm.

## Not modelled

*Driver*: the contents of reports, logs and messages; the parsing of files; libraries
(HTTP, MongoDB, protobuf, JSON); the pools of Lua states and trees, and the script
modules' connections (planned); the cluster mode, whose messages go through an
external broker, with the division by its number of nodes (`api_server.go:576`) and
the report of a split batch; the mock servers; generated code. A fork without
children (`action_parallel.go:33`), which leaves a bot ticking for ever, is a file
the runs do not contain; a batch size of 0 (`db_config.go:77`) is excluded by
`JobsAssumption`.

*Editor*: layout, labels, zoom, colours and theme, the arrow keys that shift a cell,
clicks on breakpoint markers, the panels that print blackboard and output, the
resizing of panes, download and share. X6, React, redux, PubSub and axios are
external and modelled from how the code uses them. Infos of nodes are one of few
texts; the 100 ms before a form is filled are not modelled. The check of an empty
address asks the console's own host and is left out.

## Plan

Done: all modules above, with proofs of every invariant and action property that a passing run
checks. Next:

1. `BotPools`: Lua states and trees in their pools, shared by the bots of two
   batches; whose report a batch reads (`bot.go:177` against `bot.go:193`), trees of
   a replaced or removed file. Composes with `Batch` at `LoopBotDone`.
2. `ScriptConn`: the TCP and websocket modules with their read goroutines, close
   and dial again.
