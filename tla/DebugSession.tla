---------------------------- MODULE DebugSession ----------------------------
(***************************************************************************)
(* Debugging a tree: the step and run buttons of the editor page           *)
(* (src/editor/src/pages/edit/graph.tsx with models/debuginfo.ts), and the *)
(* debug bots of the driver they drive (openapi/api_server.go,             *)
(* factory/factory.go).                                                    *)
(*                                                                         *)
(* A run is a timer of the page that asks for a step every 200 ms, without *)
(* waiting for the answer to the last one.  An effect makes a new timer    *)
(* whenever the bot or the breakpoints change; its cleanup stops the timer *)
(* its own render knew, which is the one before the timer to be replaced.  *)
(* Calls are answered in any order, or get lost.                           *)
(***************************************************************************)
EXTENDS Naturals, Sequences, FiniteSets

CONSTANTS
  Node,       \* nodes of the tree
  Breakable,  \* its script nodes, the ones that take a breakpoint
  Track,      \* Track[i]: the nodes the i-th step of a bot ticks; the last one ends it
  MaxClicks,  \* bound: what the user does, opening and leaving the page included
  MaxFlight,  \* bound: calls of one timer, or of the buttons, in flight
  MaxLost     \* bound: calls that get lost

ASSUME SessionAssumption ==
  Breakable \subseteq Node /\ Track \in Seq(SUBSET Node) /\ Track # <<>>

VARIABLES
  visit,            \* visits of the page so far
  mounted,          \* is it the page shown?
  BpNodes,          \* nodes with a breakpoint
  timers,           \* all timers ever made
  timerRef,         \* the timer of the last effect, also the state "timer"; 0: none
  captured,         \* the timer the cleanup of that effect will stop; 0: none
  firstBot,         \* the bot the first render of this visit knew; 0: none
  currentDebugBot,  \* 0: none
  debugInfo,        \* the nodes shown as current, and the flag lock
  calls,            \* calls in flight
  bots,             \* bots[b]: how far bot b is, and its thread info
  debugBots,        \* the bots the factory knows
  leaving,          \* bots whose deferred RmvBot has not run yet
  clicks,           \* clicks so far
  lost,             \* calls lost so far
  halted            \* history: timers an answer has told to stop since their start

page == <<visit, mounted, BpNodes, timers, timerRef, captured, firstBot>>
slices == <<currentDebugBot, debugInfo>>
driver == <<bots, debugBots, leaving>>
vars == <<page, slices, calls, driver, clicks, lost, halted>>

Key(c) == [by |-> c.by, n |-> c.n]
\* The n-th call of timer t (0: of a button) with what its closure has captured.
Asked(t, n, op, b, bps, v) ==
  [by |-> t, n |-> n, op |-> op, bot |-> b, bps |-> bps, visit |-> v,
   at |-> "asked", code |-> 0, threads |-> {}]
Ask(t, op, b, bps, v) ==
  LET busy == {c.n : c \in {d \in calls : d.by = t}} IN
  \E n \in 1..MaxFlight :
    /\ n \notin busy /\ 1..(n - 1) \subseteq busy
    /\ calls' = calls \cup {Asked(t, n, op, b, bps, v)}

Moves(c, d) == c \in calls /\ calls' = (calls \ {c}) \cup {d}
Done(c) == c \in calls /\ calls' = calls \ {c}

Click == clicks < MaxClicks /\ clicks' = clicks + 1
-----------------------------------------------------------------------------
(* The page. *)

Stop(ts, t) == IF t = 0 THEN ts ELSE [ts EXCEPT ![t].running = FALSE]

\* (a mistake: the cleanup stops nothing)
EffectLeaks(b, bps, v) ==
  /\ timers' = Append(timers, [visit |-> v, bot |-> b, bps |-> bps, running |-> FALSE])
  /\ captured' = (IF mounted THEN timerRef ELSE 0)
  /\ timerRef' = Len(timers) + 1
(* The effect on the bot and the breakpoints, after the cleanup of the one *)
(* before it.                                                              *)
Effect(b, bps, v) ==
  /\ timers' = Append(Stop(timers, captured),
                      [visit |-> v, bot |-> b, bps |-> bps, running |-> FALSE])
  /\ captured' = (IF mounted THEN timerRef ELSE 0)
  /\ timerRef' = Len(timers) + 1

Mount ==
  /\ ~mounted /\ Click /\ mounted' = TRUE /\ visit' = visit + 1 /\ BpNodes' = {}
  /\ firstBot' = currentDebugBot
  /\ Effect(currentDebugBot, {}, visit + 1)
  /\ UNCHANGED <<slices, calls, driver, lost, halted>>

Unmount ==
  /\ mounted /\ Click /\ mounted' = FALSE /\ timers' = Stop(timers, captured)
  /\ timerRef' = 0 /\ captured' = 0 /\ firstBot' = 0
  /\ UNCHANGED <<visit, BpNodes, slices, calls, driver, lost, halted>>

\* (a mistake: the effect depends on the bot alone)
SameTimer(x) ==
  /\ mounted /\ Click /\ x \in Breakable
  /\ BpNodes' = IF x \in BpNodes THEN BpNodes \ {x} ELSE BpNodes \cup {x}
  /\ UNCHANGED <<visit, mounted, timers, timerRef, captured, firstBot, slices, calls, driver, lost, halted>>
ClickBreakpoint(x) ==
  /\ mounted /\ Click /\ x \in Breakable
  /\ BpNodes' = IF x \in BpNodes THEN BpNodes \ {x} ELSE BpNodes \cup {x}
  /\ Effect(currentDebugBot, BpNodes', visit)
  /\ UNCHANGED <<visit, mounted, firstBot, slices, calls, driver, lost, halted>>

ClickCreateDebug ==
  /\ mounted /\ Click
  /\ timers' = Stop(timers, timerRef) /\ debugInfo' = [threads |-> {}, lock |-> FALSE]
  /\ Ask(0, "create", 0, {}, visit)
  /\ UNCHANGED <<visit, mounted, BpNodes, timerRef, captured, firstBot, currentDebugBot, driver, lost, halted>>

ClickStep ==
  /\ mounted /\ Click /\ currentDebugBot # 0 /\ debugInfo' = [debugInfo EXCEPT !.lock = TRUE]
  /\ Ask(0, "step", currentDebugBot, BpNodes, visit)
  /\ UNCHANGED <<page, currentDebugBot, driver, lost, halted>>

(* The keys F10 and F11 are bound once, to the handlers of the first       *)
(* render: F10 steps the bot that one knew, without any breakpoint; F11    *)
(* debugs the nodes it knew, which may hold no Root, and stops no timer.   *)
StepKey ==
  /\ mounted /\ Click /\ firstBot # 0 /\ debugInfo' = [debugInfo EXCEPT !.lock = TRUE]
  /\ Ask(0, "step", firstBot, {}, visit)
  /\ UNCHANGED <<page, currentDebugBot, driver, lost, halted>>

CreateKey ==
  /\ mounted /\ Click /\ debugInfo' = [threads |-> {}, lock |-> FALSE]
  /\ Ask(0, "create", 0, {}, visit) \/ UNCHANGED calls
  /\ UNCHANGED <<page, currentDebugBot, driver, lost, halted>>

ClickRunning ==
  /\ mounted /\ Click /\ currentDebugBot # 0 /\ ~timers[timerRef].running
  /\ timers' = [timers EXCEPT ![timerRef].running = TRUE] /\ halted' = halted \ {timerRef}
  /\ UNCHANGED <<visit, mounted, BpNodes, timerRef, captured, firstBot, slices, calls, driver, lost>>

Tick(t) ==
  /\ t \in DOMAIN timers /\ timers[t].running
  /\ Ask(t, "step", timers[t].bot, timers[t].bps, timers[t].visit)
  /\ UNCHANGED <<page, slices, driver, clicks, lost, halted>>
-----------------------------------------------------------------------------
(* The driver. *)

DebugCreate(c) ==
  /\ c.op = "create" /\ c.at = "asked"
  /\ bots' = Append(bots, [pos |-> 0, threads |-> {}])
  /\ debugBots' = debugBots \cup {Len(bots) + 1}
  /\ Moves(c, [c EXCEPT !.at = "answered", !.code = 200, !.bot = Len(bots) + 1])
  /\ UNCHANGED <<page, slices, leaving, clicks, lost, halted>>

FindBot(c) ==
  /\ c.op = "step" /\ c.at = "asked"
  /\ Moves(c, IF c.bot \in debugBots THEN [c EXCEPT !.at = "found"]
              ELSE [c EXCEPT !.at = "answered", !.code = 1009])
  /\ UNCHANGED <<page, slices, driver, clicks, lost, halted>>

(* RunByStep, one call at a time under the mutex stepmu.  A tree that has  *)
(* run out leaves no open nodes, so that a step beyond its end ends again. *)
(* Not modelled: a script that says Exit or Break skips the reset of the   *)
(* open nodes (tick.go:138), and a step beyond ticks those once more.      *)
RunByStep(c) ==
  /\ c.at = "found"
  /\ LET pos == bots[c.bot].pos IN
     /\ bots' = [bots EXCEPT ![c.bot] =
          IF pos < Len(Track) THEN [pos |-> pos + 1, threads |-> Track[pos + 1]]
          ELSE [pos |-> pos, threads |-> {}]]
     /\ Moves(c, [c EXCEPT !.at = "ran", !.code = IF pos + 1 >= Len(Track) THEN 1007 ELSE 200])
  /\ UNCHANGED <<page, slices, debugBots, leaving, clicks, lost, halted>>

\* The thread info of bot b, or what another step has reset and filled so far.
Info(b) ==
  LET pos == bots[b].pos IN
  {bots[b].threads} \cup
    IF \E d \in calls : d.at = "found" /\ d.bot = b
    THEN {{}} \cup (IF pos < Len(Track) THEN SUBSET Track[pos + 1] ELSE {}) ELSE {}

\* (a mistake: a bot that has come to its end stays with the factory)
AnswerOnly(c) ==
  /\ c.at = "ran" /\ \E info \in Info(c.bot) : Moves(c, [c EXCEPT !.at = "answered", !.threads = info])
  /\ UNCHANGED <<page, slices, driver, clicks, lost, halted>>
(* The thread info is read when the mutex is free again, so it may be that *)
(* of a later step; RmvBot is deferred until the answer is written.        *)
Answer(c) ==
  /\ c.at = "ran" /\ \E info \in Info(c.bot) : Moves(c, [c EXCEPT !.at = "answered", !.threads = info])
  /\ leaving' = IF c.code = 1007 THEN leaving \cup {c.bot} ELSE leaving
  /\ UNCHANGED <<page, slices, bots, debugBots, clicks, lost, halted>>

RmvBot(b) ==
  /\ b \in leaving /\ leaving' = leaving \ {b} /\ debugBots' = debugBots \ {b}
  /\ UNCHANGED <<page, slices, calls, bots, clicks, lost, halted>>

\* A request that does not arrive, a creation that is refused, an answer that gets lost.
Lose(c) ==
  /\ lost < MaxLost /\ c.at \in {"asked", "answered"} /\ Done(c) /\ lost' = lost + 1
  /\ UNCHANGED <<page, slices, driver, clicks, halted>>
-----------------------------------------------------------------------------
(* The answers. *)

Created(c) ==
  /\ c.op = "create" /\ c.at = "answered" /\ Done(c)
  /\ currentDebugBot' = c.bot
  /\ IF mounted THEN Effect(c.bot, BpNodes, visit) ELSE UNCHANGED <<timers, timerRef, captured>>
  /\ UNCHANGED <<visit, mounted, BpNodes, firstBot, debugInfo, driver, clicks, lost, halted>>

\* Whether the answer stops the timer of the page it was asked from.
AtBreakpoint(c) == c.code # 1009 /\ c.bps \cap c.threads # {}
Here(c) == mounted /\ c.visit = visit

\* (a mistake: an unknown bot does not stop the run)
EndsOnly(c) == c.code = 1007 \/ AtBreakpoint(c)
\* (a mistake: the run goes on at a breakpoint)
ErrorsOnly(c) == c.code # 200
Halts(c) == c.code # 200 \/ AtBreakpoint(c)

\* step: what follows the answer of DebugStep
Stepped(c) ==
  /\ c.op = "step" /\ c.at = "answered" /\ Done(c)
  /\ timers' = IF Here(c) /\ Halts(c) THEN Stop(timers, timerRef) ELSE timers
  /\ debugInfo' = IF c.code = 1009 THEN debugInfo ELSE [threads |-> c.threads, lock |-> FALSE]
  /\ halted' = IF c.by # 0 /\ (c.code # 200 \/ AtBreakpoint(c)) THEN halted \cup {c.by} ELSE halted
  /\ UNCHANGED <<visit, mounted, BpNodes, timerRef, captured, firstBot, currentDebugBot, driver, clicks, lost>>
-----------------------------------------------------------------------------
Init ==
  /\ visit = 0 /\ mounted = FALSE /\ BpNodes = {} /\ timers = <<>> /\ timerRef = 0 /\ captured = 0
  /\ firstBot = 0
  /\ currentDebugBot = 0 /\ debugInfo = [threads |-> {}, lock |-> FALSE]
  /\ calls = {} /\ bots = <<>> /\ debugBots = {} /\ leaving = {}
  /\ clicks = 0 /\ lost = 0 /\ halted = {}

Next ==
  \/ Mount \/ Unmount \/ ClickCreateDebug \/ ClickStep \/ StepKey \/ CreateKey \/ ClickRunning
  \/ \E x \in Node : ClickBreakpoint(x)
  \/ \E t \in DOMAIN timers : Tick(t)
  \/ \E c \in calls : DebugCreate(c) \/ FindBot(c) \/ RunByStep(c) \/ Answer(c)
                      \/ Created(c) \/ Stepped(c) \/ Lose(c)
  \/ \E b \in leaving : RmvBot(b)

(* A running timer ticks, a handler of the driver goes on, since the mutex *)
(* serves its waiters in turn, and an answer arrives.  Nobody has to click. *)
Fairness ==
  /\ \A t \in 1..MaxClicks : WF_vars(Tick(t))
  /\ \A t \in 0..MaxClicks, n \in 1..MaxFlight :
       WF_vars(\E c \in calls : Key(c) = [by |-> t, n |-> n] /\
                 (DebugCreate(c) \/ FindBot(c) \/ RunByStep(c) \/ Answer(c) \/ Created(c) \/ Stepped(c)))
  /\ \A b \in 1..MaxClicks : WF_vars(RmvBot(b))

Spec == Init /\ [][Next]_vars
FairSpec == Spec /\ Fairness
-----------------------------------------------------------------------------
Running == {t \in DOMAIN timers : timers[t].running}

TypeOK ==
  /\ mounted \in BOOLEAN /\ visit \in Nat /\ BpNodes \subseteq Breakable
  /\ timerRef \in {0} \cup DOMAIN timers /\ (mounted <=> timerRef # 0)
  /\ mounted => timers[timerRef] = [timers[timerRef] EXCEPT !.bot = currentDebugBot, !.bps = BpNodes]
  /\ captured \in {0} \cup DOMAIN timers
  /\ {currentDebugBot, firstBot} \subseteq {0} \cup DOMAIN bots
  /\ debugInfo.threads \subseteq Node /\ debugInfo.lock \in BOOLEAN
  /\ debugBots \subseteq DOMAIN bots /\ leaving \subseteq DOMAIN bots
  /\ \A c, d \in calls : Key(c) = Key(d) => c = d

(* Timers that go on behind the page's back are few: of the visit that is  *)
(* under way only the current timer and the one before it run, of each     *)
(* former visit at most one.                                               *)
LeakBound ==
  /\ \A t \in Running : mounted /\ timers[t].visit = visit => t \in {timerRef, captured}
  /\ \A v \in 1..visit : v < visit \/ ~mounted =>
       Cardinality({t \in Running : timers[t].visit = v}) <= 1

(* While the page holds a timer, a breakpoint, the end or an unknown bot   *)
(* in an answer to one of its ticks has ended its run, whatever overlapped *)
(* and whichever answer came first.                                        *)
HaltHeld == mounted => timerRef \notin halted \cap Running

(* The factory forgets a debug bot that has come to its end, once the      *)
(* calls that stepped it there are through.                                *)
EndedForgotten ==
  \A b \in debugBots : bots[b].pos = Len(Track) =>
    b \in leaving \/ \E c \in calls : c.bot = b /\ c.at = "ran" /\ c.code = 1007

(* A run ends: the timer the page holds does not tick for ever, though     *)
(* steps overlap, answers come in any order and some get lost.             *)
RunEnds ==
  \A t \in 1..MaxClicks : (timerRef = t /\ t \in Running) ~> ~(timerRef = t /\ t \in Running)
=============================================================================
