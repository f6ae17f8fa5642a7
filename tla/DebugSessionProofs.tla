------------------------ MODULE DebugSessionProofs --------------------------
(***************************************************************************)
(* Proofs about DebugSession, for every tree, any number of clicks, and    *)
(* any number of calls that overlap, come in any order or get lost.        *)
(*                                                                         *)
(* HaltHeld rests on where a timer and its calls belong: the timer of the  *)
(* page is one of the visit under way, and a call of a timer carries the   *)
(* visit the timer was made in (CallsOfTimers), so that an answer that     *)
(* finds its page left cannot be one to the timer of the page.  LeakBound  *)
(* needs that no timer is of a visit to come, and says of the former       *)
(* visits that two running timers of one visit are one.                    *)
(***************************************************************************)
EXTENDS DebugSession, FiniteSetTheorems, TLAPS

Timer == [visit : Nat, bot : Nat, bps : SUBSET Node, running : BOOLEAN]
Bot   == [pos : 0..Len(Track), threads : SUBSET Node]
Call  == [by : Nat, n : Nat, op : {"create", "step"}, bot : Nat, bps : SUBSET Node, visit : Nat,
          at : {"asked", "found", "ran", "answered"}, code : Nat, threads : SUBSET Node]

PageTypes ==
  /\ mounted \in BOOLEAN /\ visit \in Nat /\ BpNodes \in SUBSET Breakable
  /\ timers \in Seq(Timer) /\ timerRef \in 0..Len(timers) /\ captured \in 0..Len(timers)
DriverTypes ==
  /\ bots \in Seq(Bot) /\ currentDebugBot \in 0..Len(bots) /\ firstBot \in 0..Len(bots)
  /\ debugInfo \in [threads : SUBSET Node, lock : BOOLEAN]
  /\ debugBots \in SUBSET (1..Len(bots)) /\ leaving \in SUBSET (1..Len(bots))
CallTypes == calls \in SUBSET Call

\* The page holds a timer while it is shown, one of this visit, for the bot and the
\* breakpoints there are; no timer is of a visit to come.
HeldTimer ==
  /\ mounted <=> timerRef # 0
  /\ ~mounted => captured = 0
  /\ mounted => /\ timers[timerRef].bot = currentDebugBot /\ timers[timerRef].bps = BpNodes
                /\ timers[timerRef].visit = visit
  /\ \A t \in 1..Len(timers) : timers[t].visit <= visit

\* A call of a timer is of the timer's visit.
CallsOfTimers ==
  \A c \in calls : c.by # 0 => c.by \in 1..Len(timers) /\ timers[c.by].visit = c.visit
\* A call that has found its bot, or has made it, names one.
CallsOfBots ==
  \A c \in calls : c.at \in {"found", "ran"} \/ (c.at = "answered" /\ c.op = "create") =>
    c.bot \in 1..Len(bots)
\* Only steps find a bot.
StepsFind == \A c \in calls : c.at \in {"found", "ran"} => c.op = "step"

KeysDiffer == \A c, d \in calls : Key(c) = Key(d) => c = d

\* Of the visit under way two timers may run, of a former one one.
FewRun ==
  /\ mounted => \A t \in Running : timers[t].visit = visit => t \in {timerRef, captured}
  /\ \A t, u \in Running :
       timers[t].visit = timers[u].visit /\ (~mounted \/ timers[t].visit < visit) => t = u

PageInv   == PageTypes /\ HeldTimer /\ FewRun /\ HaltHeld
DriverInv == DriverTypes /\ CallsOfBots /\ StepsFind /\ EndedForgotten
CallInv   == CallTypes /\ CallsOfTimers /\ KeysDiffer

SessionInv == PageInv /\ DriverInv /\ CallInv

\* No timer is taken back, and none changes its visit.
TimersKept ==
  Len(timers) <= Len(timers') /\ \A t \in 1..Len(timers) : timers'[t].visit = timers[t].visit
-----------------------------------------------------------------------------
(* Timers. *)

\* The fields of a timer, also when it is started or stopped.
LEMMA TimerFields ==
  ASSUME NEW t \in Timer, NEW r \in BOOLEAN
  PROVE  /\ t.visit \in Nat /\ [t EXCEPT !.running = r] \in Timer
         /\ [t EXCEPT !.running = r].visit = t.visit /\ [t EXCEPT !.running = r].bot = t.bot
         /\ [t EXCEPT !.running = r].bps = t.bps /\ [t EXCEPT !.running = r].running = r
BY DEF Timer

\* A timer has a visit.
LEMMA Visits ==
  ASSUME timers \in Seq(Timer), NEW t \in 1..Len(timers)
  PROVE  timers[t] \in Timer /\ timers[t].visit \in Nat
<1>1. timers[t] \in Timer
  OBVIOUS
<1> QED BY <1>1, TimerFields

\* Stop keeps what there is and takes away one timer's running.
LEMMA StopFacts ==
  ASSUME NEW ts \in Seq(Timer), NEW s \in 0..Len(ts)
  PROVE  /\ Stop(ts, s) \in Seq(Timer) /\ Len(Stop(ts, s)) = Len(ts)
         /\ \A t \in 1..Len(ts) :
              /\ Stop(ts, s)[t].visit = ts[t].visit /\ Stop(ts, s)[t].bot = ts[t].bot
              /\ Stop(ts, s)[t].bps = ts[t].bps
              /\ Stop(ts, s)[t].running <=> ts[t].running /\ t # s
<1>1. CASE s = 0
  BY <1>1 DEF Stop
<1>2. CASE s # 0
  <2>1. s \in 1..Len(ts) /\ Stop(ts, s) = [ts EXCEPT ![s] = [ts[s] EXCEPT !.running = FALSE]]
    BY <1>2 DEF Stop
  <2>0. ts[s] \in Timer
    BY <2>1
  <2>2. [ts[s] EXCEPT !.running = FALSE] \in Timer
    BY <2>0, TimerFields
  <2>3. /\ [ts[s] EXCEPT !.running = FALSE].visit = ts[s].visit
        /\ [ts[s] EXCEPT !.running = FALSE].bot = ts[s].bot
        /\ [ts[s] EXCEPT !.running = FALSE].bps = ts[s].bps
        /\ [ts[s] EXCEPT !.running = FALSE].running = FALSE
    BY <2>0, TimerFields
  <2>4. Stop(ts, s) \in Seq(Timer) /\ Len(Stop(ts, s)) = Len(ts)
    BY <2>1, <2>2
  <2>5. \A t \in 1..Len(ts) : Stop(ts, s)[t] = IF t = s THEN [ts[s] EXCEPT !.running = FALSE] ELSE ts[t]
    BY <2>1
  <2> QED BY <2>1, <2>3, <2>4, <2>5
<1> QED BY <1>1, <1>2

\* An effect adds a timer that does not run, and stops the one its cleanup knew.
LEMMA EffectFacts ==
  ASSUME PageTypes, NEW b \in Nat, NEW bps \in SUBSET Node, NEW v \in Nat, Effect(b, bps, v)
  PROVE  /\ timers' \in Seq(Timer) /\ Len(timers') = Len(timers) + 1 /\ TimersKept
         /\ timerRef' = Len(timers) + 1 /\ captured' = (IF mounted THEN timerRef ELSE 0)
         /\ timers'[timerRef'] = [visit |-> v, bot |-> b, bps |-> bps, running |-> FALSE]
         /\ \A t \in 1..Len(timers) : timers'[t].running <=> timers[t].running /\ t # captured
<1> DEFINE old == Stop(timers, captured)
           new == [visit |-> v, bot |-> b, bps |-> bps, running |-> FALSE]
<1>1. /\ old \in Seq(Timer) /\ Len(old) = Len(timers)
      /\ \A t \in 1..Len(timers) : /\ old[t].visit = timers[t].visit
                                   /\ old[t].running <=> timers[t].running /\ t # captured
  BY StopFacts DEF PageTypes
<1>2. new \in Timer
  BY DEF Timer
<1>3. timers' = Append(old, new) /\ timerRef' = Len(timers) + 1 /\ captured' = (IF mounted THEN timerRef ELSE 0)
  BY DEF Effect
<1> HIDE DEF old, new
<1>4. timers' \in Seq(Timer) /\ Len(timers') = Len(timers) + 1 /\ timers'[Len(timers) + 1] = new
  BY <1>1, <1>2, <1>3
<1>5. \A t \in 1..Len(timers) : timers'[t] = old[t]
  BY <1>1, <1>2, <1>3
<1>6. Len(timers) \in Nat
  BY DEF PageTypes
<1> USE DEF new
<1> QED BY <1>1, <1>3, <1>4, <1>5, <1>6 DEF TimersKept
-----------------------------------------------------------------------------
(* The page. *)

\* The timer a page holds is a timer.
LEMMA HeldInside ==
  ASSUME PageTypes, HeldTimer, mounted
  PROVE  timerRef \in 1..Len(timers)
BY DEF PageTypes, HeldTimer

\* A step that leaves the page alone keeps what is true of it.
LEMMA PageStays ==
  ASSUME PageInv, UNCHANGED <<page, currentDebugBot, halted>>
  PROVE  PageInv' /\ TimersKept
<1>1. PageInv'
  BY DEF PageInv, PageTypes, HeldTimer, FewRun, HaltHeld, Running, page
<1>2. Len(timers) \in Nat
  BY DEF PageInv, PageTypes
<1> QED BY <1>1, <1>2 DEF TimersKept, page

\* A step that only stops timers, and tells timers to stop that are not the page's or do
\* not run any more, keeps what is true of the page.
LEMMA PageStopped ==
  ASSUME PageInv, NEW s \in 0..Len(timers), timers' = Stop(timers, s),
         UNCHANGED <<visit, mounted, BpNodes, timerRef, captured, currentDebugBot>>,
         mounted => s = timerRef \/ timerRef \notin halted' \cap Running
  PROVE  PageInv' /\ TimersKept
<1>1. /\ timers' \in Seq(Timer) /\ Len(timers') = Len(timers)
      /\ \A t \in 1..Len(timers) :
           /\ timers'[t].visit = timers[t].visit /\ timers'[t].bot = timers[t].bot
           /\ timers'[t].bps = timers[t].bps
           /\ timers'[t].running <=> timers[t].running /\ t # s
  BY StopFacts DEF PageInv, PageTypes
<1>2. Len(timers) \in Nat /\ DOMAIN timers = 1..Len(timers) /\ DOMAIN timers' = 1..Len(timers)
  BY <1>1 DEF PageInv, PageTypes
<1>3. Running' = Running \ {s}
  BY <1>1, <1>2 DEF Running
<1>4. mounted => timerRef \in 1..Len(timers)
  BY HeldInside DEF PageInv
<1>5. PageTypes'
  BY <1>1 DEF PageInv, PageTypes
<1>6. HeldTimer'
  BY <1>1, <1>4 DEF PageInv, HeldTimer
<1>7. FewRun'
  BY <1>1, <1>2, <1>3 DEF PageInv, FewRun, Running
<1>8. HaltHeld'
  BY <1>3 DEF PageInv, HaltHeld
<1>9. TimersKept
  BY <1>1, <1>2 DEF TimersKept
<1> QED BY <1>5, <1>6, <1>7, <1>8, <1>9 DEF PageInv

\* A page that is shown makes its new timer, for another bot or other breakpoints.
LEMMA PageRedone ==
  ASSUME PageInv, mounted, NEW b \in Nat, NEW bps \in SUBSET Breakable, Breakable \subseteq Node,
         Effect(b, bps, visit), BpNodes' = bps, currentDebugBot' = b, UNCHANGED <<visit, mounted>>
  PROVE  PageInv' /\ TimersKept
<1>1. bps \in SUBSET Node /\ visit \in Nat /\ Len(timers) \in Nat /\ PageTypes
  BY DEF PageInv, PageTypes
<1>2. /\ timers' \in Seq(Timer) /\ Len(timers') = Len(timers) + 1 /\ TimersKept
      /\ timerRef' = Len(timers) + 1 /\ captured' = timerRef
      /\ timers'[timerRef'] = [visit |-> visit, bot |-> b, bps |-> bps, running |-> FALSE]
      /\ \A t \in 1..Len(timers) : timers'[t].running <=> timers[t].running /\ t # captured
  BY <1>1, EffectFacts
<1>3. timerRef \in 1..Len(timers)
  BY HeldInside DEF PageInv
<1>4. \A t \in 1..Len(timers') : t \in 1..Len(timers) \/ t = timerRef'
  BY <1>1, <1>2
<1>5. DOMAIN timers = 1..Len(timers) /\ DOMAIN timers' = 1..Len(timers')
  BY <1>1, <1>2 DEF PageTypes
<1>6. Running' = Running \ {captured}
  BY <1>1, <1>2, <1>4, <1>5 DEF Running
<1>7. PageTypes'
  BY <1>1, <1>2, <1>3 DEF PageInv, PageTypes
<1>8. \A t \in 1..Len(timers') : timers'[t].visit <= visit
  BY <1>1, <1>2, <1>4 DEF PageInv, HeldTimer, TimersKept
<1>9. HeldTimer'
  BY <1>1, <1>2, <1>8 DEF HeldTimer
<1>10. \A t \in Running : t \in 1..Len(timers) /\ timers'[t].visit = timers[t].visit
  BY <1>2, <1>5 DEF Running, TimersKept
<1>11. FewRun'
  BY <1>2, <1>6, <1>10 DEF PageInv, FewRun
<1>12. HaltHeld'
  BY <1>1, <1>2, <1>6, <1>5 DEF HaltHeld, Running
<1> QED BY <1>2, <1>7, <1>9, <1>11, <1>12 DEF PageInv

\* The page is opened.
LEMMA MountPage == ASSUME PageInv, Mount, currentDebugBot \in Nat PROVE PageInv' /\ TimersKept
<1>1. visit \in Nat /\ visit + 1 \in Nat /\ Len(timers) \in Nat /\ PageTypes /\ {} \in SUBSET Node
  BY DEF PageInv, PageTypes
<1>2. /\ timers' \in Seq(Timer) /\ Len(timers') = Len(timers) + 1 /\ TimersKept
      /\ timerRef' = Len(timers) + 1 /\ captured' = (IF mounted THEN timerRef ELSE 0)
      /\ timers'[timerRef'] = [visit |-> visit + 1, bot |-> currentDebugBot, bps |-> {}, running |-> FALSE]
      /\ \A t \in 1..Len(timers) : timers'[t].running <=> timers[t].running /\ t # captured
  BY <1>1, EffectFacts DEF Mount
<1>3. ~mounted /\ captured' = 0 /\ mounted' = TRUE /\ visit' = visit + 1 /\ BpNodes' = {}
      /\ currentDebugBot' = currentDebugBot /\ captured = 0
  BY <1>2 DEF Mount, slices, PageInv, HeldTimer
<1>4. \A t \in 1..Len(timers') : t \in 1..Len(timers) \/ t = timerRef'
  BY <1>1, <1>2
<1>5. DOMAIN timers = 1..Len(timers) /\ DOMAIN timers' = 1..Len(timers')
  BY <1>1, <1>2 DEF PageTypes
<1>6. Running' \subseteq Running
  BY <1>1, <1>2, <1>4, <1>5 DEF Running
<1>7. PageTypes'
  BY <1>1, <1>2, <1>3 DEF PageTypes
<1>8. \A t \in 1..Len(timers) : timers'[t].visit = timers[t].visit /\ timers[t].visit <= visit
  BY <1>2 DEF PageInv, HeldTimer, TimersKept
<1>a. \A t \in 1..Len(timers) : timers[t].visit \in Nat
  BY <1>1, Visits DEF PageTypes
<1>9. HeldTimer'
  <2>1. \A t \in 1..Len(timers') : timers'[t].visit <= visit + 1
    BY <1>1, <1>2, <1>4, <1>8, <1>a
  <2> QED BY <1>1, <1>2, <1>3, <2>1 DEF HeldTimer
<1>10. \A t \in Running : t \in 1..Len(timers) /\ timers'[t].visit = timers[t].visit
                          /\ timers[t].visit # visit + 1
  BY <1>1, <1>8, <1>a, <1>5 DEF Running
<1>11. FewRun'
  BY <1>3, <1>6, <1>10 DEF PageInv, FewRun
<1>12. HaltHeld'
  BY <1>1, <1>2, <1>6, <1>5 DEF HaltHeld, Running
<1> QED BY <1>2, <1>7, <1>9, <1>11, <1>12 DEF PageInv

\* The page is left: of its visit no timer but the one it held goes on.
LEMMA UnmountPage == ASSUME PageInv, Unmount PROVE PageInv' /\ TimersKept
<1>0. mounted /\ mounted' = FALSE /\ timerRef' = 0 /\ captured' = 0 /\ visit' = visit /\ BpNodes' = BpNodes
      /\ timers' = Stop(timers, captured) /\ visit \in Nat
  BY DEF Unmount, PageInv, PageTypes
<1>1. /\ timers' \in Seq(Timer) /\ Len(timers') = Len(timers)
      /\ \A t \in 1..Len(timers) : /\ timers'[t].visit = timers[t].visit
                                   /\ timers'[t].running <=> timers[t].running /\ t # captured
  BY <1>0, StopFacts DEF PageInv, PageTypes
<1>2. Len(timers) \in Nat /\ DOMAIN timers = 1..Len(timers) /\ DOMAIN timers' = 1..Len(timers)
      /\ \A t \in 1..Len(timers) : timers[t].visit \in Nat
  BY <1>1, Visits DEF PageInv, PageTypes
<1>3. Running' = Running \ {captured}
  BY <1>1, <1>2 DEF Running
<1>4. PageTypes'
  <2>1. 0 \in 0..Len(timers')
    BY <1>1, <1>2
  <2>2. mounted' \in BOOLEAN /\ visit' \in Nat /\ BpNodes' \in SUBSET Breakable
    BY <1>0 DEF PageInv, PageTypes
  <2> QED BY <1>0, <1>1, <2>1, <2>2 DEF PageTypes
<1>5. HeldTimer'
  BY <1>0, <1>1 DEF PageInv, HeldTimer
<1>6. \A t \in Running : t \in 1..Len(timers) /\ timers'[t].visit = timers[t].visit
                         /\ (timers[t].visit < visit \/ timers[t].visit = visit)
  BY <1>0, <1>1, <1>2 DEF Running, PageInv, HeldTimer
<1>7. FewRun'
  BY <1>0, <1>3, <1>6 DEF PageInv, FewRun
<1>8. HaltHeld'
  BY <1>0 DEF HaltHeld
<1> QED BY <1>1, <1>2, <1>4, <1>5, <1>7, <1>8 DEF PageInv, TimersKept

\* The run is started.
LEMMA RunPage == ASSUME PageInv, ClickRunning PROVE PageInv' /\ TimersKept
<1>0. mounted /\ timers' = [timers EXCEPT ![timerRef] = [timers[timerRef] EXCEPT !.running = TRUE]]
      /\ halted' = halted \ {timerRef}
      /\ UNCHANGED <<visit, mounted, BpNodes, timerRef, captured, currentDebugBot>>
  BY DEF ClickRunning, slices
<1>1. timerRef \in 1..Len(timers) /\ timers \in Seq(Timer) /\ Len(timers) \in Nat /\ visit \in Nat
  BY <1>0, HeldInside DEF PageInv, PageTypes
<1>a. timers[timerRef] \in Timer
  BY <1>1
<1>2. [timers[timerRef] EXCEPT !.running = TRUE] \in Timer
  BY <1>a, TimerFields
<1>3. /\ [timers[timerRef] EXCEPT !.running = TRUE].visit = timers[timerRef].visit
      /\ [timers[timerRef] EXCEPT !.running = TRUE].bot = timers[timerRef].bot
      /\ [timers[timerRef] EXCEPT !.running = TRUE].bps = timers[timerRef].bps
  BY <1>a, TimerFields
<1>4. timers' \in Seq(Timer) /\ Len(timers') = Len(timers)
  BY <1>0, <1>1, <1>2
<1>5. \A t \in 1..Len(timers) : /\ timers'[t].visit = timers[t].visit /\ timers'[t].bot = timers[t].bot
                                /\ timers'[t].bps = timers[t].bps
                                /\ t # timerRef => timers'[t].running = timers[t].running
  <2>1. timers'[timerRef] = [timers[timerRef] EXCEPT !.running = TRUE]
    <3>1. \A x : [timers EXCEPT ![timerRef] = x][timerRef] = x
      BY <1>1
    <3> QED BY <1>0, <3>1
  <2>2. \A t \in 1..Len(timers) : t # timerRef => timers'[t] = timers[t]
    BY <1>0, <1>1
  <2> QED BY <1>3, <2>1, <2>2
<1>6. DOMAIN timers = 1..Len(timers) /\ DOMAIN timers' = 1..Len(timers)
  BY <1>1, <1>4
<1>7. Running' \subseteq Running \cup {timerRef} /\ \A t \in Running' : t \in 1..Len(timers)
  BY <1>5, <1>6 DEF Running
<1>8. PageTypes'
  BY <1>0, <1>4 DEF PageInv, PageTypes
<1>9. HeldTimer'
  BY <1>0, <1>1, <1>4, <1>5 DEF PageInv, HeldTimer
<1>10. timers[timerRef].visit = visit
  BY <1>0 DEF PageInv, HeldTimer
<1>11. FewRun'
  <2>1. \A t \in Running' : t = timerRef \/ t \in Running
    BY <1>7
  <2>2. ~(visit < visit)
    BY <1>1
  <2> QED BY <1>0, <1>5, <1>7, <1>10, <2>1, <2>2 DEF PageInv, FewRun
<1>12. HaltHeld'
  BY <1>0 DEF HaltHeld
<1> QED BY <1>1, <1>4, <1>5, <1>8, <1>9, <1>11, <1>12 DEF PageInv, TimersKept
-----------------------------------------------------------------------------
(* Calls. *)

At == {"asked", "found", "ran", "answered"}
\* Call d is call c, passed on to where it is at a.
Follows(c, d, a) ==
  d \in Call /\ Key(d) = Key(c) /\ d.visit = c.visit /\ d.by = c.by /\ d.op = c.op /\ d.at = a

\* The ways a call is passed on.
LEMMA PassedOn ==
  ASSUME NEW c \in Call, NEW a \in At
  PROVE  Follows(c, [c EXCEPT !.at = a], a) /\ [c EXCEPT !.at = a].bot = c.bot
BY DEF Call, Key, Follows, At

\* with a code
LEMMA PassedCode ==
  ASSUME NEW c \in Call, NEW a \in At, NEW k \in Nat
  PROVE  /\ Follows(c, [c EXCEPT !.at = a, !.code = k], a) /\ [c EXCEPT !.at = a, !.code = k].bot = c.bot
         /\ [c EXCEPT !.at = a, !.code = k].code = k
BY DEF Call, Key, Follows, At

\* with a code and the name of a bot
Names(c, k, b) == [c EXCEPT !.at = "answered", !.code = k, !.bot = b]
LEMMA PassedBot ==
  ASSUME NEW c \in Call, NEW k \in Nat, NEW b \in Nat
  PROVE  Follows(c, Names(c, k, b), "answered") /\ Names(c, k, b).bot = b
BY DEF Call, Key, Follows, Names

\* with the threads of the bot
LEMMA PassedThreads ==
  ASSUME NEW c \in Call, NEW a \in At, NEW ts \in SUBSET Node
  PROVE  /\ Follows(c, [c EXCEPT !.at = a, !.threads = ts], a)
         /\ [c EXCEPT !.at = a, !.threads = ts].bot = c.bot
BY DEF Call, Key, Follows, At

\* Calls of timers that are kept stay where they belong.
LEMMA TimersOfCalls ==
  ASSUME PageTypes, CallsOfTimers, TimersKept, PageTypes', calls' \subseteq calls
  PROVE  CallsOfTimers'
<1>1. Len(timers) \in Nat /\ Len(timers') \in Nat
  BY DEF PageTypes
<1> QED BY <1>1 DEF CallsOfTimers, TimersKept

\* Fewer calls, or as many.
LEMMA CallsLeft ==
  ASSUME CallInv, PageTypes, PageTypes', TimersKept, calls' \subseteq calls
  PROVE  CallInv'
<1>1. CallsOfTimers'
  BY TimersOfCalls DEF CallInv
<1> QED BY <1>1 DEF CallInv, CallTypes, KeysDiffer, Key

\* A call that is passed on.
LEMMA CallMoved ==
  ASSUME CallInv, NEW c \in calls, NEW d, NEW a, Follows(c, d, a), Moves(c, d), UNCHANGED timers
  PROVE  CallInv'
<1>1. calls' = (calls \ {c}) \cup {d}
  BY DEF Moves
<1>2. CallTypes'
  BY <1>1 DEF CallInv, CallTypes, Follows
<1>3. CallsOfTimers'
  BY <1>1 DEF CallInv, CallsOfTimers, Follows
<1>4. \A e \in calls : Key(e) = Key(d) => e = c
  BY DEF CallInv, KeysDiffer, Follows
<1>5. \A e, f \in calls' : Key(e) = Key(f) => e = f
  BY <1>1, <1>4 DEF CallInv, KeysDiffer
<1>6. KeysDiffer'
  BY <1>5 DEF KeysDiffer, Key
<1> QED BY <1>2, <1>3, <1>6 DEF CallInv

\* A call that is asked for, of a button or of a timer of its visit.
LEMMA CallAsked ==
  ASSUME CallInv, PageTypes, PageTypes', TimersKept,
         NEW t \in 0..Len(timers), NEW op \in {"create", "step"}, NEW b \in Nat, NEW bps \in SUBSET Node,
         NEW v \in Nat, t # 0 => timers[t].visit = v, Ask(t, op, b, bps, v)
  PROVE  /\ CallInv'
         /\ \E d \in Call : calls' = calls \cup {d} /\ d.at = "asked"
<1> DEFINE busy == {c.n : c \in {e \in calls : e.by = t}}
<1>1. PICK n \in 1..MaxFlight : n \notin busy /\ calls' = calls \cup {Asked(t, n, op, b, bps, v)}
  BY DEF Ask
<1>0. Len(timers) \in Nat /\ Len(timers') \in Nat
  BY DEF PageTypes
<1> DEFINE d == Asked(t, n, op, b, bps, v)
<1>2. d \in Call /\ d.by = t /\ d.n = n /\ d.visit = v /\ d.at = "asked" /\ Key(d) = [by |-> t, n |-> n]
  BY <1>0 DEF Asked, Call, Key
<1>3. calls' = calls \cup {d}
  BY <1>1
<1> HIDE DEF d
<1>4. CallTypes'
  BY <1>2, <1>3 DEF CallInv, CallTypes
<1>5. CallsOfTimers'
  <2>1. \A c \in calls : c.by # 0 => c.by \in 1..Len(timers') /\ timers'[c.by].visit = c.visit
    BY <1>0 DEF CallInv, CallsOfTimers, TimersKept
  <2>2. d.by # 0 => d.by \in 1..Len(timers') /\ timers'[d.by].visit = d.visit
    BY <1>0, <1>2 DEF TimersKept
  <2> QED BY <1>3, <2>1, <2>2 DEF CallsOfTimers
<1>6. KeysDiffer'
  <2>1. ASSUME NEW e \in calls, Key(e) = Key(d) PROVE FALSE
    <3>1. e.by = t /\ e.n = n
      BY <1>2, <2>1 DEF Key
    <3> QED BY <1>1, <3>1
  <2>2. \A e, f \in calls' : Key(e) = Key(f) => e = f
    BY <1>3, <2>1 DEF CallInv, KeysDiffer
  <2> QED BY <2>2 DEF KeysDiffer, Key
<1> QED BY <1>2, <1>3, <1>4, <1>5, <1>6 DEF CallInv
-----------------------------------------------------------------------------
(* Bots. *)

\* The driver keeps what is true of it when its bots stay and each call it works on does.
LEMMA DriverStays ==
  ASSUME DriverInv, UNCHANGED driver, debugInfo' \in [threads : SUBSET Node, lock : BOOLEAN],
         firstBot' \in 0..Len(bots), currentDebugBot' \in 0..Len(bots),
         \A c \in calls' : c \in calls \/ c.at = "asked",
         \A c \in calls : c.at = "ran" => c \in calls'
  PROVE  DriverInv'
<1>1. UNCHANGED <<bots, debugBots, leaving>>
  BY DEF driver
<1>2. DriverTypes'
  BY <1>1 DEF DriverInv, DriverTypes
<1>3. CallsOfBots' /\ StepsFind'
  BY <1>1 DEF DriverInv, CallsOfBots, StepsFind
<1>4. EndedForgotten'
  BY <1>1 DEF DriverInv, EndedForgotten
<1> QED BY <1>2, <1>3, <1>4 DEF DriverInv

\* A bot of the sequence has its place and its threads.
LEMMA BotFields ==
  ASSUME bots \in Seq(Bot), NEW b \in 1..Len(bots)
  PROVE  bots[b] \in Bot /\ bots[b].pos \in 0..Len(Track) /\ bots[b].threads \in SUBSET Node
<1>1. bots[b] \in Bot
  OBVIOUS
<1> QED BY <1>1 DEF Bot

\* A step of a bot ticks nodes.
LEMMA TrackNodes ==
  ASSUME NEW k \in 1..Len(Track)
  PROVE  Track[k] \in SUBSET Node
BY SessionAssumption

\* What a thread info may say are nodes.
LEMMA InfoNodes ==
  ASSUME bots \in Seq(Bot), NEW b \in 1..Len(bots), NEW info \in Info(b)
  PROVE  info \in SUBSET Node
<1>1. bots[b].pos \in 0..Len(Track) /\ bots[b].threads \in SUBSET Node
  BY BotFields
<1>2. Len(Track) \in Nat
  BY SessionAssumption
<1>3. CASE info \in {bots[b].threads, {}}
  BY <1>1, <1>3
<1>4. CASE info \notin {bots[b].threads, {}}
  <2>1. bots[b].pos < Len(Track) /\ info \in SUBSET Track[bots[b].pos + 1]
    BY <1>4 DEF Info
  <2>2. bots[b].pos + 1 \in 1..Len(Track)
    BY <1>1, <1>2, <2>1
  <2> QED BY <2>1, <2>2, TrackNodes
<1> QED BY <1>3, <1>4

\* A new bot, and the answer that names it.
LEMMA CreateKeeps ==
  ASSUME SessionInv, NEW c \in calls, DebugCreate(c)
  PROVE  DriverInv' /\ CallInv'
<1> DEFINE new == Len(bots) + 1
           d == Names(c, 200, new)
<1>1. c \in Call /\ c.at = "asked" /\ c.op = "create" /\ bots \in Seq(Bot) /\ Len(bots) \in Nat
  BY DEF DebugCreate, SessionInv, CallInv, CallTypes, DriverInv, DriverTypes
<1>2. Follows(c, d, "answered") /\ d.bot = new
  <2>1. c \in Call /\ new \in Nat /\ 200 \in Nat
    BY <1>1
  <2> QED BY <2>1, PassedBot
<1>3. Moves(c, d) /\ UNCHANGED <<page, slices, leaving, halted>>
      /\ bots' = Append(bots, [pos |-> 0, threads |-> {}]) /\ debugBots' = debugBots \cup {new}
  BY DEF DebugCreate, Names
<1>4. calls' = (calls \ {c}) \cup {d}
  BY <1>3 DEF Moves
<1> HIDE DEF d
<1>5. CallInv'
  BY <1>2, <1>3, CallMoved DEF SessionInv, page
<1>6. [pos |-> 0, threads |-> {}] \in Bot
  BY SessionAssumption DEF Bot
<1>7. /\ bots' \in Seq(Bot) /\ Len(bots') = new /\ bots'[new] = [pos |-> 0, threads |-> {}]
      /\ \A b \in 1..Len(bots) : bots'[b] = bots[b]
  BY <1>1, <1>3, <1>6
<1>8. DriverTypes'
  <2>1. 0..Len(bots) \subseteq 0..Len(bots') /\ 1..Len(bots) \subseteq 1..Len(bots') /\ new \in 1..Len(bots')
    BY <1>1, <1>7
  <2> QED BY <1>3, <1>7, <2>1 DEF SessionInv, DriverInv, DriverTypes, page, slices
<1>9. CallsOfBots' /\ StepsFind'
  <2>1. 1..Len(bots) \subseteq 1..Len(bots') /\ new \in 1..Len(bots')
    BY <1>1, <1>7
  <2> QED BY <1>1, <1>2, <1>4, <2>1 DEF SessionInv, DriverInv, CallsOfBots, StepsFind, Follows
<1>10. EndedForgotten'
  <2>1. Len(Track) # 0
    BY SessionAssumption
  <2> SUFFICES ASSUME NEW b \in debugBots', bots'[b].pos = Len(Track)
               PROVE  b \in leaving' \/ \E e \in calls' : e.bot = b /\ e.at = "ran" /\ e.code = 1007
    BY DEF EndedForgotten
  <2>2. b # new
    BY <1>7, <2>1
  <2>3. b \in debugBots /\ b \in 1..Len(bots)
    BY <1>3, <2>2 DEF SessionInv, DriverInv, DriverTypes
  <2>4. b \in leaving \/ \E e \in calls : e.bot = b /\ e.at = "ran" /\ e.code = 1007
    BY <1>7, <2>3 DEF SessionInv, DriverInv, EndedForgotten
  <2> QED BY <1>1, <1>3, <1>4, <2>4
<1> QED BY <1>5, <1>8, <1>9, <1>10 DEF DriverInv

\* A bot is looked up.
LEMMA FindKeeps ==
  ASSUME SessionInv, NEW c \in calls, FindBot(c)
  PROVE  DriverInv' /\ CallInv'
<1>1. c \in Call /\ c.at = "asked" /\ c.op = "step"
  BY DEF FindBot, SessionInv, CallInv, CallTypes
<1>2. \E d \in Call, a \in {"found", "answered"} :
        Moves(c, d) /\ Follows(c, d, a) /\ d.bot = c.bot /\ (a = "found" => c.bot \in debugBots)
  <2>1. CASE c.bot \in debugBots
    <3>1. Follows(c, [c EXCEPT !.at = "found"], "found") /\ [c EXCEPT !.at = "found"].bot = c.bot
      BY <1>1, PassedOn DEF At
    <3>2. Moves(c, [c EXCEPT !.at = "found"])
      BY <2>1 DEF FindBot
    <3> QED BY <2>1, <3>1, <3>2 DEF Follows
  <2>2. CASE c.bot \notin debugBots
    <3>0. PICK a \in At, k \in Nat : a = "answered" /\ k = 1009
      BY DEF At
    <3> DEFINE d == [c EXCEPT !.at = a, !.code = k]
    <3>1. Follows(c, d, "answered") /\ d.bot = c.bot
      <4>1. Follows(c, [c EXCEPT !.at = a, !.code = k], a) /\ [c EXCEPT !.at = a, !.code = k].bot = c.bot
        <5>1. c \in Call
          BY <1>1
        <5> QED BY <5>1, PassedCode, Zenon
      <4> QED BY <3>0, <4>1
    <3>2. Moves(c, d)
      BY <2>2, <3>0 DEF FindBot
    <3> HIDE DEF d
    <3> QED BY <3>1, <3>2 DEF Follows
  <2> QED BY <2>1, <2>2
<1>3. PICK d \in Call, a \in {"found", "answered"} :
        Moves(c, d) /\ Follows(c, d, a) /\ d.bot = c.bot /\ (a = "found" => c.bot \in debugBots)
  BY <1>2
<1>4. calls' = (calls \ {c}) \cup {d} /\ UNCHANGED <<page, slices, driver, halted>>
  BY <1>3 DEF Moves, FindBot
<1>5. CallInv'
  BY <1>3, <1>4, CallMoved DEF SessionInv, page
<1>6. DriverTypes'
  BY <1>4 DEF SessionInv, DriverInv, DriverTypes, page, slices, driver
<1>7. CallsOfBots' /\ StepsFind'
  <2>1. debugBots \subseteq 1..Len(bots)
    BY DEF SessionInv, DriverInv, DriverTypes
  <2> QED BY <1>1, <1>3, <1>4, <2>1 DEF SessionInv, DriverInv, CallsOfBots, StepsFind, driver, Follows
<1>8. EndedForgotten'
  BY <1>1, <1>4 DEF SessionInv, DriverInv, EndedForgotten, driver
<1> QED BY <1>5, <1>6, <1>7, <1>8 DEF DriverInv

\* A bot steps; the call that brings it to its end says so.
LEMMA RunKeeps ==
  ASSUME SessionInv, NEW c \in calls, RunByStep(c)
  PROVE  DriverInv' /\ CallInv'
<1>1. c \in Call /\ c.at = "found" /\ c.op = "step" /\ c.bot \in 1..Len(bots) /\ bots \in Seq(Bot)
      /\ Len(bots) \in Nat /\ Len(Track) \in Nat
  BY SessionAssumption DEF RunByStep, SessionInv, CallInv, CallTypes, DriverInv, DriverTypes, CallsOfBots, StepsFind
<1>2. bots[c.bot].pos \in 0..Len(Track)
  BY <1>1, BotFields
<1>a. PICK pos \in 0..Len(Track) : pos = bots[c.bot].pos
  BY <1>2
<1>b. PICK new \in Bot : new = IF pos < Len(Track) THEN [pos |-> pos + 1, threads |-> Track[pos + 1]]
                               ELSE [pos |-> pos, threads |-> {}]
  <2>1. CASE pos < Len(Track)
    <3>1. pos + 1 \in 0..Len(Track) /\ pos + 1 \in 1..Len(Track)
      BY <1>1, <2>1
    <3> QED BY <2>1, <3>1, TrackNodes DEF Bot
  <2>2. CASE ~(pos < Len(Track))
    BY <2>2 DEF Bot
  <2> QED BY <2>1, <2>2
<1>c. PICK k \in Nat : k = IF pos + 1 >= Len(Track) THEN 1007 ELSE 200
  OBVIOUS
<1>d. PICK a \in At : a = "ran"
  BY DEF At
<1>3. /\ k = 1007 <=> pos + 1 >= Len(Track)
      /\ new.pos = (IF pos < Len(Track) THEN pos + 1 ELSE pos)
      /\ bots' = [bots EXCEPT ![c.bot] = new]
      /\ Moves(c, [c EXCEPT !.at = a, !.code = k])
  <2>1. Moves(c, [c EXCEPT !.at = a, !.code = k])
    BY <1>a, <1>c, <1>d DEF RunByStep
  <2>2. bots' = [bots EXCEPT ![c.bot] = new]
    BY <1>a, <1>b DEF RunByStep
  <2> QED BY <1>b, <1>c, <2>1, <2>2
<1> DEFINE d == [c EXCEPT !.at = a, !.code = k]
<1>4. Follows(c, d, a) /\ d.bot = c.bot /\ d.code = k
  BY <1>1, PassedCode, Zenon
<1>5. Moves(c, d) /\ UNCHANGED <<page, slices, debugBots, leaving, halted>>
  BY <1>3 DEF RunByStep
<1> HIDE DEF d
<1>6. calls' = (calls \ {c}) \cup {d}
  BY <1>5 DEF Moves
<1>7. CallInv'
  BY <1>4, <1>5, CallMoved DEF SessionInv, page
<1>8. /\ bots' \in Seq(Bot) /\ Len(bots') = Len(bots) /\ bots'[c.bot] = new
      /\ \A b \in 1..Len(bots) : b # c.bot => bots'[b] = bots[b]
  BY <1>1, <1>3
<1>9. DriverTypes'
  BY <1>5, <1>8 DEF SessionInv, DriverInv, DriverTypes, page, slices
<1>10. CallsOfBots' /\ StepsFind'
  BY <1>1, <1>d, <1>4, <1>6, <1>8 DEF SessionInv, DriverInv, CallsOfBots, StepsFind, Follows
<1>11. EndedForgotten'
  <2> SUFFICES ASSUME NEW b \in debugBots', bots'[b].pos = Len(Track)
               PROVE  b \in leaving' \/ \E e \in calls' : e.bot = b /\ e.at = "ran" /\ e.code = 1007
    BY DEF EndedForgotten
  <2>1. b \in debugBots /\ b \in 1..Len(bots)
    BY <1>5 DEF SessionInv, DriverInv, DriverTypes
  <2>2. CASE b = c.bot
    <3>1. k = 1007
      BY <1>1, <1>3, <1>8, <2>2
    <3> QED BY <1>d, <1>4, <1>6, <2>2, <3>1 DEF Follows
  <2>3. CASE b # c.bot
    <3>1. b \in leaving \/ \E e \in calls : e.bot = b /\ e.at = "ran" /\ e.code = 1007
      BY <1>8, <2>1, <2>3 DEF SessionInv, DriverInv, EndedForgotten
    <3> QED BY <1>1, <1>5, <1>6, <3>1
  <2> QED BY <2>2, <2>3
<1> QED BY <1>7, <1>9, <1>10, <1>11 DEF DriverInv

\* A step is answered; at the end of the bot its removal is put off.
LEMMA AnswerKeeps ==
  ASSUME SessionInv, NEW c \in calls, Answer(c)
  PROVE  DriverInv' /\ CallInv'
<1>1. c \in Call /\ c.at = "ran" /\ c.op = "step" /\ c.bot \in 1..Len(bots) /\ bots \in Seq(Bot)
  BY DEF Answer, SessionInv, CallInv, CallTypes, DriverInv, DriverTypes, CallsOfBots, StepsFind
<1>2. PICK info \in Info(c.bot), a \in At : a = "answered" /\ Moves(c, [c EXCEPT !.at = a, !.threads = info])
  BY DEF Answer, At
<1>3. info \in SUBSET Node
  BY <1>1, InfoNodes
<1> DEFINE d == [c EXCEPT !.at = a, !.threads = info]
<1>4. Follows(c, d, a) /\ d.bot = c.bot
  BY <1>1, <1>3, PassedThreads, Zenon
<1>5. Moves(c, d) /\ UNCHANGED <<page, slices, bots, debugBots, halted>>
      /\ leaving' = IF c.code = 1007 THEN leaving \cup {c.bot} ELSE leaving
  BY <1>2 DEF Answer
<1> HIDE DEF d
<1>6. calls' = (calls \ {c}) \cup {d}
  BY <1>5 DEF Moves
<1>7. CallInv'
  BY <1>4, <1>5, CallMoved DEF SessionInv, page
<1>8. DriverTypes'
  <2>1. leaving \in SUBSET (1..Len(bots))
    BY DEF SessionInv, DriverInv, DriverTypes
  <2>2. leaving' \in SUBSET (1..Len(bots)) /\ bots' = bots
    <3>1. CASE c.code = 1007
      <4>1. leaving' = leaving \cup {c.bot} /\ bots' = bots
        BY <1>5, <3>1
      <4>2. c.bot \in 1..Len(bots)
        BY <1>1
      <4> QED BY <2>1, <4>1, <4>2
    <3>2. CASE c.code # 1007
      BY <1>5, <2>1, <3>2
    <3> QED BY <3>1, <3>2
  <2> QED BY <1>5, <2>2 DEF SessionInv, DriverInv, DriverTypes, page, slices
<1>9. CallsOfBots' /\ StepsFind'
  BY <1>1, <1>2, <1>4, <1>5, <1>6 DEF SessionInv, DriverInv, CallsOfBots, StepsFind, Follows
<1>10. EndedForgotten'
  BY <1>5, <1>6 DEF SessionInv, DriverInv, EndedForgotten
<1> QED BY <1>7, <1>8, <1>9, <1>10 DEF DriverInv

\* A bot is removed.
LEMMA RmvKeeps ==
  ASSUME SessionInv, NEW b \in leaving, RmvBot(b)
  PROVE  DriverInv' /\ CallInv'
<1>1. leaving' = leaving \ {b} /\ debugBots' = debugBots \ {b} /\ UNCHANGED <<page, slices, calls, bots, halted>>
  BY DEF RmvBot
<1>2. DriverTypes'
  BY <1>1 DEF SessionInv, DriverInv, DriverTypes, page, slices
<1>3. CallsOfBots' /\ StepsFind'
  BY <1>1 DEF SessionInv, DriverInv, CallsOfBots, StepsFind
<1>4. EndedForgotten'
  BY <1>1 DEF SessionInv, DriverInv, EndedForgotten
<1>5. CallInv'
  BY <1>1 DEF SessionInv, CallInv, CallTypes, CallsOfTimers, KeysDiffer, Key, page
<1> QED BY <1>2, <1>3, <1>4, <1>5 DEF DriverInv
-----------------------------------------------------------------------------
(* The answers. *)

\* A new bot becomes the one the page debugs, if it is still there.
LEMMA CreatedKeeps ==
  ASSUME SessionInv, NEW c \in calls, Created(c)
  PROVE  SessionInv'
<1>1. c \in Call /\ c.bot \in 1..Len(bots) /\ Len(bots) \in Nat /\ c.at = "answered"
  BY DEF Created, SessionInv, CallInv, CallTypes, DriverInv, CallsOfBots, DriverTypes
<1>2. currentDebugBot' = c.bot /\ calls' = calls \ {c}
      /\ UNCHANGED <<visit, mounted, BpNodes, firstBot, debugInfo, driver, halted>>
  BY DEF Created, Done
<1>3. PageInv' /\ TimersKept
  <2>1. CASE mounted
    <3>1. Effect(c.bot, BpNodes, visit)
      BY <2>1 DEF Created
    <3>2. BpNodes \in SUBSET Breakable /\ c.bot \in Nat
      BY <1>1 DEF SessionInv, PageInv, PageTypes
    <3> QED BY <1>2, <2>1, <3>1, <3>2, PageRedone, SessionAssumption DEF SessionInv
  <2>2. CASE ~mounted
    <3>1. UNCHANGED <<visit, mounted, BpNodes, timers, timerRef, captured, halted>>
      BY <1>2, <2>2 DEF Created
    <3>2. PageTypes' /\ HaltHeld'
      BY <3>1 DEF SessionInv, PageInv, PageTypes, HaltHeld, Running
    <3>3. HeldTimer' /\ FewRun'
      BY <2>2, <3>1 DEF SessionInv, PageInv, HeldTimer, FewRun, Running
    <3>4. Len(timers) \in Nat
      BY DEF SessionInv, PageInv, PageTypes
    <3> QED BY <3>1, <3>2, <3>3, <3>4 DEF PageInv, TimersKept
  <2> QED BY <2>1, <2>2
<1>4. CallInv'
  BY <1>2, <1>3, CallsLeft DEF SessionInv, PageInv
<1>5. DriverInv'
  <2>1. DriverInv /\ debugInfo' \in [threads : SUBSET Node, lock : BOOLEAN] /\ firstBot' \in 0..Len(bots)
    BY <1>2 DEF SessionInv, DriverInv, DriverTypes
  <2>2. currentDebugBot' \in 0..Len(bots)
    BY <1>1, <1>2
  <2> QED BY <1>1, <1>2, <2>1, <2>2, DriverStays
<1> QED BY <1>3, <1>4, <1>5 DEF SessionInv

\* A step has been answered: an answer that tells the run to stop either comes to the page
\* it was asked from, and stops its timer, or to another timer's page.
LEMMA SteppedKeeps ==
  ASSUME SessionInv, NEW c \in calls, Stepped(c)
  PROVE  SessionInv'
<1>1. c \in Call /\ c.at = "answered" /\ PageInv
  BY DEF Stepped, SessionInv, CallInv, CallTypes
<1>2. calls' = calls \ {c} /\ timers' = (IF Here(c) /\ Halts(c) THEN Stop(timers, timerRef) ELSE timers)
      /\ debugInfo' = (IF c.code = 1009 THEN debugInfo ELSE [threads |-> c.threads, lock |-> FALSE])
      /\ halted' = (IF c.by # 0 /\ (c.code # 200 \/ AtBreakpoint(c)) THEN halted \cup {c.by} ELSE halted)
      /\ UNCHANGED <<visit, mounted, BpNodes, timerRef, captured, firstBot, currentDebugBot, driver>>
  BY DEF Stepped, Done
<1>3. PageInv' /\ TimersKept
  <2>1. CASE Here(c) /\ Halts(c)
    <3>1. timerRef \in 0..Len(timers)
      BY <1>1 DEF PageInv, PageTypes
    <3> QED BY <1>1, <1>2, <2>1, <3>1, PageStopped
  <2>2. CASE ~(Here(c) /\ Halts(c))
    <3>1. timers' = Stop(timers, 0) /\ 0 \in 0..Len(timers)
      BY <1>1, <1>2, <2>2 DEF Stop, PageInv, PageTypes
    <3>2. mounted => timerRef \notin halted' \cap Running
      <4>1. SUFFICES ASSUME mounted, c.by # 0, Halts(c), timerRef = c.by PROVE FALSE
        BY <1>1, <1>2 DEF PageInv, HaltHeld, Halts
      <4>2. c.visit # visit
        BY <2>2, <4>1 DEF Here
      <4>3. timers[c.by].visit = c.visit
        BY <4>1 DEF SessionInv, CallInv, CallsOfTimers
      <4> QED BY <1>1, <4>1, <4>2, <4>3 DEF PageInv, HeldTimer
    <3> QED BY <1>1, <1>2, <3>1, <3>2, PageStopped
  <2> QED BY <2>1, <2>2
<1>4. CallInv'
  BY <1>2, <1>3, CallsLeft DEF SessionInv, PageInv
<1>5. DriverInv'
  <2>1. c.threads \in SUBSET Node
    BY <1>1 DEF Call
  <2>2. DriverInv /\ debugInfo' \in [threads : SUBSET Node, lock : BOOLEAN] /\ firstBot' \in 0..Len(bots)
        /\ currentDebugBot' \in 0..Len(bots)
    BY <1>2, <2>1 DEF SessionInv, DriverInv, DriverTypes
  <2> QED BY <1>1, <1>2, <2>2, DriverStays
<1> QED BY <1>3, <1>4, <1>5 DEF SessionInv
-----------------------------------------------------------------------------
\* A set without two different elements has at most one.
LEMMA AtMostOne == ASSUME NEW S, \A t, u \in S : t = u PROVE Cardinality(S) <= 1
<1>1. CASE S = {}
  BY <1>1, FS_EmptySet
<1>2. CASE S # {}
  <2>1. PICK t : S = {t}
    BY <1>2
  <2>2. Cardinality({t}) = 1
    BY FS_Singleton
  <2> QED BY <2>1, <2>2
<1> QED BY <1>1, <1>2

\* The start: nothing is there yet.
LEMMA InitSession == Init => SessionInv
<1> SUFFICES ASSUME Init PROVE SessionInv
  OBVIOUS
<1>1. Len(timers) = 0 /\ Len(bots) = 0 /\ DOMAIN timers = {} /\ timers \in Seq(Timer) /\ bots \in Seq(Bot)
      /\ Running = {}
  BY DEF Init, Running
<1>2. PageTypes /\ DriverTypes /\ CallTypes
  <2>1. PageTypes
    <3>1. 0 \in 0..Len(timers) /\ {} \in SUBSET Breakable /\ 0 \in Nat /\ FALSE \in BOOLEAN
      BY <1>1
    <3> QED BY <1>1, <3>1 DEF Init, PageTypes
  <2>2. debugInfo \in [threads : SUBSET Node, lock : BOOLEAN] /\ DriverTypes
    BY <1>1 DEF Init, DriverTypes
  <2>3. CallTypes
    BY DEF Init, CallTypes
  <2> QED BY <2>1, <2>2, <2>3
<1>3. HeldTimer /\ FewRun /\ HaltHeld
  BY <1>1 DEF Init, HeldTimer, FewRun, HaltHeld
<1>4. CallsOfTimers /\ CallsOfBots /\ StepsFind /\ KeysDiffer /\ EndedForgotten
  BY DEF Init, CallsOfTimers, CallsOfBots, StepsFind, KeysDiffer, EndedForgotten
<1> QED BY <1>2, <1>3, <1>4 DEF SessionInv, PageInv, DriverInv, CallInv

\* What the user does, and a timer that ticks.
LEMMA UserKeeps ==
  ASSUME SessionInv,
         \/ Mount \/ Unmount \/ ClickCreateDebug \/ ClickStep \/ StepKey \/ CreateKey \/ ClickRunning
         \/ (\E x \in Node : ClickBreakpoint(x)) \/ (\E t \in DOMAIN timers : Tick(t))
  PROVE  SessionInv'
<1>1. /\ PageInv /\ DriverInv /\ CallInv /\ PageTypes /\ visit \in Nat /\ Len(timers) \in Nat
      /\ currentDebugBot \in 0..Len(bots) /\ firstBot \in 0..Len(bots) /\ Len(bots) \in Nat
      /\ debugInfo \in [threads : SUBSET Node, lock : BOOLEAN] /\ 0 \in 0..Len(bots)
      /\ BpNodes \in SUBSET Node /\ {} \in SUBSET Node /\ timerRef \in 0..Len(timers)
  BY SessionAssumption DEF SessionInv, PageInv, DriverInv, DriverTypes, PageTypes
<1>2. /\ [threads |-> {}, lock |-> FALSE] \in [threads : SUBSET Node, lock : BOOLEAN]
      /\ [debugInfo EXCEPT !.lock = TRUE] \in [threads : SUBSET Node, lock : BOOLEAN]
  BY <1>1
<1>3. ASSUME PageInv' /\ TimersKept, UNCHANGED <<calls, driver, debugInfo, currentDebugBot>>,
             firstBot' \in 0..Len(bots)
      PROVE  SessionInv'
  <2>1. CallInv'
    BY <1>1, <1>3, CallsLeft DEF PageInv
  <2>2. DriverInv'
    BY <1>1, <1>3, DriverStays
  <2> QED BY <1>3, <2>1, <2>2 DEF SessionInv
<1>4. ASSUME PageInv' /\ TimersKept, UNCHANGED <<driver, currentDebugBot, firstBot>>,
             debugInfo' \in [threads : SUBSET Node, lock : BOOLEAN],
             NEW t \in 0..Len(timers), NEW op \in {"create", "step"}, NEW b \in Nat, NEW bps \in SUBSET Node,
             NEW v \in Nat, t # 0 => timers[t].visit = v, Ask(t, op, b, bps, v)
      PROVE  SessionInv'
  <2>1. CallInv' /\ \E d \in Call : calls' = calls \cup {d} /\ d.at = "asked"
    BY <1>1, <1>4, CallAsked DEF PageInv
  <2>2. DriverInv'
    BY <1>1, <1>4, <2>1, DriverStays
  <2> QED BY <1>4, <2>1, <2>2 DEF SessionInv
<1>5. CASE Mount
  <2>1. PageInv' /\ TimersKept
    BY <1>1, <1>5, MountPage
  <2> QED BY <1>1, <1>3, <1>5, <2>1 DEF Mount, slices
<1>6. CASE Unmount
  <2>1. PageInv' /\ TimersKept
    BY <1>1, <1>6, UnmountPage
  <2> QED BY <1>1, <1>3, <1>6, <2>1 DEF Unmount, slices
<1>7. CASE ClickCreateDebug
  <2>1. PageInv' /\ TimersKept
    BY <1>1, <1>7, PageStopped DEF ClickCreateDebug
  <2>2. Ask(0, "create", 0, {}, visit) /\ UNCHANGED <<driver, currentDebugBot, firstBot>>
        /\ debugInfo' = [threads |-> {}, lock |-> FALSE]
    BY <1>7 DEF ClickCreateDebug
  <2> QED BY <1>1, <1>2, <1>4, <2>1, <2>2
<1>8. CASE ClickStep
  <2>1. UNCHANGED <<page, currentDebugBot, halted, driver>> /\ debugInfo' = [debugInfo EXCEPT !.lock = TRUE]
        /\ Ask(0, "step", currentDebugBot, BpNodes, visit)
    BY <1>8 DEF ClickStep
  <2>2. PageInv' /\ TimersKept
    BY <1>1, <2>1, PageStays
  <2>3. currentDebugBot \in Nat /\ UNCHANGED <<driver, currentDebugBot, firstBot>>
        /\ debugInfo' \in [threads : SUBSET Node, lock : BOOLEAN]
    BY <1>1, <1>2, <2>1 DEF page
  <2>4. Ask(0, "step", currentDebugBot, BpNodes, visit)
    BY <2>1
  <2> QED BY <1>1, <1>4, <2>2, <2>3, <2>4
<1>9. CASE StepKey
  <2>1. UNCHANGED <<page, currentDebugBot, halted, driver>> /\ debugInfo' = [debugInfo EXCEPT !.lock = TRUE]
        /\ Ask(0, "step", firstBot, {}, visit)
    BY <1>9 DEF StepKey
  <2>2. PageInv' /\ TimersKept
    BY <1>1, <2>1, PageStays
  <2>3. firstBot \in Nat /\ UNCHANGED <<driver, currentDebugBot, firstBot>>
        /\ debugInfo' \in [threads : SUBSET Node, lock : BOOLEAN]
    BY <1>1, <1>2, <2>1 DEF page
  <2>4. PICK bps \in SUBSET Node : bps = {}
    OBVIOUS
  <2>5. Ask(0, "step", firstBot, bps, visit)
    BY <2>1, <2>4
  <2> QED BY <1>1, <1>4, <2>2, <2>3, <2>5
<1>10. CASE CreateKey
  <2>1. UNCHANGED <<page, currentDebugBot, halted, driver>> /\ debugInfo' = [threads |-> {}, lock |-> FALSE]
        /\ (Ask(0, "create", 0, {}, visit) \/ UNCHANGED calls)
    BY <1>10 DEF CreateKey
  <2>2. PageInv' /\ TimersKept
    BY <1>1, <2>1, PageStays
  <2>3. UNCHANGED <<driver, currentDebugBot, firstBot>>
        /\ debugInfo' \in [threads : SUBSET Node, lock : BOOLEAN]
    BY <1>1, <1>2, <2>1 DEF page
  <2>4. CASE Ask(0, "create", 0, {}, visit)
    <3>1. PICK t \in 0..Len(timers), b \in Nat : t = 0 /\ b = 0
      BY <1>1
    <3>2. PICK bps \in SUBSET Node : bps = {}
      OBVIOUS
    <3>3. PICK op \in {"create", "step"} : op = "create"
      OBVIOUS
    <3>4. Ask(t, op, b, bps, visit) /\ (t # 0 => timers[t].visit = visit)
      BY <2>4, <3>1, <3>2, <3>3
    <3>5. visit \in Nat
      BY <1>1
    <3> QED BY <1>4, <2>2, <2>3, <3>4, <3>5, Zenon
  <2>5. CASE UNCHANGED calls
    <3>1. CallInv'
      BY <1>1, <2>2, <2>5, CallsLeft DEF PageInv
    <3>2. DriverInv'
      BY <1>1, <2>3, <2>5, DriverStays
    <3> QED BY <2>2, <3>1, <3>2 DEF SessionInv
  <2> QED BY <2>1, <2>4, <2>5
<1>11. CASE ClickRunning
  <2>1. PageInv' /\ TimersKept
    BY <1>1, <1>11, RunPage
  <2> QED BY <1>1, <1>3, <1>11, <2>1 DEF ClickRunning, slices
<1>12. ASSUME NEW x \in Node, ClickBreakpoint(x) PROVE SessionInv'
  <2>1. mounted /\ Effect(currentDebugBot, BpNodes', visit) /\ BpNodes' \in SUBSET Breakable
        /\ UNCHANGED <<visit, mounted, firstBot, slices, calls, driver, halted>>
    BY <1>1, <1>12 DEF ClickBreakpoint, PageTypes
  <2>2. PageInv' /\ TimersKept
    <3>1. PICK b \in Nat, bps \in SUBSET Breakable : b = currentDebugBot /\ bps = BpNodes'
      BY <1>1, <2>1
    <3>2. Effect(b, bps, visit) /\ BpNodes' = bps /\ currentDebugBot' = b
      BY <2>1, <3>1 DEF slices
    <3> QED BY <1>1, <2>1, <3>2, PageRedone, SessionAssumption
  <2> QED BY <1>1, <1>3, <2>1, <2>2 DEF slices
<1>13. ASSUME NEW t \in DOMAIN timers, Tick(t) PROVE SessionInv'
  <2>1. Ask(t, "step", timers[t].bot, timers[t].bps, timers[t].visit)
        /\ UNCHANGED <<page, slices, driver, halted>>
    BY <1>13 DEF Tick
  <2>2. PageInv' /\ TimersKept
    BY <1>1, <2>1, PageStays DEF slices
  <2>3. t \in 0..Len(timers) /\ timers[t] \in Timer
    BY <1>1 DEF PageTypes
  <2>4. timers[t].bot \in Nat /\ timers[t].bps \in SUBSET Node /\ timers[t].visit \in Nat
    BY <2>3 DEF Timer
  <2>5. UNCHANGED <<firstBot, currentDebugBot, debugInfo, driver>>
    BY <2>1 DEF page, slices
  <2> QED BY <1>1, <1>4, <2>1, <2>2, <2>3, <2>4, <2>5
<1> QED BY <1>5, <1>6, <1>7, <1>8, <1>9, <1>10, <1>11, <1>12, <1>13

\* Every step keeps the invariant: the user's, the driver's, and the answers.
LEMMA NextSession == SessionInv /\ [Next]_vars => SessionInv'
<1> SUFFICES ASSUME SessionInv, [Next]_vars PROVE SessionInv'
  OBVIOUS
<1>1. CASE UNCHANGED vars
  <2>1. PageInv'
    BY <1>1, PageStays DEF SessionInv, vars, slices
  <2>2. DriverInv' /\ CallInv'
    BY <1>1 DEF SessionInv, DriverInv, DriverTypes, CallsOfBots, StepsFind, EndedForgotten, CallInv,
                CallTypes, CallsOfTimers, KeysDiffer, Key, vars, page, slices, driver
  <2> QED BY <2>1, <2>2 DEF SessionInv
<1>2. ASSUME NEW c \in calls, DebugCreate(c) \/ FindBot(c) \/ RunByStep(c) \/ Answer(c)
      PROVE  SessionInv'
  <2>1. DriverInv' /\ CallInv'
    BY <1>2, CreateKeeps, FindKeeps, RunKeeps, AnswerKeeps
  <2>2. UNCHANGED <<page, currentDebugBot, halted>>
    BY <1>2 DEF DebugCreate, FindBot, RunByStep, Answer, slices
  <2>3. PageInv'
    BY <2>2, PageStays DEF SessionInv
  <2> QED BY <2>1, <2>3 DEF SessionInv
<1>3. ASSUME NEW b \in leaving, RmvBot(b) PROVE SessionInv'
  <2>1. PageInv'
    BY <1>3, PageStays DEF SessionInv, RmvBot, slices
  <2> QED BY <1>3, <2>1, RmvKeeps DEF SessionInv
<1>4. ASSUME NEW c \in calls, Lose(c) PROVE SessionInv'
  <2>1. calls' = calls \ {c} /\ c.at # "ran" /\ UNCHANGED <<page, slices, driver, halted>>
    BY <1>4 DEF Lose, Done
  <2>2. PageInv' /\ TimersKept
    BY <2>1, PageStays DEF SessionInv, slices
  <2>3. CallInv'
    BY <2>1, <2>2, CallsLeft DEF SessionInv, PageInv
  <2>4. DriverInv'
    <3>1. DriverInv /\ debugInfo' \in [threads : SUBSET Node, lock : BOOLEAN]
          /\ firstBot' \in 0..Len(bots) /\ currentDebugBot' \in 0..Len(bots)
      BY <2>1 DEF SessionInv, DriverInv, DriverTypes, page, slices
    <3> QED BY <2>1, <3>1, DriverStays
  <2> QED BY <2>2, <2>3, <2>4 DEF SessionInv
<1>5. ASSUME Next PROVE SessionInv'
  BY <1>2, <1>3, <1>4, <1>5, UserKeeps, CreatedKeeps, SteppedKeeps DEF Next
<1> QED BY <1>1, <1>5
-----------------------------------------------------------------------------
\* What holds at the start and is kept holds always.
LEMMA AlwaysSession == Spec => []SessionInv
BY InitSession, NextSession, PTL DEF Spec

\* The state of the page, of the bots and of the calls is what it is meant to be: the page
\* holds a timer for the bot and the breakpoints of the moment, and no two calls are mixed up.
THEOREM SessionTypeCorrect == Spec => []TypeOK
<1>1. SessionInv => TypeOK
  <2> SUFFICES ASSUME SessionInv PROVE TypeOK
    OBVIOUS
  <2>1. /\ DOMAIN timers = 1..Len(timers) /\ Len(timers) \in Nat
        /\ DOMAIN bots = 1..Len(bots) /\ Len(bots) \in Nat
    BY DEF SessionInv, PageInv, PageTypes, DriverInv, DriverTypes
  <2>2. mounted \in BOOLEAN /\ visit \in Nat /\ BpNodes \subseteq Breakable
        /\ timerRef \in {0} \cup DOMAIN timers /\ captured \in {0} \cup DOMAIN timers
        /\ (mounted <=> timerRef # 0)
    BY <2>1 DEF SessionInv, PageInv, PageTypes, HeldTimer
  <2>3. {currentDebugBot, firstBot} \subseteq {0} \cup DOMAIN bots /\ debugInfo.threads \subseteq Node
        /\ debugInfo.lock \in BOOLEAN /\ debugBots \subseteq DOMAIN bots /\ leaving \subseteq DOMAIN bots
    BY <2>1 DEF SessionInv, DriverInv, DriverTypes
  <2>4. ASSUME mounted
        PROVE  timers[timerRef] = [timers[timerRef] EXCEPT !.bot = currentDebugBot, !.bps = BpNodes]
    <3>1. timers[timerRef] \in Timer
      BY <2>1, <2>2, <2>4 DEF SessionInv, PageInv, PageTypes
    <3>2. timers[timerRef].bot = currentDebugBot /\ timers[timerRef].bps = BpNodes
      BY <2>4 DEF SessionInv, PageInv, HeldTimer
    <3>3. \A t \in Timer : t = [t EXCEPT !.bot = t.bot, !.bps = t.bps]
      BY DEF Timer
    <3> QED BY <3>1, <3>2, <3>3
  <2>5. KeysDiffer
    BY DEF SessionInv, CallInv
  <2> QED BY <2>2, <2>3, <2>4, <2>5 DEF TypeOK, KeysDiffer
<1> QED BY <1>1, AlwaysSession, PTL

\* An answer that tells the timer of the page to stop has stopped it, though steps overlap
\* and answers come in any order: the visit a call carries tells the pages apart.
THEOREM HaltAlways == Spec => []HaltHeld
BY AlwaysSession, PTL DEF SessionInv, PageInv

\* Few timers go on behind the page's back: two of the visit under way, one of each former
\* visit, however often the bot and the breakpoints change.
THEOREM LeakBounded == Spec => []LeakBound
<1>1. SessionInv => LeakBound
  <2> SUFFICES ASSUME SessionInv PROVE LeakBound
    OBVIOUS
  <2>1. FewRun
    BY DEF SessionInv, PageInv
  <2>2. ASSUME NEW v \in 1..visit, v < visit \/ ~mounted
        PROVE  Cardinality({t \in Running : timers[t].visit = v}) <= 1
    <3>1. \A t, u \in {w \in Running : timers[w].visit = v} : t = u
      BY <2>1, <2>2 DEF FewRun
    <3> QED BY <3>1, AtMostOne
  <2> QED BY <2>1, <2>2 DEF LeakBound, FewRun
<1> QED BY <1>1, AlwaysSession, PTL

\* A debug bot that has come to its end is forgotten, or is about to be: a call that saw the
\* end is still on its way to the deferred removal.
THEOREM EndedForgottenAlways == Spec => []EndedForgotten
BY AlwaysSession, PTL DEF SessionInv, DriverInv
=============================================================================
