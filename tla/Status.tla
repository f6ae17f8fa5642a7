------------------------------- MODULE Status -------------------------------
(***************************************************************************)
(* What runs and what has run: the heartbeat of the editor page            *)
(* (src/editor/src/task/heart.tsx), the page of running batches            *)
(* (pages/running.tsx), and the page of reports with its charts            *)
(* (pages/report.tsx, pages/chart/chart_tree.tsx).                         *)
(*                                                                         *)
(* The timer of the running page is stopped when the page is left; the     *)
(* cleanup of the heartbeat stops the timer its first render knew, which   *)
(* is none, so that the timer of every visit goes on.                      *)
(***************************************************************************)
EXTENDS BotTable

CONSTANTS
  Report,   \* reports the servers hold
  NoReport

Charts == {"avg_request_time_ms", "request_times"}

VARIABLES
  timers,      \* visits whose timer runs: [of: a page, visit]
  polls,       \* calls of the timers and of the report page in flight
  up,          \* up[a]: does server a answer?
  heartColor,  \* is the ping of the last answer shown?
  running,     \* the rows of the running page
  reports,     \* the rows of the report page
  row,         \* the report selected
  published,   \* messages on their way to the charts
  chart        \* what the charts show

statusPage == <<running, reports, row, chart>>
statusVars == <<timers, polls, up, heartColor, statusPage, published>>

NoChart == [of |-> NoReport, ty |-> "none"]
Poll(op, v, a) == polls' = PostTo(a, polls, [op |-> op, res |-> {}], v)

StatusInit ==
  /\ timers = {} /\ polls = {} /\ up = [a \in Addr |-> TRUE] /\ heartColor = FALSE
  /\ running = {} /\ reports = {} /\ row = NoReport /\ published = <<>> /\ chart = NoChart

\* What the cleanups leave running.
Stop == {t \in timers : t.of = "editor"}

StatusOpen(p) ==
  /\ timers' = Stop \cup (IF p \in {"editor", "running"} THEN {[of |-> p, visit |-> visit']} ELSE {})
  /\ running' = {} /\ reports' = {} /\ row' = NoReport /\ chart' = NoChart
  /\ CASE p = "editor"  -> Poll("health", visit', remoteAddr)
       [] p = "running" -> Poll("list", visit', remoteAddr)
       [] p = "report"  -> Poll("report", visit', remoteAddr)
       [] OTHER -> UNCHANGED polls
  /\ UNCHANGED <<up, heartColor, published>>
-----------------------------------------------------------------------------
(* A timer ticks.  The rows of the running page are cleared until the      *)
(* answer.  Bound: no other call of a timer is in flight.                  *)
Tick(t) ==
  /\ t \in timers /\ remoteAddr # NoAddr /\ polls = {}
  /\ Poll(IF t.of = "editor" THEN "health" ELSE "list", t.visit, remoteAddr)
  /\ running' = IF t.of = "running" /\ t.visit = visit THEN {} ELSE running
  /\ Still /\ UNCHANGED <<timers, up, heartColor, reports, row, chart, published>>

\* What an answer says.  A ping of less than a millisecond passes for none.
Results(c) ==
  CASE c.op = "health" -> IF up[c.addr] THEN {{"ping"}, {}} ELSE {{}}
    [] c.op = "list"   -> {tasks[c.addr]}
    [] c.op = "report" -> {Report}

\* The server; a health check without an answer comes back as an error.
Polled(c) ==
  /\ c.at = "asked" /\ (up[c.addr] \/ c.op = "health")
  /\ \E res \in Results(c) : polls' = Swap(polls, c, [c EXCEPT !.at = "answered", !.res = res])
  /\ Still /\ UNCHANGED <<timers, up, heartColor, statusPage, published>>

PollFails(c) ==
  c.op # "health" /\ polls' = polls \ {c} /\ Loss /\ UNCHANGED <<timers, up, heartColor, statusPage, published>>

Crash(a) ==
  /\ Click /\ up' = [up EXCEPT ![a] = ~@] /\ UNCHANGED <<timers, polls, heartColor, statusPage, published>>

\* (a mistake: the answer is taken whether the page is still there or not)
AnyPing(c) == c.op = "health"
\* callback of the heartbeat, while it is mounted
Ping(c) == c.op = "health" /\ c.visit = visit

\* An empty list, which comes as null, leaves what is there.
PollAnswered(c) ==
  /\ c.at = "answered" /\ polls' = polls \ {c}
  /\ heartColor' = IF Ping(c) THEN c.res # {} ELSE heartColor
  /\ running' = IF c.op = "list" /\ c.visit = visit /\ c.res # {} THEN c.res ELSE running
  /\ reports' = IF c.op = "report" /\ c.visit = visit /\ c.res # {} THEN c.res ELSE reports
  /\ Still /\ UNCHANGED <<timers, up, row, chart, published>>

\* clickRow of report r: nothing without one
clickRow(r, ty) ==
  published' = IF r = NoReport THEN published ELSE Append(published, [of |-> r, ty |-> ty, visit |-> visit])

\* (a mistake: selecting a row draws nothing)
SelectQuietly(r) ==
  /\ page = "report" /\ r \in reports /\ Click /\ row' = r
  /\ UNCHANGED <<timers, polls, up, heartColor, running, reports, chart, published>>
\* A row is selected; the effect draws its latencies, whatever tab is open.
SelectReport(r) ==
  /\ page = "report" /\ r \in reports /\ Click /\ row' = r
  /\ IF r # row THEN clickRow(r, "avg_request_time_ms") ELSE UNCHANGED published
  /\ UNCHANGED <<timers, polls, up, heartColor, running, reports, chart>>

tableClick(ty) ==
  /\ page = "report" /\ Click /\ clickRow(row, ty)
  /\ UNCHANGED <<timers, polls, up, heartColor, statusPage>>

\* The charts subscribe when they are mounted, and stay subscribed.
Drawn ==
  /\ published # <<>> /\ published' = Tail(published)
  /\ chart' = IF page = "report" THEN [of |-> Head(published).of, ty |-> Head(published).ty] ELSE chart
  /\ Still /\ UNCHANGED <<timers, polls, up, heartColor, running, reports, row>>

StatusNext ==
  \/ \E t \in timers : Tick(t)
  \/ \E c \in polls : Polled(c) \/ PollFails(c) \/ PollAnswered(c)
  \/ \E a \in Addr : Crash(a)
  \/ \E r \in Report : SelectReport(r)
  \/ \E ty \in Charts : tableClick(ty)
  \/ Drawn
-----------------------------------------------------------------------------
(* The cleanup clears the timer of the heartbeat on leaving (heart.tsx:57), *)
(* as that of the running page does: a page that has been left polls no    *)
(* more.                                                                   *)
HeartbeatStops == \A t \in timers : t.visit = visit

(* The charts show the report that is selected, once all messages have     *)
(* come: neither one selected before nor one of a former visit.            *)
ChartOfRow == row # NoReport /\ published = <<>> => chart.of = row
=============================================================================
