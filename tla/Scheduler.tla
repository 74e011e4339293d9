----------------------------- MODULE Scheduler -----------------------------
(***************************************************************************)
(* The scheduler (internal/digest/scheduler.go) and the settings watcher   *)
(* (cmd/assistant/main.go).  The goroutine of Scheduler.Run plans a first  *)
(* tick from the newest successful window, waits for it, creates a ticker, *)
(* and fires a cycle for every tick that finds no cycle running.  The      *)
(* watcher pushes the interval of the settings row into the scheduler      *)
(* while Run reads it.                                                     *)
(*                                                                         *)
(* Instants are integers relative to now: time passes by one unit in       *)
(* Elapse, which moves every instant one unit into the past.  A goroutine  *)
(* and a timer may be late by up to MaxDelay units.                        *)
(***************************************************************************)
EXTENDS Integers, FiniteSets

CONSTANTS
  Intervals,    \* the values digest_interval_seconds may take, in units
  EnvInterval,  \* DIGEST_INTERVAL of the environment
  MaxDelay,     \* bound: how late a due step may be, in units
  Horizon,      \* bound: how far back instants are told apart
  MaxChanges,   \* bound: changes of the settings row
  MaxStops      \* bound: crashes, shutdowns and failing reads

ASSUME IntervalsAssumption ==
  Intervals \subseteq Nat \ {0} /\ EnvInterval \in Intervals
ASSUME HorizonAssumption ==
  /\ MaxDelay \in Nat /\ Horizon \in Nat
  /\ \A i \in Intervals : i + MaxDelay < Horizon
ASSUME BoundsAssumption == MaxChanges \in Nat /\ MaxStops \in Nat

VARIABLES
  (* The SQLite file. *)
  setting,      \* settings.digest_interval_seconds
  lastEnd,      \* window_end of the newest succeeded or degraded cycle
  (* Scheduler.Run. *)
  pc,           \* the next step of Run
  due,          \* the tick that is planned or being fired
  ticker,       \* the period of the ticker, and the units to its next tick
  tick,         \* the channel of the ticker: at most one tick
  lastInterval, \* the interval Run believes the ticker has
  (* Shared by Run, fire, SetInterval and the cycle's goroutine. *)
  interval,     \* s.interval
  running,      \* s.running
  inflight,     \* the windows of the goroutines that run a cycle
  (* The watcher and the process. *)
  seen,         \* lastInterval of watchSettings
  ctx,          \* the context of Run, of the watcher and of the cycles
  (* Counters and history. *)
  changes, stops,
  fresh,        \* this process could not read the newest window
  overtaken     \* the interval changed between NewTicker and lastInterval

store   == <<setting, lastEnd>>
loop    == <<due, ticker, tick, lastInterval>>
cycles  == <<running, inflight>>
counts  == <<changes, stops>>
causes  == <<fresh, overtaken>>
vars    == <<store, pc, loop, interval, cycles, seen, ctx, counts, causes>>

Never == -(2 * Horizon)

Window == [start : (Never - Horizon)..0, end : (-Horizon)..0]
Ticker == [period : Intervals, left : Nat]

RunSteps == {"start", "wait", "arm", "first", "adopt", "loop", "fire"}

TypeOK ==
  /\ setting \in Intervals /\ lastEnd \in Never..0
  /\ pc \in RunSteps \cup {"stopped", "down"}
  /\ due \in (-MaxDelay)..Horizon
  /\ ticker \in Ticker /\ tick \in SUBSET ((-MaxDelay)..0)
  /\ lastInterval \in Intervals /\ interval \in Intervals
  /\ seen \in Intervals
  /\ running \in BOOLEAN /\ inflight \subseteq Window
  /\ ctx \in {"live", "cancelled"} /\ fresh \in BOOLEAN
  /\ overtaken \in BOOLEAN
  /\ changes \in 0..MaxChanges /\ stops \in 0..MaxStops

Init ==
  /\ setting \in Intervals /\ lastEnd = Never
  /\ pc = "start" /\ due = 0
  /\ ticker = [period |-> EnvInterval, left |-> EnvInterval] /\ tick = {}
  /\ lastInterval = EnvInterval
  /\ interval = EnvInterval /\ seen = EnvInterval
  /\ running = FALSE /\ inflight = {}
  /\ ctx = "live" /\ changes = 0 /\ stops = 0
  /\ fresh = FALSE /\ overtaken = FALSE

----------------------------------------------------------------------------
(* Time. *)

Earlier(t, floor) == IF t > floor THEN t - 1 ELSE t

\* Nothing that is due waits longer than MaxDelay.
InTime ==
  /\ pc \in {"wait", "arm", "first", "fire"} => due > -MaxDelay
  /\ \A t \in tick : t > -MaxDelay

\* One unit passes.  The ticker sends a tick when its period is over, and
\* drops it when the channel still holds the previous one.
Elapse ==
  /\ InTime
  /\ lastEnd' = Earlier(lastEnd, Never)
  /\ due' = IF pc \in {"wait", "arm", "first", "fire"} THEN due - 1 ELSE due
  /\ IF pc \in {"first", "adopt", "loop", "fire"}
     THEN IF ticker.left > 1
          THEN /\ ticker' = [ticker EXCEPT !.left = @ - 1]
               /\ tick' = {t - 1 : t \in tick}
          ELSE /\ ticker' = [ticker EXCEPT !.left = ticker.period]
               /\ tick' = IF tick = {} THEN {0} ELSE {t - 1 : t \in tick}
     ELSE UNCHANGED <<ticker, tick>>
  /\ inflight' = {[start |-> Earlier(w.start, Never - Horizon),
                   end |-> Earlier(w.end, -Horizon)] : w \in inflight}
  /\ UNCHANGED <<setting, pc, lastInterval, interval, running, seen, ctx,
                 counts, causes>>

----------------------------------------------------------------------------
(* Scheduler.Run. *)

Stop == stops < MaxStops /\ stops' = stops + 1

\* The remainder of the interval since the newest window, or now.
FirstTick_SameWindow == IF -lastEnd < interval THEN lastEnd ELSE 0
FirstTick_AtOnce == 0
FirstTick == IF -lastEnd < interval THEN lastEnd + interval ELSE 0

\* LastSuccessfulWindowEnd; when it fails the scheduler starts fresh.
Plan ==
  /\ pc = "start"
  /\ \/ /\ ctx = "live"
        /\ due' = FirstTick
        /\ UNCHANGED <<stops, fresh>>
     \/ /\ IF ctx = "live" THEN Stop ELSE UNCHANGED stops
        /\ due' = 0 /\ fresh' = TRUE
  /\ pc' = IF due' > 0 THEN "wait" ELSE "arm"
  /\ UNCHANGED <<store, ticker, tick, lastInterval, interval, cycles, seen,
                 ctx, changes, overtaken>>

\* time.After has fired
FirstTickDue ==
  /\ pc = "wait" /\ due <= 0
  /\ pc' = "arm"
  /\ UNCHANGED <<store, loop, interval, cycles, seen, ctx, counts, causes>>

\* time.NewTicker
Arm ==
  /\ pc = "arm"
  /\ ticker' = [period |-> interval, left |-> interval]
  /\ tick' = {}
  /\ pc' = "first"
  /\ UNCHANGED <<store, due, lastInterval, interval, cycles, seen, ctx,
                 counts, causes>>

\* fire: a tick that finds a cycle running is skipped.
Fire_Always(t) ==
  /\ running' = TRUE
  /\ inflight' = inflight \cup {[start |-> t - interval, end |-> t]}
Fire(t) ==
  IF running
  THEN UNCHANGED cycles
  ELSE /\ running' = TRUE
       /\ inflight' = inflight \cup {[start |-> t - interval, end |-> t]}

FireFirst ==
  /\ pc = "first"
  /\ Fire(due)
  /\ due' = 0 /\ pc' = "adopt"
  /\ UNCHANGED <<store, ticker, tick, lastInterval, interval, seen, ctx,
                 counts, causes>>

\* lastInterval is read after the ticker was created and the cycle fired.
Adopt ==
  /\ pc = "adopt"
  /\ lastInterval' = interval
  /\ pc' = "loop"
  /\ UNCHANGED <<store, due, ticker, tick, interval, cycles, seen, ctx,
                 counts, causes>>

\* A tick arrives; when the interval changed the ticker is created anew.
TakeTick_SameTicker ==
  /\ pc = "loop"
  /\ \E t \in tick : due' = t
  /\ tick' = {}
  /\ lastInterval' = interval
  /\ pc' = "fire"
  /\ UNCHANGED <<store, ticker, interval, cycles, seen, ctx, counts, causes>>
TakeTick ==
  /\ pc = "loop"
  /\ \E t \in tick : due' = t
  /\ tick' = {}
  /\ IF interval # lastInterval
     THEN /\ ticker' = [period |-> interval, left |-> interval]
          /\ lastInterval' = interval /\ overtaken' = FALSE
     ELSE UNCHANGED <<ticker, lastInterval, overtaken>>
  /\ pc' = "fire"
  /\ UNCHANGED <<store, interval, cycles, seen, ctx, counts, fresh>>

FireTick ==
  /\ pc = "fire"
  /\ Fire(due)
  /\ due' = 0 /\ pc' = "loop"
  /\ UNCHANGED <<store, ticker, tick, lastInterval, interval, seen, ctx,
                 counts, causes>>

\* The select takes ctx.Done.
Stopped ==
  /\ pc \in {"wait", "loop"} /\ ctx = "cancelled"
  /\ pc' = "stopped" /\ due' = 0
  /\ UNCHANGED <<store, ticker, tick, lastInterval, interval, cycles, seen,
                 ctx, counts, causes>>

----------------------------------------------------------------------------
(* The goroutine of a cycle. *)

\* Cycle.Run returns; a success under a live context is in the cycles table.
CycleEnds_StaysRunning(w) ==
  /\ w \in inflight
  /\ inflight' = inflight \ {w}
  /\ UNCHANGED <<store, pc, loop, interval, running, seen, ctx, counts,
                 causes>>
CycleEnds(w) ==
  /\ w \in inflight
  /\ inflight' = inflight \ {w}
  /\ running' = FALSE
  /\ \/ /\ ctx = "live"
        /\ lastEnd' = IF w.end > lastEnd THEN w.end ELSE lastEnd
     \/ UNCHANGED lastEnd
  /\ UNCHANGED <<setting, pc, loop, interval, seen, ctx, counts, causes>>

----------------------------------------------------------------------------
(* The settings. *)

\* PATCH /api/settings
ChangeSetting(i) ==
  /\ pc # "down" /\ ctx = "live"
  /\ i # setting /\ changes < MaxChanges
  /\ setting' = i /\ changes' = changes + 1
  /\ UNCHANGED <<lastEnd, pc, loop, interval, cycles, seen, ctx, stops,
                 causes>>

\* One poll of watchSettings that finds a new value, and SetInterval.
Watch ==
  /\ pc # "down" /\ ctx = "live"
  /\ setting # seen
  /\ interval' = setting /\ seen' = setting
  /\ overtaken' = (overtaken \/ pc \in {"first", "adopt"})
  /\ UNCHANGED <<store, pc, loop, cycles, ctx, counts, fresh>>

----------------------------------------------------------------------------
(* The process. *)

ProcessEnds ==
  /\ pc' = "down" /\ ctx' = "live"
  /\ due' = 0 /\ tick' = {}
  /\ running' = FALSE /\ inflight' = {}
  /\ fresh' = FALSE /\ overtaken' = FALSE
  /\ UNCHANGED <<store, ticker, lastInterval, interval, seen, changes>>

Crash == pc # "down" /\ Stop /\ ProcessEnds

\* SIGTERM: the context is cancelled.
Shutdown ==
  /\ pc # "down" /\ ctx = "live" /\ Stop
  /\ ctx' = "cancelled"
  /\ UNCHANGED <<store, pc, loop, interval, cycles, seen, changes, causes>>

\* WaitIdle returned, idle or after its 30 seconds.
Exit ==
  /\ ctx = "cancelled"
  /\ ProcessEnds
  /\ UNCHANGED stops

\* A restart takes time.  The interval comes from the environment.
Boot ==
  /\ pc = "down" /\ lastEnd < 0
  /\ pc' = "start"
  /\ interval' = EnvInterval /\ seen' = EnvInterval
  /\ UNCHANGED <<store, loop, cycles, ctx, counts, causes>>

----------------------------------------------------------------------------

RunStep ==
  \/ Plan \/ FirstTickDue \/ Arm \/ FireFirst \/ Adopt
  \/ TakeTick \/ FireTick \/ Stopped

EndCycle == \E w \in inflight : CycleEnds(w)

Next ==
  \/ Elapse \/ RunStep \/ EndCycle \/ Watch
  \/ \E i \in Intervals : ChangeSetting(i)
  \/ Crash \/ Shutdown \/ Exit \/ Boot

\* Time passes, goroutines run, a cycle ends, the
\* watcher polls, a cancelled process exits and the supervisor restarts it.
Fairness ==
  /\ WF_vars(Elapse) /\ WF_vars(RunStep) /\ WF_vars(EndCycle)
  /\ WF_vars(Watch) /\ WF_vars(Exit) /\ WF_vars(Boot)

Spec == Init /\ [][Next]_vars
FairSpec == Spec /\ Fairness

----------------------------------------------------------------------------
(* Properties that hold. *)

\* DigestCycle is written for one cycle at a time: the overlap guard of fire
\* never lets two of its goroutines run together.
OneCycleAtATime == Cardinality(inflight) <= 1

\* FR-016, no window twice: a cycle never runs for a window that ends at or
\* before the end of a window that already succeeded, whatever restarts,
\* late ticks and interval changes came between.
WindowsAdvance == \A w \in inflight : w.end > lastEnd

\* An instant lies at least one permitted interval after another.
Apart(t, u) == \E i \in Intervals : t >= u + i

\* The subscriber is not flooded: a window ends at least one permitted
\* interval after the last successful one, also across a restart loop, except
\* in a process that could not read that window.
WindowsKeepApart == ~fresh => \A w \in inflight : Apart(w.end, lastEnd)

\* The inductive strengthening of the two safety properties.  The flag of the
\* overlap guard agrees with the goroutine it stands for.
GuardInv ==
  /\ running <=> inflight # {}
  /\ \A u, w \in inflight : u = w
  /\ pc \in {"start", "wait", "arm", "first", "down"} => inflight = {}

\* What is planned, being fired, or waiting in the channel of the ticker is
\* later than every window that succeeded or runs.
PlanInv ==
  /\ pc = "start" => lastEnd < 0
  /\ pc \in {"wait", "arm", "first", "fire"} => due > lastEnd
  /\ pc \in {"arm", "first", "fire"} => due <= 0
  /\ pc \in {"first", "fire"} => \A t \in tick : due < t
  /\ pc = "fire" => \A w \in inflight : w.end < due
  /\ \A t \in tick : lastEnd < t /\ \A w \in inflight : w.end < t

SchedulerInv == GuardInv /\ PlanInv /\ WindowsAdvance

\* The inductive strengthening of WindowsKeepApart.  What is fired, what waits
\* in the channel and what the ticker sends next are an interval apart from one
\* another and from every window that succeeded or runs.
ApartInv == ~fresh =>
  /\ \A w \in inflight : Apart(w.end, lastEnd)
  /\ pc \in {"wait", "arm", "first", "fire"} => Apart(due, lastEnd)
  /\ pc = "fire" => \A w \in inflight : Apart(due, w.end)
  /\ pc \in {"first", "fire"} =>
       Apart(ticker.left, due) /\ \A t \in tick : Apart(t, due)
  /\ pc \in {"first", "adopt", "loop", "fire"} =>
       /\ Apart(ticker.left, lastEnd)
       /\ \A w \in inflight : Apart(ticker.left, w.end)
       /\ \A t \in tick : /\ Apart(t, lastEnd) /\ Apart(ticker.left, t)
                          /\ \A w \in inflight : Apart(t, w.end)

\* Run sleeps on a ticker of the interval it compares the next one with, unless
\* SetInterval came after NewTicker (scheduler.go:135) and before lastInterval
\* was read (scheduler.go:141): then no comparison finds the difference.
TickerInv ==
  pc \in {"loop", "fire"} => ticker.period = lastInterval \/ overtaken

\* Cycles come at the saved interval: it reaches the scheduler over the value of
\* the environment that a boot starts with, and the ticker of Run takes it as
\* its period.  specs/001-telegram-news-assistant/spec.md:74 promises this ("the
\* scheduling system adopts the new interval from the next cycle onward"); the
\* code breaks the promise in the gap that TickerInv names, and only there.
IntervalFollowsSetting ==
  <>[](/\ pc # "down" /\ interval = setting
       /\ ticker.period = setting \/ overtaken)

\* Cycles keep starting, and each of them leaves the scheduler idle again.
CyclesRecur == []<>running /\ []<>~running

============================================================================
