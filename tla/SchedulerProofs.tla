-------------------------- MODULE SchedulerProofs --------------------------
(***************************************************************************)
(* Type correctness, the overlap guard, the order of windows and their     *)
(* distance, for every set of intervals, every delay and any number of     *)
(* restarts and setting changes.                                           *)
(***************************************************************************)
EXTENDS Scheduler, TLAPS, FiniteSetTheorems

USE IntervalsAssumption, HorizonAssumption, BoundsAssumption DEF causes

\* What the inductive argument carries.
IInv == TypeOK /\ SchedulerInv

\* Moving an instant one unit back keeps it above its floor and moves it into
\* the past, and it stays before a later instant that moved as well.
LEMMA EarlierMoves ==
  ASSUME NEW floor \in Int, floor < 0, NEW t \in floor..0
  PROVE  /\ Earlier(t, floor) \in floor..0
         /\ Earlier(t, floor) < 0 /\ Earlier(t, floor) <= t
         /\ \A u \in Int : t < u /\ floor < u - 1 => Earlier(t, floor) < u - 1
BY SMT DEF Earlier

\* The floor of the newest window lies below the floor of every other instant.
LEMMA Floors ==
  /\ Never \in Int /\ -Horizon \in Int /\ -MaxDelay \in Int
  /\ Never < -Horizon /\ -Horizon < 0 /\ -Horizon < -MaxDelay
  /\ -MaxDelay <= 0
<1>1. EnvInterval \in Nat \ {0} /\ EnvInterval + MaxDelay < Horizon
  BY Zenon
<1> QED
  BY <1>1, SMT DEF Never

\* On the first boot nothing runs and nothing succeeded.
LEMMA InitInv == Init => IInv
<1> SUFFICES ASSUME Init PROVE IInv
  OBVIOUS
<1>1. Never \in Int /\ Never < 0
  BY SMT DEF Never
<1>2. TypeOK
  <2>1. running \in BOOLEAN /\ fresh \in BOOLEAN /\ overtaken \in BOOLEAN
    BY Zenon DEF Init
  <2>2. ticker \in Ticker
    BY SMT DEF Init, Ticker
  <2> QED
    BY <1>1, <2>1, <2>2, SMT DEF Init, TypeOK, RunSteps, Window
<1>3. GuardInv
  BY Zenon DEF Init, GuardInv
<1>4. PlanInv /\ WindowsAdvance
  BY <1>1, SMT DEF Init, PlanInv, WindowsAdvance
<1> QED
  BY <1>2, <1>3, <1>4 DEF IInv, SchedulerInv

----------------------------------------------------------------------------

\* The passage of time keeps the order of all instants.
LEMMA ElapseInv == IInv /\ Elapse => IInv'
<1> SUFFICES ASSUME IInv, Elapse PROVE IInv'
  OBVIOUS
<1> USE DEF IInv
<1> DEFINE Moved(w) == [start |-> Earlier(w.start, Never - Horizon),
                        end |-> Earlier(w.end, -Horizon)]
<1>1. inflight' = {Moved(w) : w \in inflight}
  BY Zenon DEF Elapse
<1>2. /\ lastEnd \in Never..0 /\ lastEnd' = Earlier(lastEnd, Never)
      /\ lastEnd' \in Never..0 /\ lastEnd' < 0 /\ lastEnd' <= lastEnd
      /\ \A u \in Int : lastEnd < u /\ Never < u - 1 => lastEnd' < u - 1
  <2>1. lastEnd \in Never..0 /\ lastEnd' = Earlier(lastEnd, Never)
    BY Zenon DEF TypeOK, Elapse
  <2> QED
    BY <2>1, Floors, EarlierMoves, SMT
<1>3. ASSUME NEW w \in inflight
      PROVE  /\ Moved(w) \in Window
             /\ w.end \in (-Horizon)..0
             /\ Moved(w).end \in (-Horizon)..0
             /\ Moved(w).end < 0 /\ Moved(w).end <= w.end
             /\ \A u \in Int : w.end < u /\ -Horizon < u - 1
                               => Moved(w).end < u - 1
             /\ Moved(w).end > lastEnd'
  <2>1. /\ w.start \in (Never - Horizon)..0
        /\ w.end \in (-Horizon)..0
        /\ w.end > lastEnd
    BY SMT DEF TypeOK, Window, SchedulerInv, WindowsAdvance
  <2>2. Earlier(w.start, Never - Horizon) \in (Never - Horizon)..0
    BY <2>1, Floors, EarlierMoves, SMT
  <2>3. /\ Earlier(w.end, -Horizon) \in (-Horizon)..0
        /\ Earlier(w.end, -Horizon) < 0 /\ Earlier(w.end, -Horizon) <= w.end
        /\ \A u \in Int : w.end < u /\ -Horizon < u - 1
                          => Earlier(w.end, -Horizon) < u - 1
    BY <2>1, Floors, EarlierMoves, SMT
  <2>4. Moved(w).end = Earlier(w.end, -Horizon) /\ Moved(w) \in Window
    BY <2>2, <2>3, Zenon DEF Window
  <2>5. Earlier(w.end, -Horizon) > lastEnd'
    BY <2>1, <1>2, Floors, SMT DEF Earlier
  <2> QED
    BY <2>1, <2>3, <2>4, <2>5, Zenon
<1>4. /\ due \in (-MaxDelay)..Horizon
      /\ due' = IF pc \in {"wait", "arm", "first", "fire"} THEN due - 1
                                                          ELSE due
      /\ pc \in {"wait", "arm", "first", "fire"} => due > -MaxDelay
  BY Zenon DEF TypeOK, Elapse, InTime
<1>5. due' \in (-MaxDelay)..Horizon
  BY <1>4, Floors, SMT
<1>6. ASSUME NEW t \in tick'
      PROVE  /\ t \in (-MaxDelay)..0
             /\ lastEnd' < t
             /\ \A w \in inflight : Moved(w).end < t
             /\ pc \in {"first", "fire"} => due' < t
  <2>1. CASE t \in tick /\ pc \notin {"first", "adopt", "loop", "fire"}
    <3>1. /\ t \in (-MaxDelay)..0 /\ lastEnd < t
          /\ \A w \in inflight : w.end < t
      BY <2>1, Zenon DEF TypeOK, SchedulerInv, PlanInv
    <3>2. ASSUME NEW w \in inflight PROVE Moved(w).end < t
      <4> DEFINE e == Moved(w).end
      <4>1. e \in (-Horizon)..0 /\ e <= w.end
        BY <1>3
      <4>2. w.end \in (-Horizon)..0 /\ w.end < t
        BY <1>3, <3>1
      <4> HIDE DEF e
      <4>3. e < t
        BY <4>1, <4>2, <3>1, Floors, SMT
      <4> QED
        BY <4>3 DEF e
    <3> QED
      BY <2>1, <3>1, <3>2, <1>2, Floors, SMT
  <2>2. CASE \E u \in tick : t = u - 1
    <3> PICK u \in tick : t = u - 1
      BY <2>2
    <3>1. /\ u \in (-MaxDelay)..0 /\ u > -MaxDelay /\ lastEnd < u
          /\ \A w \in inflight : w.end < u
          /\ pc \in {"first", "fire"} => due < u
      BY Zenon DEF TypeOK, SchedulerInv, PlanInv, Elapse, InTime
    <3>2. u \in Int /\ Never < u - 1 /\ -Horizon < u - 1
      BY <3>1, Floors, SMT
    <3>3. \A w \in inflight : Moved(w).end < u - 1
      BY <3>1, <3>2, <1>3, Zenon
    <3> QED
      BY <3>1, <3>2, <3>3, <1>2, <1>4, Floors, SMT
  <2>3. CASE t = 0
    <3>1. \A w \in inflight : Moved(w).end < 0
      BY <1>3, Zenon
    <3>2. pc \in {"first", "fire"} => due' < 0
      BY <1>4, Floors, SMT DEF SchedulerInv, PlanInv
    <3> QED
      BY <2>3, <3>1, <3>2, <1>2, Floors, SMT
  <2> QED
    BY <2>1, <2>2, <2>3, SMT DEF Elapse
<1>7. TypeOK'
  <2>1. ticker' \in Ticker
    BY SMT DEF TypeOK, Ticker, Elapse
  <2>2. inflight' \subseteq Window
    BY <1>1, <1>3, Zenon
  <2>3. tick' \in SUBSET ((-MaxDelay)..0)
    BY <1>6, Zenon
  <2> QED
    BY <1>2, <1>5, <2>1, <2>2, <2>3, Zenon DEF TypeOK, Elapse, counts
<1>8. GuardInv'
  <2>1. inflight' = {} <=> inflight = {}
    BY <1>1, Zenon
  <2>2. \A u, v \in inflight' : u = v
    BY <1>1, Zenon DEF SchedulerInv, GuardInv
  <2> QED
    BY <2>1, <2>2, Zenon DEF SchedulerInv, GuardInv, Elapse
<1>9. WindowsAdvance'
  BY <1>1, <1>3, Zenon DEF WindowsAdvance
<1>10. PlanInv'
  <2>1. pc' = pc
    BY Zenon DEF Elapse
  <2>2. pc \in {"wait", "arm", "first", "fire"} => due' > lastEnd'
    BY <1>2, <1>4, Floors, SMT DEF SchedulerInv, PlanInv
  <2>3. pc \in {"arm", "first", "fire"} => due' <= 0
    BY <1>4, Floors, SMT DEF SchedulerInv, PlanInv
  <2>4. pc = "fire" => \A w \in inflight : Moved(w).end < due'
    <3> SUFFICES ASSUME pc = "fire", NEW w \in inflight
                 PROVE  Moved(w).end < due'
      BY Zenon
    <3>1. due \in Int /\ w.end < due /\ -Horizon < due - 1 /\ due' = due - 1
      BY <1>4, Floors, SMT DEF SchedulerInv, PlanInv
    <3> QED
      BY <3>1, <1>3, Zenon
  <2> QED
    BY <1>1, <1>2, <1>6, <2>1, <2>2, <2>3, <2>4, Zenon DEF PlanInv
<1> QED
  BY <1>7, <1>8, <1>9, <1>10 DEF SchedulerInv

----------------------------------------------------------------------------

\* What the steps of Run do to the order of the instants.
LEMMA RunInv == IInv /\ RunStep => IInv'
<1> SUFFICES ASSUME IInv, RunStep PROVE IInv'
  OBVIOUS
<1> USE DEF IInv
<1>0. /\ pc \in {"start", "wait", "arm", "first", "down"} => inflight = {}
      /\ lastEnd \in Never..0 /\ interval \in Nat \ {0}
      /\ interval + MaxDelay < Horizon
  BY Zenon DEF TypeOK, SchedulerInv, GuardInv
<1>1. CASE Plan
  <2>1. /\ pc = "start" /\ lastEnd < 0
        /\ due' = FirstTick \/ due' = 0
        /\ pc' = IF due' > 0 THEN "wait" ELSE "arm"
    BY <1>1, Zenon DEF Plan, SchedulerInv, PlanInv
  <2>2. due' \in (-MaxDelay)..Horizon /\ due' > lastEnd /\ due' >= 0
    BY <2>1, <1>0, Floors, SMT DEF FirstTick
  <2>3. stops' \in 0..MaxStops
    BY <1>1, SMT DEF Plan, Stop, TypeOK
  <2>4. fresh' \in BOOLEAN
    BY <1>1, Zenon DEF Plan, TypeOK
  <2>5. TypeOK'
    BY <1>1, <2>1, <2>2, <2>3, <2>4, Zenon
       DEF Plan, TypeOK, RunSteps, store, cycles
  <2>6. pc' \in {"wait", "arm"} /\ (pc' = "arm" => due' <= 0)
    BY <2>1, <2>2, SMT
  <2>7. GuardInv' /\ WindowsAdvance'
    BY <1>1, <1>0, <2>1, <2>6, Zenon
       DEF Plan, SchedulerInv, GuardInv, WindowsAdvance, store, cycles
  <2>8. PlanInv'
    BY <1>1, <2>1, <2>2, <2>6, Zenon
       DEF Plan, SchedulerInv, PlanInv, store, cycles
  <2> QED
    BY <2>5, <2>7, <2>8 DEF SchedulerInv
<1>2. CASE FirstTickDue
  <2>1. TypeOK'
    BY <1>2, Zenon DEF FirstTickDue, TypeOK, RunSteps, store, loop, cycles,
                       counts
  <2>2. SchedulerInv'
    BY <1>2, <1>0, Zenon
       DEF FirstTickDue, SchedulerInv, GuardInv, PlanInv, WindowsAdvance,
           store, loop, cycles
  <2> QED
    BY <2>1, <2>2
<1>3. CASE Arm
  <2>1. ticker' \in Ticker
    BY <1>3, Zenon DEF Arm, TypeOK, Ticker, IntervalsAssumption
  <2>2. TypeOK'
    BY <1>3, <2>1, Zenon DEF Arm, TypeOK, RunSteps, store, cycles, counts
  <2>3. SchedulerInv'
    BY <1>3, <1>0, Zenon
       DEF Arm, SchedulerInv, GuardInv, PlanInv, WindowsAdvance, store, cycles
  <2> QED
    BY <2>2, <2>3
<1>4. ASSUME pc \in {"first", "fire"}, Fire(due), due' = 0,
             pc' = IF pc = "first" THEN "adopt" ELSE "loop",
             UNCHANGED <<store, ticker, tick, lastInterval, interval, seen,
                         ctx, counts, causes>>
      PROVE  IInv'
  <2> DEFINE w0 == [start |-> due - interval, end |-> due]
  <2>1. /\ due \in (-MaxDelay)..Horizon /\ lastEnd < due /\ due <= 0
        /\ \A t \in tick : due < t
        /\ \A t \in tick : lastEnd < t /\ \A w \in inflight : w.end < t
    BY <1>4, Zenon DEF TypeOK, SchedulerInv, PlanInv
  <2>2. w0 \in Window /\ w0.end = due
    <3>1. due - interval \in (Never - Horizon)..0 /\ due \in (-Horizon)..0
      BY <2>1, <1>0, Floors, SMT DEF Never
    <3> QED
      BY <3>1, Zenon DEF Window
  <2>3. \/ running /\ running' = running /\ inflight' = inflight
        \/ ~running /\ running' = TRUE /\ inflight' = inflight \cup {w0}
    BY <1>4, Zenon DEF Fire, cycles
  <2>4. 0 \in (-MaxDelay)..Horizon
    BY Floors, SMT
  <2>5. TypeOK'
    <3>1. inflight' \subseteq Window
      BY <2>2, <2>3, Zenon DEF TypeOK
    <3>2. running' \in BOOLEAN
      BY <2>3, Zenon DEF TypeOK
    <3>3. pc' \in RunSteps
      BY <1>4, Zenon DEF RunSteps
    <3> QED
      BY <1>4, <3>1, <3>2, <3>3, <2>4, Zenon DEF TypeOK, store, counts
  <2>6. running <=> inflight # {}
    BY Zenon DEF SchedulerInv, GuardInv
  <2> HIDE DEF w0
  <2>7. GuardInv'
    <3>1. pc' \in {"adopt", "loop"}
      BY <1>4, Zenon
    <3> QED
      BY <2>3, <2>6, <3>1, Zenon DEF SchedulerInv, GuardInv
  <2>8. WindowsAdvance'
    BY <1>4, <2>1, <2>2, <2>3, Zenon DEF SchedulerInv, WindowsAdvance, store
  <2>9. PlanInv'
    <3>1. pc' \in {"adopt", "loop"}
      BY <1>4, Zenon
    <3>2. tick' = tick /\ lastEnd' = lastEnd
      BY <1>4, Zenon DEF store
    <3> QED
      BY <2>1, <2>2, <2>3, <3>1, <3>2, Zenon DEF PlanInv
  <2> QED
    BY <2>5, <2>7, <2>8, <2>9 DEF SchedulerInv
<1>5. CASE FireFirst
  <2>1. pc' = IF pc = "first" THEN "adopt" ELSE "loop"
    BY <1>5, Zenon DEF FireFirst
  <2> QED
    BY <1>4, <1>5, <2>1, Zenon DEF FireFirst
<1>6. CASE FireTick
  <2>1. pc' = IF pc = "first" THEN "adopt" ELSE "loop"
    BY <1>6, Zenon DEF FireTick
  <2> QED
    BY <1>4, <1>6, <2>1, Zenon DEF FireTick
<1>7. CASE Adopt
  <2>1. TypeOK'
    BY <1>7, Zenon DEF Adopt, TypeOK, RunSteps, store, cycles, counts
  <2>2. SchedulerInv'
    BY <1>7, Zenon
       DEF Adopt, SchedulerInv, GuardInv, PlanInv, WindowsAdvance, store,
           cycles
  <2> QED
    BY <2>1, <2>2
<1>8. CASE TakeTick
  <2>1. PICK t \in tick : due' = t
    BY <1>8, Zenon DEF TakeTick
  <2>2. /\ t \in (-MaxDelay)..0 /\ lastEnd < t
        /\ \A w \in inflight : w.end < t
    BY <2>1, Zenon DEF TypeOK, SchedulerInv, PlanInv
  <2>3. due' \in (-MaxDelay)..Horizon /\ due' <= 0
    BY <2>1, <2>2, Floors, SMT
  <2>4. ticker' \in Ticker /\ lastInterval' \in Intervals
    <3>1. [period |-> interval, left |-> interval] \in Ticker
      BY Zenon DEF TypeOK, Ticker, IntervalsAssumption
    <3>2. \/ /\ ticker' = [period |-> interval, left |-> interval]
             /\ lastInterval' = interval
          \/ ticker' = ticker /\ lastInterval' = lastInterval
      BY <1>8, Zenon DEF TakeTick
    <3> QED
      BY <3>1, <3>2, Zenon DEF TypeOK
  <2>5. TypeOK'
    BY <1>8, <2>3, <2>4, Zenon
       DEF TakeTick, TypeOK, RunSteps, store, cycles, counts
  <2>6. GuardInv' /\ WindowsAdvance'
    BY <1>8, Zenon
       DEF TakeTick, SchedulerInv, GuardInv, WindowsAdvance, store, cycles
  <2>7. PlanInv'
    BY <1>8, <2>1, <2>2, <2>3, Zenon DEF TakeTick, PlanInv, store, cycles
  <2> QED
    BY <2>5, <2>6, <2>7 DEF SchedulerInv
<1>9. CASE Stopped
  <2>1. 0 \in (-MaxDelay)..Horizon
    BY Floors, SMT
  <2>2. TypeOK'
    BY <1>9, <2>1, Zenon DEF Stopped, TypeOK, store, cycles, counts
  <2>3. SchedulerInv'
    BY <1>9, Zenon
       DEF Stopped, SchedulerInv, GuardInv, PlanInv, WindowsAdvance, store,
           cycles
  <2> QED
    BY <2>2, <2>3
<1> QED
  BY <1>1, <1>2, <1>3, <1>5, <1>6, <1>7, <1>8, <1>9 DEF RunStep

----------------------------------------------------------------------------

\* A cycle that ends leaves the scheduler idle, and its window precedes
\* everything that is still planned.
LEMMA EndInv == IInv /\ EndCycle => IInv'
<1> SUFFICES ASSUME IInv, NEW w \in inflight, CycleEnds(w) PROVE IInv'
  BY DEF EndCycle
<1> USE DEF IInv
<1>1. /\ inflight = {w} /\ inflight' = {} /\ running' = FALSE
      /\ pc \notin {"start", "wait", "arm", "first", "down"}
  BY Zenon DEF CycleEnds, SchedulerInv, GuardInv
<1>2. /\ w.end \in (-Horizon)..0 /\ w.end > lastEnd
      /\ \A t \in tick : w.end < t
      /\ pc = "fire" => w.end < due
  BY Zenon DEF TypeOK, Window, SchedulerInv, WindowsAdvance, PlanInv
<1>3. lastEnd' = w.end \/ lastEnd' = lastEnd
  BY Zenon DEF CycleEnds
<1>4. lastEnd' \in Never..0
  BY <1>2, <1>3, Floors, SMT DEF TypeOK
<1>5. TypeOK'
  BY <1>1, <1>4, Zenon DEF CycleEnds, TypeOK, loop, counts
<1>6. GuardInv' /\ WindowsAdvance'
  BY <1>1, Zenon DEF GuardInv, WindowsAdvance, CycleEnds
<1>7. PlanInv'
  BY <1>1, <1>2, <1>3, Zenon
     DEF CycleEnds, SchedulerInv, PlanInv, loop
<1> QED
  BY <1>5, <1>6, <1>7 DEF SchedulerInv

\* Settings, signals and restarts touch no window; a new process starts with
\* none.
LEMMA OutsideInv ==
  ASSUME IInv,
         \/ Watch \/ \E i \in Intervals : ChangeSetting(i)
         \/ Crash \/ Shutdown \/ Exit \/ Boot
  PROVE  IInv'
<1> USE DEF IInv
<1>1. CASE Watch
  <2>1. TypeOK'
    BY <1>1, Zenon DEF Watch, TypeOK, store, loop, cycles, counts
  <2> QED
    BY <1>1, <2>1, Zenon DEF Watch, SchedulerInv, GuardInv, PlanInv,
                             WindowsAdvance, store, loop, cycles
<1>2. CASE \E i \in Intervals : ChangeSetting(i)
  <2>1. changes' \in 0..MaxChanges
    BY <1>2, SMT DEF ChangeSetting, TypeOK
  <2>2. TypeOK'
    BY <1>2, <2>1, Zenon DEF ChangeSetting, TypeOK, loop, cycles
  <2>3. UNCHANGED <<lastEnd, pc, due, tick, running, inflight>>
    BY <1>2, Zenon DEF ChangeSetting, loop, cycles
  <2>4. SchedulerInv'
    BY <2>3, Zenon DEF SchedulerInv, GuardInv, PlanInv, WindowsAdvance
  <2> QED
    BY <2>2, <2>4
<1>3. CASE Shutdown
  <2>1. stops' \in 0..MaxStops
    BY <1>3, SMT DEF Shutdown, Stop, TypeOK
  <2>2. TypeOK'
    BY <1>3, <2>1, Zenon DEF Shutdown, TypeOK, store, loop, cycles
  <2> QED
    BY <1>3, <2>2, Zenon DEF Shutdown, SchedulerInv, GuardInv, PlanInv,
                             WindowsAdvance, store, loop, cycles
<1>4. ASSUME ProcessEnds, stops' \in 0..MaxStops PROVE IInv'
  <2>1. 0 \in (-MaxDelay)..Horizon
    BY Floors, SMT
  <2>2. running' \in BOOLEAN /\ fresh' \in BOOLEAN /\ overtaken' \in BOOLEAN
    BY <1>4, Zenon DEF ProcessEnds
  <2>3. TypeOK'
    BY <1>4, <2>1, <2>2, Zenon DEF ProcessEnds, TypeOK, store
  <2>4. GuardInv' /\ WindowsAdvance'
    BY <1>4, Zenon DEF ProcessEnds, GuardInv, WindowsAdvance
  <2>5. PlanInv'
    BY <1>4, Zenon DEF ProcessEnds, PlanInv
  <2> QED
    BY <2>3, <2>4, <2>5 DEF SchedulerInv
<1>5. CASE Crash
  <2>1. stops' \in 0..MaxStops
    BY <1>5, SMT DEF Crash, Stop, TypeOK
  <2> QED
    BY <1>4, <1>5, <2>1 DEF Crash
<1>6. CASE Exit
  BY <1>4, <1>6, Zenon DEF Exit, TypeOK
<1>7. CASE Boot
  <2>1. TypeOK'
    BY <1>7, Zenon DEF Boot, TypeOK, RunSteps, IntervalsAssumption, store,
                       loop, cycles, counts
  <2> QED
    BY <1>7, <2>1, Zenon DEF Boot, SchedulerInv, GuardInv, PlanInv,
                             WindowsAdvance, store, loop, cycles
<1> QED
  BY <1>1, <1>2, <1>3, <1>5, <1>6, <1>7

\* A step that changes nothing.
LEMMA StutterInv == IInv /\ UNCHANGED vars => IInv'
<1> SUFFICES ASSUME IInv, UNCHANGED vars PROVE IInv'
  OBVIOUS
<1> USE DEF IInv, vars, store, loop, cycles, counts
<1>1. TypeOK'
  BY Zenon DEF TypeOK
<1>2. GuardInv' /\ WindowsAdvance'
  BY Zenon DEF SchedulerInv, GuardInv, WindowsAdvance
<1>3. PlanInv'
  BY Zenon DEF SchedulerInv, PlanInv
<1> QED
  BY <1>1, <1>2, <1>3 DEF SchedulerInv

----------------------------------------------------------------------------

\* The inductive invariant of Scheduler.Run, fire and the watcher: types, the
\* overlap guard, and the order of planned, running and finished windows.
THEOREM SchedulerInvariant == Spec => [](TypeOK /\ SchedulerInv)
<1>1. Init => IInv
  BY InitInv
<1>2. IInv /\ [Next]_vars => IInv'
  BY ElapseInv, RunInv, EndInv, OutsideInv, StutterInv DEF Next
<1>3. IInv <=> TypeOK /\ SchedulerInv
  BY DEF IInv
<1> QED
  BY <1>1, <1>2, <1>3, PTL DEF Spec

\* The guard of fire holds for every schedule of Run, SetInterval and the
\* cycle goroutines: at most one cycle runs at a time.
THEOREM NoOverlap == Spec => []OneCycleAtATime
<1>1. TypeOK /\ SchedulerInv => OneCycleAtATime
  <2> SUFFICES ASSUME SchedulerInv PROVE Cardinality(inflight) <= 1
    BY DEF OneCycleAtATime
  <2>1. CASE inflight = {}
    BY <2>1, FS_EmptySet, SMT
  <2>2. CASE \E w : inflight = {w}
    BY <2>2, FS_Singleton, SMT
  <2>3. inflight = {} \/ \E w : inflight = {w}
    <3> SUFFICES ASSUME NEW w \in inflight PROVE inflight = {w}
      BY Zenon
    <3> QED
      BY Zenon DEF SchedulerInv, GuardInv
  <2> QED
    BY <2>1, <2>2, <2>3
<1> QED
  BY <1>1, SchedulerInvariant, PTL

\* FR-016: no cycle runs for a window that ends at or before a successful one,
\* across restarts, late ticks and interval changes.
THEOREM NoWindowTwice == Spec => []WindowsAdvance
<1>1. TypeOK /\ SchedulerInv => WindowsAdvance
  BY DEF SchedulerInv
<1> QED
  BY <1>1, SchedulerInvariant, PTL

(***************************************************************************)
(* Windows keep an interval apart.                                         *)
(***************************************************************************)

\* A permitted interval from now is an interval apart from everything that is
\* not in the future.
LEMMA IntervalApart ==
  ASSUME NEW i \in Intervals, NEW u \in Int, u <= 0
  PROVE  Apart(i, u)
<1>1. i \in Nat /\ i >= u + i
  BY SMT
<1> QED
  BY <1>1 DEF Apart

\* The passage of time keeps two instants apart, also when the earlier one has
\* reached the horizon.
LEMMA ApartMoves ==
  ASSUME NEW floor \in {Never, -Horizon}, NEW u \in floor..0,
         NEW t \in Int, t - 1 >= -MaxDelay, Apart(t, u)
  PROVE  Apart(t - 1, Earlier(u, floor))
<1>1. PICK i \in Intervals : t >= u + i
  BY DEF Apart
<1>2. i \in Nat /\ i + MaxDelay < Horizon /\ floor \in Int
  BY <1>1, Floors
<1>3. t - 1 >= Earlier(u, floor) + i
  BY <1>1, <1>2, Floors, SMT DEF Earlier, Never
<1> QED
  BY <1>3 DEF Apart

\* The instants of a behaviour are integers, those of windows and waiting ticks
\* not in the future.
LEMMA Instants ==
  ASSUME IInv
  PROVE  /\ lastEnd \in Never..0 /\ lastEnd \in Int /\ lastEnd <= 0
         /\ due \in Int /\ due >= -MaxDelay
         /\ ticker.left \in Nat /\ ticker.period \in Intervals
         /\ \A t \in tick : t \in Int /\ t >= -MaxDelay /\ t <= 0
         /\ \A w \in inflight : /\ w.end \in (-Horizon)..0
                                /\ w.end \in Int /\ w.end <= 0
<1>1. /\ lastEnd \in Never..0 /\ due \in (-MaxDelay)..Horizon
      /\ ticker \in Ticker /\ tick \subseteq (-MaxDelay)..0
      /\ inflight \subseteq Window
  BY Zenon DEF IInv, TypeOK
<1>2. ticker.left \in Nat /\ ticker.period \in Intervals
  BY <1>1 DEF Ticker
<1>3. \A w \in inflight : w.end \in (-Horizon)..0
  BY <1>1 DEF Window
<1>4. /\ lastEnd \in Int /\ lastEnd <= 0 /\ due \in Int /\ due >= -MaxDelay
      /\ \A t \in tick : t \in Int /\ t >= -MaxDelay /\ t <= 0
  BY <1>1, Floors, SMT
<1>5. \A w \in inflight : w.end \in Int /\ w.end <= 0
  BY <1>3, Floors, SMT
<1> QED
  BY <1>1, <1>2, <1>3, <1>4, <1>5, Zenon

\* A later instant is apart from whatever an earlier one is apart from.
LEMMA ApartLater ==
  ASSUME NEW t \in Int, NEW s \in Int, t <= s, NEW u \in Int, Apart(t, u)
  PROVE  Apart(s, u)
<1>1. PICK i \in Intervals : t >= u + i
  BY DEF Apart
<1>2. i \in Nat /\ s >= u + i
  BY <1>1
<1> QED
  BY <1>2 DEF Apart

\* The passage of time keeps everything apart, and the tick it may send is
\* apart from all that is older and from the tick after it.
LEMMA ElapseApart ==
  ASSUME IInv, ApartInv, Elapse PROVE ApartInv'
<1> SUFFICES ASSUME ~fresh PROVE ApartInv'
  BY DEF ApartInv, Elapse
<1> DEFINE Moved(w) == [start |-> Earlier(w.start, Never - Horizon),
                        end |-> Earlier(w.end, -Horizon)]
           left == ticker.left
           Ticking == pc \in {"first", "adopt", "loop", "fire"}
           Firing == pc \in {"wait", "arm", "first", "fire"}
<1>1. /\ inflight' = {Moved(w) : w \in inflight}
      /\ lastEnd' = Earlier(lastEnd, Never) /\ UNCHANGED pc
      /\ Firing => due' = due - 1 /\ due > -MaxDelay
      /\ \A t \in tick : t > -MaxDelay
  BY Zenon DEF Elapse, InTime
<1>2. /\ lastEnd' \in Int /\ lastEnd' <= 0
      /\ \A w \in inflight : Moved(w).end \in Int /\ Moved(w).end <= 0
  <2>1. \A w \in inflight : Earlier(w.end, -Horizon) \in (-Horizon)..0
    BY Instants, Floors, EarlierMoves
  <2>2. lastEnd' \in Never..0
    BY <1>1, Instants, Floors, EarlierMoves
  <2> QED
    BY <2>1, <2>2, Floors, SMT
<1>3. ASSUME NEW t \in Int, t - 1 >= -MaxDelay
      PROVE  /\ Apart(t, lastEnd) => Apart(t - 1, lastEnd')
             /\ \A w \in inflight : Apart(t, w.end) => Apart(t - 1, Moved(w).end)
  BY <1>1, <1>3, Instants, ApartMoves
<1>4. ASSUME NEW w \in inflight PROVE Apart(Moved(w).end, lastEnd')
  <2>1. PICK i \in Intervals : w.end >= lastEnd + i
    BY DEF ApartInv, Apart
  <2>2. i \in Nat /\ i + MaxDelay < Horizon
    BY <2>1
  <2>3. Earlier(w.end, -Horizon) >= Earlier(lastEnd, Never) + i
    BY <2>1, <2>2, Instants, Floors, SMT DEF Earlier, Never
  <2> QED
    BY <1>1, <2>3 DEF Apart
<1>5. Firing => due \in Int /\ due - 1 >= -MaxDelay
  BY <1>1, Instants, Floors, SMT
<1>6. Firing => Apart(due', lastEnd')
  BY <1>1, <1>3, <1>5 DEF ApartInv
<1>7. pc = "fire" => \A w \in inflight : Apart(due', Moved(w).end)
  BY <1>1, <1>3, <1>5 DEF ApartInv
<1>8. ASSUME Ticking
      PROVE  \/ ticker'.left = left - 1 /\ left > 1 /\ tick' = {t - 1 : t \in tick}
             \/ ticker'.left = ticker.period /\ left <= 1 /\ tick = {} /\ tick' = {0}
             \/ ticker'.left = ticker.period /\ tick' = {t - 1 : t \in tick}
  <2>1. ticker = [period |-> ticker.period, left |-> ticker.left]
    BY DEF IInv, TypeOK, Ticker
  <2>2. \/ ticker' = [ticker EXCEPT !.left = left - 1] /\ left > 1
           /\ tick' = {t - 1 : t \in tick}
        \/ ticker' = [ticker EXCEPT !.left = ticker.period] /\ ~(left > 1)
           /\ tick' = IF tick = {} THEN {0} ELSE {t - 1 : t \in tick}
    BY <1>8, Zenon DEF Elapse
  <2>3. ~(left > 1) <=> left <= 1
    BY Instants, SMT
  <2> QED
    BY <2>1, <2>2, <2>3
<1>9. ASSUME Ticking
      PROVE  \A t \in tick' :
               \/ \E s \in tick : t = s - 1 /\ s \in Int /\ s - 1 >= -MaxDelay
               \/ t = 0 /\ left <= 1
  BY <1>1, <1>8, <1>9, Instants, Floors, SMT
<1>10. ASSUME Ticking, left <= 1
       PROVE  /\ Apart(0, lastEnd')
              /\ \A w \in inflight : Apart(0, Moved(w).end)
              /\ pc \in {"first", "fire"} => Apart(0, due')
  <2>1. /\ Apart(1, lastEnd)
        /\ \A w \in inflight : Apart(1, w.end)
        /\ pc \in {"first", "fire"} => Apart(1, due)
    BY <1>10, Instants, ApartLater DEF ApartInv
  <2>2. 0 >= -MaxDelay
    BY Floors, SMT
  <2>3. pc \in {"first", "fire"} => Apart(0, due')
    BY <1>1, <2>1, Instants, SMT DEF Apart
  <2> QED
    BY <1>3, <2>1, <2>2, <2>3
<1>11. ASSUME Ticking, NEW t \in tick'
       PROVE  /\ Apart(t, lastEnd')
              /\ \A w \in inflight : Apart(t, Moved(w).end)
              /\ pc \in {"first", "fire"} => Apart(t, due')
  <2>1. CASE t = 0 /\ left <= 1
    BY <1>10, <1>11, <2>1
  <2>2. ASSUME NEW s \in tick, t = s - 1, s \in Int, s - 1 >= -MaxDelay
        PROVE  /\ Apart(t, lastEnd')
               /\ \A w \in inflight : Apart(t, Moved(w).end)
               /\ pc \in {"first", "fire"} => Apart(t, due')
    <3>1. Apart(t, lastEnd') /\ \A w \in inflight : Apart(t, Moved(w).end)
      BY <1>3, <1>11, <2>2 DEF ApartInv
    <3>2. pc \in {"first", "fire"} => Apart(s, due)
      BY <2>2 DEF ApartInv
    <3>3. pc \in {"first", "fire"} => Apart(t, due')
      BY <1>1, <2>2, <3>2, Instants, SMT DEF Apart
    <3> QED
      BY <3>1, <3>3
  <2> QED
    BY <1>9, <1>11, <2>1, <2>2
<1>12. ASSUME Ticking
       PROVE  /\ Apart(ticker'.left, lastEnd')
              /\ \A w \in inflight : Apart(ticker'.left, Moved(w).end)
              /\ \A t \in tick' : Apart(ticker'.left, t)
              /\ pc \in {"first", "fire"} => Apart(ticker'.left, due')
  <2>1. pc \in {"first", "fire"} => due' \in Int /\ due' <= 0
    BY <1>1, Instants, SMT DEF IInv, SchedulerInv, PlanInv
  <2>2. \A t \in tick' : t \in Int /\ t <= 0
    BY <1>9, <1>12, Instants, SMT
  <2>3. CASE ticker'.left = ticker.period
    BY <1>2, <2>1, <2>2, <2>3, Instants, IntervalApart
  <2>4. CASE ticker'.left = left - 1 /\ left > 1 /\ tick' = {t - 1 : t \in tick}
    <3>1. left \in Int /\ left - 1 >= -MaxDelay
      BY <2>4, Instants, Floors, SMT
    <3>2. /\ Apart(left, lastEnd)
          /\ \A w \in inflight : Apart(left, w.end)
          /\ \A t \in tick : Apart(left, t)
          /\ pc \in {"first", "fire"} => Apart(left, due)
      BY <1>12 DEF ApartInv
    <3>3. /\ Apart(left - 1, lastEnd')
          /\ \A w \in inflight : Apart(left - 1, Moved(w).end)
      BY <1>3, <3>1, <3>2
    <3>4. \A t \in tick : Apart(left - 1, t - 1)
      BY <3>1, <3>2, Instants, SMT DEF Apart
    <3>5. pc \in {"first", "fire"} => Apart(left - 1, due')
      BY <1>1, <3>1, <3>2, Instants, SMT DEF Apart
    <3> QED
      BY <2>4, <3>3, <3>4, <3>5
  <2> QED
    BY <1>8, <1>12, <2>3, <2>4
<1> HIDE DEF Moved, left
<1> QED
  BY <1>1, <1>4, <1>6, <1>7, <1>11, <1>12 DEF ApartInv

\* The steps of Run plan, take and fire only what is apart from the windows
\* before it.
LEMMA RunApart ==
  ASSUME IInv, ApartInv, RunStep PROVE ApartInv'
<1> SUFFICES ASSUME ~fresh' PROVE ApartInv'
  BY DEF ApartInv
<1>0. /\ ~fresh
      /\ pc \in {"start", "wait", "arm", "first", "down"} => inflight = {}
      /\ interval \in Intervals
  <2>1. ~fresh
    BY DEF RunStep, Plan, FirstTickDue, Arm, FireFirst, Adopt, TakeTick,
           FireTick, Stopped
  <2> QED
    BY <2>1 DEF IInv, TypeOK, SchedulerInv, GuardInv
<1>1. CASE Plan
  <2>1. /\ due' = FirstTick /\ UNCHANGED <<lastEnd, inflight>>
        /\ pc' \in {"wait", "arm"} /\ inflight = {}
    BY <1>0, <1>1 DEF Plan, store, cycles
  <2>2. Apart(FirstTick, lastEnd)
    <3>1. interval \in Nat /\ FirstTick >= lastEnd + interval
      BY <1>0, Instants, SMT DEF FirstTick
    <3> QED
      BY <1>0, <3>1 DEF Apart
  <2> QED
    BY <2>1, <2>2 DEF ApartInv
<1>2. CASE FirstTickDue
  BY <1>0, <1>2 DEF FirstTickDue, ApartInv, store, loop, cycles
<1>3. CASE Arm
  <2>1. /\ ticker'.left = interval /\ tick' = {} /\ pc = "arm" /\ pc' = "first"
        /\ UNCHANGED <<lastEnd, inflight, due>> /\ inflight = {}
    BY <1>0, <1>3 DEF Arm, store, cycles
  <2>2. due \in Int /\ due <= 0
    BY <2>1, Instants DEF IInv, SchedulerInv, PlanInv
  <2>3. Apart(interval, due) /\ Apart(interval, lastEnd)
    BY <1>0, <2>2, Instants, IntervalApart
  <2> QED
    BY <1>0, <2>1, <2>3 DEF ApartInv
<1>4. ASSUME pc \in {"first", "fire"}, Fire(due), pc' \in {"adopt", "loop"},
             UNCHANGED <<lastEnd, ticker, tick>>
      PROVE  ApartInv'
  <2> DEFINE w0 == [start |-> due - interval, end |-> due]
  <2>1. \A w \in inflight' : w \in inflight \/ w.end = due
    BY <1>4 DEF Fire, cycles
  <2>2. /\ Apart(due, lastEnd) /\ Apart(ticker.left, due)
        /\ \A t \in tick : Apart(t, due)
        /\ Apart(ticker.left, lastEnd)
        /\ \A w \in inflight : Apart(w.end, lastEnd) /\ Apart(ticker.left, w.end)
        /\ \A t \in tick : /\ Apart(t, lastEnd) /\ Apart(ticker.left, t)
                           /\ \A w \in inflight : Apart(t, w.end)
    BY <1>0, <1>4 DEF ApartInv
  <2> QED
    BY <1>4, <2>1, <2>2 DEF ApartInv
<1>5. CASE FireFirst
  BY <1>4, <1>5 DEF FireFirst, store
<1>6. CASE FireTick
  BY <1>4, <1>6 DEF FireTick, store
<1>7. CASE Adopt
  BY <1>0, <1>7 DEF Adopt, ApartInv, store, cycles
<1>8. CASE TakeTick
  <2>1. PICK t \in tick : due' = t
    BY <1>8 DEF TakeTick
  <2>2. /\ pc = "loop" /\ pc' = "fire" /\ tick' = {}
        /\ UNCHANGED <<lastEnd, inflight>>
        /\ ticker'.left = interval \/ UNCHANGED ticker
    BY <1>8 DEF TakeTick, store, cycles
  <2>3. /\ Apart(t, lastEnd) /\ \A w \in inflight : Apart(t, w.end)
        /\ Apart(ticker.left, t) /\ Apart(ticker.left, lastEnd)
        /\ \A w \in inflight : Apart(w.end, lastEnd) /\ Apart(ticker.left, w.end)
    BY <1>0, <2>1, <2>2 DEF ApartInv
  <2>4. /\ Apart(interval, t) /\ Apart(interval, lastEnd)
        /\ \A w \in inflight : Apart(interval, w.end)
    BY <1>0, Instants, IntervalApart
  <2>5. /\ Apart(ticker'.left, t) /\ Apart(ticker'.left, lastEnd)
        /\ \A w \in inflight : Apart(ticker'.left, w.end)
    BY <2>2, <2>3, <2>4
  <2> QED
    BY <2>1, <2>2, <2>3, <2>5 DEF ApartInv
<1>9. CASE Stopped
  BY <1>0, <1>9 DEF Stopped, ApartInv, store, cycles
<1> QED
  BY <1>1, <1>2, <1>3, <1>5, <1>6, <1>7, <1>8, <1>9 DEF RunStep

\* The end of a cycle makes its window the newest one: what was apart from the
\* running window stays apart from it.
LEMMA EndApart ==
  ASSUME IInv, ApartInv, EndCycle PROVE ApartInv'
<1> PICK w \in inflight : CycleEnds(w)
  BY DEF EndCycle
<1>1. /\ inflight = {w} /\ inflight' = {}
      /\ pc \notin {"start", "wait", "arm", "first", "down"}
      /\ UNCHANGED <<pc, due, ticker, tick, fresh>>
      /\ lastEnd' = w.end \/ lastEnd' = lastEnd
  BY DEF CycleEnds, loop, IInv, SchedulerInv, GuardInv
<1> QED
  BY <1>1 DEF ApartInv

\* Settings, signals and restarts move no instant; a new process has nothing
\* planned.
LEMMA OutsideApart ==
  ASSUME IInv, ApartInv,
         \/ Watch \/ \E i \in Intervals : ChangeSetting(i)
         \/ Crash \/ Shutdown \/ Exit \/ Boot \/ UNCHANGED vars
  PROVE  ApartInv'
<1>1. CASE Watch \/ Shutdown \/ UNCHANGED vars \/ \E i \in Intervals : ChangeSetting(i)
  <2>1. UNCHANGED <<lastEnd, pc, due, ticker, tick, inflight, fresh>>
    BY <1>1 DEF Watch, Shutdown, ChangeSetting, vars, store, loop, cycles
  <2> QED
    BY <2>1 DEF ApartInv, Apart
<1>2. CASE Crash \/ Exit
  <2>1. pc' = "down" /\ inflight' = {}
    BY <1>2 DEF Crash, Exit, ProcessEnds
  <2> QED
    BY <2>1 DEF ApartInv
<1>3. CASE Boot
  <2>1. pc' = "start" /\ inflight' = {}
    BY <1>3 DEF Boot, cycles, IInv, SchedulerInv, GuardInv
  <2> QED
    BY <2>1 DEF ApartInv
<1> QED
  BY <1>1, <1>2, <1>3

\* No restart, late tick or change of the interval makes a cycle run for a
\* window closer to the last successful one than the shortest permitted
\* interval, unless the process could not read where that one ended.
THEOREM IntervalKept == Spec => []WindowsKeepApart
<1>1. Init => IInv /\ ApartInv
  <2>1. Init => pc = "start" /\ inflight = {}
    BY DEF Init
  <2> QED
    BY <2>1, InitInv DEF ApartInv
<1>2. IInv /\ ApartInv /\ [Next]_vars => (IInv /\ ApartInv)'
  <2>1. IInv /\ [Next]_vars => IInv'
    BY ElapseInv, RunInv, EndInv, OutsideInv, StutterInv DEF Next
  <2>2. IInv /\ ApartInv /\ [Next]_vars => ApartInv'
    BY ElapseApart, RunApart, EndApart, OutsideApart DEF Next
  <2> QED
    BY <2>1, <2>2
<1>3. ApartInv => WindowsKeepApart
  BY DEF ApartInv, WindowsKeepApart
<1> QED
  BY <1>1, <1>2, <1>3, PTL DEF Spec

(***************************************************************************)
(* The ticker and the interval Run compares with.                          *)
(***************************************************************************)

\* Until lastInterval is read, the ticker has the interval of the scheduler,
\* unless SetInterval came in between.
GapInv ==
  /\ TickerInv
  /\ pc \in {"first", "adopt"} => ticker.period = interval \/ overtaken

\* A ticker that Run compares a new interval with has the period Run believes,
\* but for a SetInterval between NewTicker and the first read of lastInterval:
\* this is the only way by which a saved interval can fail to change the
\* cadence.
THEOREM TickerKnown == Spec => []TickerInv
<1>1. Init => GapInv
  BY DEF Init, GapInv, TickerInv
<1>2. TypeOK /\ GapInv /\ [Next]_vars => GapInv'
  <2> SUFFICES ASSUME TypeOK, GapInv, [Next]_vars PROVE GapInv'
    OBVIOUS
  <2> USE DEF GapInv, TickerInv
  <2>1. CASE Elapse
    <3>1. /\ UNCHANGED <<pc, lastInterval, interval, overtaken>>
          /\ \/ ticker' = [ticker EXCEPT !.left = ticker.left - 1]
             \/ ticker' = [ticker EXCEPT !.left = ticker.period]
             \/ UNCHANGED ticker
      BY <2>1, Zenon DEF Elapse
    <3>2. ticker = [period |-> ticker.period, left |-> ticker.left]
      BY DEF TypeOK, Ticker
    <3>3. ticker'.period = ticker.period
      BY <3>1, <3>2
    <3> QED
      BY <3>1, <3>3
  <2>2. CASE RunStep
    <3>1. CASE Arm
      BY <3>1 DEF Arm, store, cycles, counts
    <3>2. CASE Adopt
      BY <3>2 DEF Adopt, store, cycles, counts
    <3>3. CASE TakeTick
      BY <3>3 DEF TakeTick, store, cycles, counts
    <3>4. CASE Plan \/ FirstTickDue \/ FireFirst \/ FireTick \/ Stopped
      BY <3>4 DEF Plan, FirstTickDue, FireFirst, FireTick, Stopped, store, loop,
                  cycles, counts
    <3> QED
      BY <2>2, <3>1, <3>2, <3>3, <3>4 DEF RunStep
  <2>3. CASE Watch
    BY <2>3 DEF Watch, store, loop, cycles, counts
  <2>4. CASE EndCycle \/ Shutdown \/ UNCHANGED vars
             \/ \E i \in Intervals : ChangeSetting(i)
    BY <2>4 DEF EndCycle, CycleEnds, Shutdown, ChangeSetting, vars, store, loop,
                cycles, counts
  <2>5. CASE Crash \/ Exit \/ Boot
    BY <2>5 DEF Crash, Exit, ProcessEnds, Boot, store, loop, cycles, counts
  <2> QED
    BY <2>1, <2>2, <2>3, <2>4, <2>5 DEF Next
<1>3. GapInv => TickerInv
  BY DEF GapInv
<1>4. Spec => []TypeOK
  BY SchedulerInvariant, PTL
<1> QED
  BY <1>1, <1>2, <1>3, <1>4, PTL DEF Spec

=============================================================================
