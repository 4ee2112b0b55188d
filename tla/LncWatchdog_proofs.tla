------------------------- MODULE LncWatchdog_proofs -------------------------
(***************************************************************************)
(* Proofs about LncWatchdog for every period the IWDG grants, every length *)
(* of a stretch and every number of lost check-ins.                        *)
(***************************************************************************)
EXTENDS LncWatchdog, TLAPS

\* No task takes a mutex here: who is not asleep is ready, at its own priority.
LEMMA NoMutex ==
    /\ Sections = {}
    /\ \A t \in Tasks : Ready(t) <=> t \notin Asleep
    /\ \A t \in Tasks : Urgency(t) = {Priority[t]}
<1>1. Sections = {}
  BY DEF Sections, MutexOf
<1>2. \A t : ~Blocked(t)
  BY <1>1 DEF Blocked
<1>3. QED
  BY <1>1, <1>2 DEF Ready, Urgency

\* While the Object or the default task runs, the tasks above are asleep.
LEMMA CommAbove ==
    ASSUME NEW t \in {"Object", "Default"}, Runs(t)
    PROVE  /\ pc["Comm"] \in {"wait", "delay", "blocked"}
           /\ pc["Event"] \in {"wait", "delay", "blocked"}
<1>1. Priority["Comm"] = 3 /\ Priority["Event"] = 3 /\ Priority["Object"] = 2 /\ Priority["Default"] = 2
  BY DEF Priority
<1>2. t \in Tasks /\ "Comm" \in Tasks /\ "Event" \in Tasks
  BY DEF Tasks
<1>3. ASSUME NEW u \in {"Comm", "Event"} PROVE pc[u] \in {"wait", "delay", "blocked"}
  <2>1. Ready(u) => \E q \in Urgency(t) : Priority[u] <= q
    BY <1>2, NoMutex DEF Runs
  <2>2. ~Ready(u)
    BY <1>1, <1>2, <2>1, NoMutex
  <2> QED
    BY <1>2, <2>2, NoMutex DEF Asleep
<1>4. QED
  BY <1>3

\* Where each task can be.
LabelsOK ==
    /\ pc \in [Tasks -> {"wait", "delay", "work", "blocked", "spin", "load", "store", "check", "refresh"}]
    /\ \A t \in Watched : pc[t] \in {"delay", "work", "blocked", "spin", "load", "store"}
    /\ pc["Default"] \in {"delay", "check", "refresh"}
    /\ pc["Event"] \in {"wait", "work"}

\* A step moves its task and no other.
LEMMA StepMoves ==
    ASSUME LabelsOK, NEW t \in Tasks, NEW at, NEW next, Step(t, at, next)
    PROVE  pc[t] = at /\ pc'[t] = next /\ \A u \in Tasks \ {t} : pc'[u] = pc[u]
  BY DEF Step, LabelsOK

\* So does the end of a delay.
LEMMA WakeMoves ==
    ASSUME LabelsOK, NEW t \in Tasks, NEW at, NEW next, Wake(t, at, next)
    PROVE  pc[t] = at /\ pc'[t] = next /\ \A u \in Tasks \ {t} : pc'[u] = pc[u]
  BY DEF Wake, LabelsOK

\* The end of a period moves the tasks that wait for it.
LEMMA PeriodMoves ==
    ASSUME LabelsOK, Period
    PROVE  /\ \A t \in Watched : pc'[t] = IF pc[t] = "delay" THEN "work" ELSE pc[t]
           /\ pc'["Default"] = IF pc["Default"] = "delay" THEN "check" ELSE pc["Default"]
           /\ pc'["Event"] = pc["Event"]
  BY DEF Period, LabelsOK, Woken, Watched, Tasks

\* The tasks, spelled out.
LEMMA TaskNames == Watched = {"Comm", "Object"} /\ Tasks = {"Comm", "Event", "Object", "Default"}
  BY DEF Watched, Tasks

----------------------------------------------------------------------------
(* Type correctness *)

\* The types, with the labels each task has and with passes of bounded length.
TypeInv == TypeOK /\ LabelsOK

\* Each task stays at the labels of its own code, and all types hold, for every
\* timing of the tasks and of the dog.
THEOREM LabelInvariant == Spec => []TypeInv
<1> USE TaskNames, WatchdogAssumption
<1>1. Init => TypeInv
  BY DEF Init, TypeInv, TypeOK, LabelsOK
<1>2. TypeInv /\ [Next]_vars => TypeInv'
  <2> SUFFICES ASSUME TypeInv, [Next]_vars PROVE TypeInv'
    OBVIOUS
  <2>0. LabelsOK /\ TypeOK
    BY DEF TypeInv
  <2>1. CASE CommWake
    <3>1. LabelsOK'
      BY <2>0, <2>1 DEF CommWake, LabelsOK, Wake
    <3>2. left' \in 0 .. BUSY_N /\ races' \in 0 .. RACES_N
      BY <2>0, <2>1 DEF CommWake, Lose, Stretch, TypeOK
    <3>3. QED
      BY <2>0, <2>1, <3>1, <3>2 DEF CommWake, TypeInv, TypeOK, LabelsOK
  <2>e. CASE EventWake
    <3>1. LabelsOK'
      BY <2>0, <2>e DEF EventWake, LabelsOK, Wake
    <3>2. left' \in 0 .. BUSY_N
      BY <2>0, <2>e DEF EventWake, Stretch, TypeOK
    <3>3. QED
      BY <2>0, <2>e, <3>1, <3>2 DEF EventWake, TypeInv, TypeOK, LabelsOK
  <2>d. CASE EventDone
    BY <2>0, <2>d DEF EventDone, TypeInv, TypeOK, LabelsOK, Step
  <2>2. CASE ObjectWake
    BY <2>0, <2>2 DEF ObjectWake, TypeInv, TypeOK, LabelsOK, Wake
  <2>3. ASSUME NEW t \in Watched, Work(t) PROVE TypeInv'
    BY <2>0, <2>3 DEF Work, TypeInv, TypeOK, LabelsOK, Step
  <2>4. ASSUME NEW t \in Watched, Hang(t) PROVE TypeInv'
    BY <2>0, <2>4 DEF Hang, TypeInv, TypeOK, LabelsOK, Step
  <2>5. ASSUME NEW t \in Watched, Load(t) PROVE TypeInv'
    BY <2>0, <2>5 DEF Load, TypeInv, TypeOK, LabelsOK, Step
  <2>6. ASSUME NEW t \in Watched, Store(t) PROVE TypeInv'
    <3>1. LabelsOK'
      BY <2>0, <2>6 DEF Store, LabelsOK, Step
    <3>2. QED
      BY <2>0, <2>6, <3>1 DEF Store, TypeInv, TypeOK, LabelsOK
  <2>7. CASE CheckGood \/ CheckBad \/ Refresh
    <3>1. LabelsOK'
      BY <2>0, <2>7 DEF CheckGood, CheckBad, Refresh, LabelsOK, Step
    <3>2. races' \in 0 .. RACES_N /\ iwdg' \in 0 .. IWDG_N /\ left' = left
      BY <2>0, <2>7 DEF CheckGood, CheckBad, Refresh, TypeOK
    <3>3. g_alive' \subseteq Watched /\ seen' \subseteq Watched /\ vouched' \subseteq Watched
      BY <2>0, <2>7 DEF CheckGood, CheckBad, Refresh, TypeOK
    <3>4. reg' = reg /\ ran' = ran
      BY <2>7 DEF CheckGood, CheckBad, Refresh
    <3>5. QED
      BY <2>0, <3>1, <3>2, <3>3, <3>4 DEF TypeInv, TypeOK, LabelsOK
  <2>8. CASE Period
    <3>1. LabelsOK'
      BY <2>0, <2>8 DEF Period, LabelsOK, Woken
    <3>2. left' \in 0 .. BUSY_N /\ iwdg' \in 0 .. IWDG_N
      BY <2>0, <2>8 DEF Period, TypeOK
    <3>3. races' \in 0 .. RACES_N
      BY <2>0, <2>8 DEF Period, Lose, TypeOK
    <3>4. QED
      BY <2>0, <2>8, <3>1, <3>2, <3>3 DEF Period, TypeInv, TypeOK, LabelsOK
  <2>9. CASE Reset
    BY <2>0, <2>9 DEF Reset, TypeInv, TypeOK, LabelsOK
  <2>10. CASE UNCHANGED vars
    BY <2>0, <2>10 DEF vars, TypeInv, TypeOK, LabelsOK
  <2>11. QED
    BY <2>1, <2>e, <2>d, <2>2, <2>3, <2>4, <2>5, <2>6, <2>7, <2>8, <2>9, <2>10 DEF Next
<1>3. QED
  BY <1>1, <1>2, PTL DEF Spec

\* Every reachable state is well typed, and the IWDG counts down within what it
\* grants.
THEOREM TypeInvariant == Spec => []TypeOK
<1>1. TypeInv => TypeOK
  BY DEF TypeInv
<1>2. QED
  BY <1>1, LabelInvariant, PTL
----------------------------------------------------------------------------
(* What the bits say *)

\* The Comm task's load and store are not cut in two by a task; the Object
\* task's bit, and its copy in the Comm task's register, is never older than
\* the last refresh.
AliveInv ==
    /\ pc["Comm"] = "store" => reg["Comm"] = g_alive
    /\ "Object" \in g_alive => "Object" \in seen
    /\ pc["Default"] = "refresh" => "Object" \in vouched

\* In every reachable state the Object task's bit stands for a pass that ended
\* since the last refresh was decided.
THEOREM AliveInvariant == Spec => []AliveInv
<1> USE TaskNames
<1>1. Init => AliveInv
  BY DEF Init, AliveInv
<1>2. TypeInv /\ AliveInv /\ [Next]_vars => AliveInv'
  <2> SUFFICES ASSUME TypeInv, AliveInv, [Next]_vars PROVE AliveInv'
    OBVIOUS
  <2>0. LabelsOK /\ TypeOK
    BY DEF TypeInv
  <2>1. CASE CommWake \/ ObjectWake
    BY <2>0, <2>1, WakeMoves DEF CommWake, ObjectWake, AliveInv
  <2>e. CASE EventWake \/ EventDone
    <3>1. /\ pc'["Comm"] = pc["Comm"] /\ pc'["Default"] = pc["Default"]
          /\ UNCHANGED <<g_alive, reg, seen, vouched>>
      BY <2>0, <2>e, StepMoves, WakeMoves DEF EventWake, EventDone
    <3>2. QED
      BY <3>1 DEF AliveInv
  <2>2. ASSUME NEW t \in Watched, Work(t) \/ Hang(t) PROVE AliveInv'
    BY <2>0, <2>2, StepMoves DEF Work, Hang, AliveInv
  <2>3. ASSUME NEW t \in Watched, Load(t) PROVE AliveInv'
    <3>1. pc'[t] = "store" /\ \A u \in Tasks \ {t} : pc'[u] = pc[u]
      BY <2>0, <2>3, StepMoves DEF Load
    <3>2. CASE t = "Comm"
      BY <2>0, <2>3, <3>1, <3>2 DEF Load, AliveInv, TypeOK
    <3>3. CASE t = "Object"
      <4>1. reg'["Comm"] = reg["Comm"]
        BY <2>0, <2>3, <3>3 DEF Load, TypeOK
      <4>2. QED
        BY <2>3, <3>1, <3>3, <4>1 DEF Load, AliveInv
    <3>4. QED
      BY <3>2, <3>3
  <2>4. ASSUME NEW t \in Watched, Store(t) PROVE AliveInv'
    <3>1. pc[t] = "store" /\ pc'[t] = "delay" /\ \A u \in Tasks \ {t} : pc'[u] = pc[u]
      BY <2>0, <2>4, StepMoves DEF Store
    <3>2. pc'["Comm"] # "store"
      <4>1. CASE t = "Comm"
        BY <3>1, <4>1
      <4>2. CASE t = "Object"
        BY <2>4, <3>1, <4>2, CommAbove DEF Store, Step
      <4>3. QED
        BY <4>1, <4>2
    <3>3. "Object" \in g_alive' => "Object" \in seen'
      <4>1. CASE t = "Comm"
        BY <2>4, <3>1, <4>1 DEF Store, AliveInv
      <4>2. CASE t = "Object"
        BY <2>4, <4>2 DEF Store
      <4>3. QED
        BY <4>1, <4>2
    <3>4. QED
      BY <2>4, <3>1, <3>2, <3>3 DEF Store, AliveInv
  <2>5. CASE CheckGood
    <3>1. pc'["Comm"] = pc["Comm"] /\ pc["Comm"] # "store" /\ pc'["Default"] = "refresh"
      BY <2>0, <2>5, StepMoves, CommAbove DEF CheckGood, Step
    <3>2. QED
      BY <2>5, <3>1 DEF CheckGood, AliveInv
  <2>6. CASE CheckBad \/ Refresh
    BY <2>0, <2>6, StepMoves DEF CheckBad, Refresh, AliveInv
  <2>7. CASE Period
    BY <2>0, <2>7, PeriodMoves DEF Period, AliveInv
  <2>8. CASE Reset
    BY <2>8 DEF Reset, AliveInv
  <2>9. CASE UNCHANGED vars
    BY <2>9 DEF vars, AliveInv
  <2>10. QED
    BY <2>1, <2>e, <2>2, <2>3, <2>4, <2>5, <2>6, <2>7, <2>8, <2>9 DEF Next
<1>3. QED
  BY <1>1, <1>2, LabelInvariant, PTL DEF Spec

\* The default task refreshes the IWDG only after a pass of the Object task
\* since the last refresh, however the two accesses to g_alive interleave.
THEOREM RefreshVouched == Spec => []ObjectVouched
<1>1. AliveInv => ObjectVouched
  BY DEF AliveInv, ObjectVouched
<1>2. QED
  BY <1>1, AliveInvariant, PTL

----------------------------------------------------------------------------
(* How long the IWDG waits *)

\* Periods the longest stretch fills, and periods after which a check that finds
\* a bit missing can come at the latest.
LongStretch == IF BUSY_N = 0 THEN 1 ELSE BUSY_N
LongWait == IF LongStretch < RACES_N THEN RACES_N ELSE LongStretch

\* Both are at least what they stand for.
LEMMA LongBounds ==
    /\ LongStretch \in Nat /\ 1 <= LongStretch /\ BUSY_N <= LongStretch
    /\ LongWait \in Nat /\ LongStretch <= LongWait /\ RACES_N <= LongWait
  BY WatchdogAssumption DEF LongStretch, LongWait

\* Periods since the last refresh.
Used == IWDG_N - iwdg

\* A stretch began outside of the two instructions, and somebody works in it.
LongAlone == left > 0 =>
    /\ pc["Comm"] = "work" \/ pc["Event"] = "work"
    /\ pc["Object"] \in {"delay", "work", "load"} /\ pc["Default"] # "refresh"

\* A bad check comes within LongWait periods, and one stretch may follow it.
Waits ==
    /\ Used + left <= LongWait + LongStretch
    /\ pc["Default"] = "delay" => Used <= LongWait

\* The Object task's bit is missing only until its pass of this period ends.
ObjectMissing == "Object" \notin g_alive /\ pc["Default"] # "refresh" =>
    /\ Used + left <= LongStretch
    /\ Used > 0 => pc["Object"] # "delay" /\ "Object" \notin ran

\* The Comm task's bit is missing only if a pass was lost in every period.
CommMissing == "Comm" \notin g_alive /\ pc["Default"] # "refresh" /\ pc["Comm"] = "delay" =>
    Used <= races

\* The Object task holds a value without the Comm task's bit: the pass that will
\* be lost is counted when it begins.
CommLost == pc["Object"] = "store" /\ "Comm" \notin reg["Object"] /\ pc["Default"] # "refresh" =>
    /\ Used <= races
    /\ pc["Comm"] # "delay" /\ "Comm" \in ran => Used < races

TimeInv == Hung = {} => LongAlone /\ Waits /\ ObjectMissing /\ CommMissing /\ CommLost

\* Nobody hangs while both watched tasks are on their way through a pass.
LEMMA Passing ==
    LabelsOK => (Hung = {} <=> \A t \in Watched : pc[t] \in {"delay", "work", "load", "store"})
  BY TaskNames DEF Hung, LabelsOK

\* In every reachable state without a hang the time since the last refresh is
\* accounted for by a stretch before the check, or lost check-ins, and a stretch
\* after it.
THEOREM TimeInvariant == Spec => []TimeInv
<1> USE TaskNames
<1>1. Init => TimeInv
  BY WatchdogAssumption, LongBounds
     DEF Init, TimeInv, LongAlone, Waits, ObjectMissing, CommMissing, CommLost, Used
<1>2. TypeInv /\ TypeInv' /\ AliveInv /\ TimeInv /\ [Next]_vars => TimeInv'
  <2> SUFFICES ASSUME TypeInv, TypeInv', AliveInv, TimeInv, [Next]_vars, Hung' = {}
               PROVE  (LongAlone /\ Waits /\ ObjectMissing /\ CommMissing /\ CommLost)'
    BY DEF TimeInv
  <2>0. LabelsOK /\ LabelsOK' /\ TypeOK
    BY DEF TypeInv
  <2>n. /\ IWDG_N \in Nat /\ BUSY_N \in Nat /\ RACES_N \in Nat
        /\ iwdg \in Nat /\ left \in Nat /\ races \in Nat /\ races <= RACES_N /\ left <= BUSY_N
        /\ iwdg <= IWDG_N
    BY WatchdogAssumption DEF TypeInv, TypeOK
  <2>u. Used \in Nat
    BY <2>n DEF Used
  <2>p. \A t \in Watched : pc'[t] \in {"delay", "work", "load", "store"}
    BY <2>0, Passing DEF Hung, LabelsOK
  <2>1. CASE Reset
    BY <2>1, <2>n, LongBounds
       DEF Reset, LongAlone, Waits, ObjectMissing, CommMissing, CommLost, Used
  <2>2. ASSUME Hung = {}
        PROVE  /\ LongAlone /\ Waits /\ ObjectMissing /\ CommMissing /\ CommLost
               /\ \A t \in Watched : pc[t] \in {"delay", "work", "load", "store"}
    BY <2>0, <2>2, Passing DEF TimeInv
  <2>3. ASSUME NEW t \in Watched, Work(t) \/ Hang(t)
        PROVE  (LongAlone /\ Waits /\ ObjectMissing /\ CommMissing /\ CommLost)'
    <3>1. /\ pc[t] = "work" /\ pc'[t] = "load" /\ \A u \in Tasks \ {t} : pc'[u] = pc[u]
          /\ t = "Comm" => left = 0 \/ pc["Event"] = "work"
      BY <2>0, <2>3, <2>p, StepMoves DEF Work, Hang
    <3>2. Hung = {}
      BY <2>0, <2>p, <3>1, Passing
    <3>3. UNCHANGED <<g_alive, reg, left, iwdg, races, ran>>
      BY <2>3 DEF Work, Hang
    <3>4. t = "Object" => left = 0
      BY <2>2, <2>3, <2>n, <3>2, CommAbove DEF Work, Hang, Step, LongAlone
    <3>5. QED
      BY <2>2, <2>n, <3>1, <3>2, <3>3, <3>4
         DEF LongAlone, Waits, ObjectMissing, CommMissing, CommLost, Used
  <2>4. CASE CommWake
    <3>1. /\ pc["Comm"] = "delay" /\ pc'["Comm"] = "work"
          /\ pc'["Object"] = pc["Object"] /\ pc'["Default"] = pc["Default"]
      BY <2>0, <2>4, WakeMoves DEF CommWake
    <3>2. Hung = {}
      BY <2>0, <2>p, <3>1, Passing
    <3>3. UNCHANGED <<g_alive, reg, iwdg, ran>>
      BY <2>4 DEF CommWake
    <3>4. pc'["Event"] = pc["Event"]
      BY <2>0, <2>4, WakeMoves DEF CommWake
    <3>5. \/ left' = left
          \/ left = 0 /\ left' \in 0 .. BUSY_N /\ HadTurn
      BY <2>4 DEF CommWake, Stretch
    <3>6. LongAlone' /\ CommMissing'
      BY <2>2, <3>1, <3>2, <3>4, <3>5 DEF LongAlone, CommMissing, HadTurn
    <3>7. Waits'
      BY <2>2, <2>n, <2>u, <3>1, <3>2, <3>3, <3>5, LongBounds DEF Waits, Used, HadTurn
    <3>8. ObjectMissing'
      BY <2>2, <2>n, <2>u, <3>1, <3>2, <3>3, <3>5, LongBounds DEF ObjectMissing, Used, HadTurn
    <3>9. CommLost'
      <4>1. pc["Object"] = "store" => races' = races + 1
        BY <2>4 DEF CommWake, Lose
      <4>2. QED
        BY <2>2, <2>n, <2>u, <3>1, <3>2, <3>3, <4>1 DEF CommLost, Used
    <3>10. QED
      BY <3>6, <3>7, <3>8, <3>9
  <2>e. CASE EventWake
    <3>1. /\ pc["Event"] = "wait" /\ pc'["Event"] = "work"
          /\ \A t \in {"Comm", "Object", "Default"} : pc'[t] = pc[t]
      BY <2>0, <2>e, WakeMoves DEF EventWake
    <3>2. Hung = {}
      BY <2>0, <2>p, <3>1, Passing
    <3>3. UNCHANGED <<g_alive, reg, iwdg, races, ran>>
      BY <2>e DEF EventWake
    <3>4. \/ left' = left
          \/ left = 0 /\ left' \in 0 .. BUSY_N /\ HadTurn
      BY <2>e DEF EventWake, Stretch
    <3>5. LongAlone' /\ CommMissing' /\ CommLost'
      BY <2>2, <3>1, <3>2, <3>3, <3>4 DEF LongAlone, CommMissing, CommLost, HadTurn, Used
    <3>6. Waits'
      BY <2>2, <2>n, <2>u, <3>1, <3>2, <3>3, <3>4, LongBounds DEF Waits, Used, HadTurn
    <3>7. ObjectMissing'
      BY <2>2, <2>n, <2>u, <3>1, <3>2, <3>3, <3>4, LongBounds DEF ObjectMissing, Used, HadTurn
    <3>8. QED
      BY <3>5, <3>6, <3>7
  <2>d. CASE EventDone
    <3>1. \A t \in {"Comm", "Object", "Default"} : pc'[t] = pc[t]
      BY <2>0, <2>d, StepMoves DEF EventDone
    <3>2. Hung = {}
      BY <2>0, <2>p, <3>1, Passing
    <3>3. /\ UNCHANGED <<g_alive, reg, left, iwdg, races>> /\ ran' = ran \cup {"Event"}
          /\ left = 0 \/ pc["Comm"] = "work"
      BY <2>d DEF EventDone
    <3>4. QED
      BY <2>2, <2>n, <3>1, <3>2, <3>3
         DEF LongAlone, Waits, ObjectMissing, CommMissing, CommLost, Used
  <2>5. CASE ObjectWake
    <3>1. /\ pc["Object"] = "delay" /\ pc'["Object"] = "work"
          /\ pc'["Comm"] = pc["Comm"] /\ pc'["Default"] = pc["Default"]
          /\ pc'["Event"] = pc["Event"]
      BY <2>0, <2>5, WakeMoves DEF ObjectWake
    <3>2. Hung = {}
      BY <2>0, <2>p, <3>1, Passing
    <3>3. UNCHANGED <<g_alive, reg, left, iwdg, races, ran>>
      BY <2>5 DEF ObjectWake
    <3>4. QED
      BY <2>2, <3>1, <3>2, <3>3
         DEF LongAlone, Waits, ObjectMissing, CommMissing, CommLost, Used
  <2>6. ASSUME NEW t \in Watched, Load(t)
        PROVE  (LongAlone /\ Waits /\ ObjectMissing /\ CommMissing /\ CommLost)'
    <3>1. pc[t] = "load" /\ pc'[t] = "store" /\ \A u \in Tasks \ {t} : pc'[u] = pc[u]
      BY <2>0, <2>6, StepMoves DEF Load
    <3>2. Hung = {}
      BY <2>0, <2>p, <3>1, Passing
    <3>3. UNCHANGED <<g_alive, left, iwdg, races, ran>> /\ reg' = [reg EXCEPT ![t] = g_alive]
      BY <2>6 DEF Load
    <3>4. t = "Object" => left = 0
      BY <2>2, <2>6, <2>n, <3>1, <3>2, CommAbove DEF Load, Step, LongAlone
    <3>5. CASE t = "Comm"
      <4>1. reg'["Object"] = reg["Object"]
        BY <3>3, <3>5 DEF TypeOK
      <4>2. QED
        BY <2>2, <2>n, <3>1, <3>2, <3>3, <3>4, <3>5, <4>1
           DEF LongAlone, Waits, ObjectMissing, CommMissing, CommLost, Used
    <3>6. CASE t = "Object"
      <4>1. reg'["Object"] = g_alive
        BY <2>0, <3>3, <3>6 DEF TypeOK
      <4>2. pc["Comm"] = "delay"
        BY <2>2, <2>6, <3>2, <3>6, CommAbove DEF Load, Step
      <4>3. QED
        BY <2>2, <2>n, <3>1, <3>2, <3>3, <3>4, <3>6, <4>1, <4>2
           DEF LongAlone, Waits, ObjectMissing, CommMissing, CommLost, Used
    <3>7. QED
      BY <3>5, <3>6
  <2>7. ASSUME NEW t \in Watched, Store(t)
        PROVE  (LongAlone /\ Waits /\ ObjectMissing /\ CommMissing /\ CommLost)'
    <3>1. pc[t] = "store" /\ pc'[t] = "delay" /\ \A u \in Tasks \ {t} : pc'[u] = pc[u]
      BY <2>0, <2>7, StepMoves DEF Store
    <3>2. Hung = {}
      BY <2>0, <2>p, <3>1, Passing
    <3>3. /\ UNCHANGED <<left, iwdg, races>> /\ g_alive' = reg[t] \cup {t}
          /\ ran' = ran \cup {t} /\ reg' = [reg EXCEPT ![t] = {}]
      BY <2>7 DEF Store
    <3>4. t = "Object" => left = 0
      BY <2>2, <2>7, <2>n, <3>1, <3>2, CommAbove DEF Store, Step, LongAlone
    <3>5. CASE t = "Comm"
      <4>1. reg'["Object"] = reg["Object"] /\ g_alive' = g_alive \cup {"Comm"}
        BY <2>0, <3>1, <3>3, <3>5 DEF TypeOK, AliveInv
      <4>2. QED
        BY <2>2, <2>n, <3>1, <3>2, <3>3, <3>4, <3>5, <4>1
           DEF LongAlone, Waits, ObjectMissing, CommMissing, CommLost, Used
    <3>6. CASE t = "Object"
      BY <2>2, <2>n, <3>1, <3>2, <3>3, <3>4, <3>6
         DEF LongAlone, Waits, ObjectMissing, CommMissing, CommLost, Used
    <3>7. QED
      BY <3>5, <3>6
  <2>8. CASE CheckGood \/ CheckBad \/ Refresh
    <3>1. /\ pc["Default"] # "delay"
          /\ pc'["Object"] = pc["Object"] /\ pc'["Comm"] = pc["Comm"]
      BY <2>0, <2>8, StepMoves DEF CheckGood, CheckBad, Refresh
    <3>2. Hung = {}
      BY <2>0, <2>p, <3>1, Passing
    <3>3. pc["Comm"] = "delay" /\ left = 0
      <4>1. pc["Comm"] = "delay"
        BY <2>2, <2>8, <3>2, CommAbove DEF CheckGood, CheckBad, Refresh, Step
      <4>2. pc["Event"] # "work"
        BY <2>8, CommAbove DEF CheckGood, CheckBad, Refresh, Step
      <4>3. QED
        BY <2>2, <2>n, <3>2, <4>1, <4>2 DEF LongAlone
    <3>4. UNCHANGED <<reg, left, ran>>
      BY <2>8 DEF CheckGood, CheckBad, Refresh
    <3>5. CASE CheckGood
      <4>1. pc'["Default"] = "refresh" /\ UNCHANGED iwdg
        BY <2>0, <3>5, StepMoves DEF CheckGood
      <4>2. QED
        BY <2>2, <2>n, <3>1, <3>2, <3>3, <3>4, <4>1
           DEF LongAlone, Waits, ObjectMissing, CommMissing, CommLost, Used
    <3>6. CASE CheckBad
      <4>1. /\ pc["Default"] = "check" /\ pc'["Default"] = "delay"
            /\ UNCHANGED <<g_alive, iwdg, races>> /\ g_alive # Watched
        BY <2>0, <3>6, StepMoves DEF CheckBad
      <4>2. "Object" \notin g_alive \/ "Comm" \notin g_alive
        BY <2>0, <4>1 DEF TypeOK
      <4>3. Used <= LongWait
        BY <2>2, <2>n, <2>u, <3>2, <3>3, <4>1, <4>2, LongBounds DEF ObjectMissing, CommMissing
      <4>4. QED
        BY <2>2, <2>n, <3>1, <3>2, <3>3, <3>4, <4>1, <4>3
           DEF LongAlone, Waits, ObjectMissing, CommMissing, CommLost, Used
    <3>7. CASE Refresh
      <4>1. iwdg' = IWDG_N /\ races' = 0
        BY <3>7 DEF Refresh
      <4>2. QED
        BY <2>n, <3>1, <3>3, <3>4, <4>1, LongBounds
           DEF LongAlone, Waits, ObjectMissing, CommMissing, CommLost, Used
    <3>8. QED
      BY <2>8, <3>5, <3>6, <3>7
  <2>9. CASE Period
    <3>1. /\ \A t \in Watched : pc'[t] = IF pc[t] = "delay" THEN "work" ELSE pc[t]
          /\ pc'["Default"] = IF pc["Default"] = "delay" THEN "check" ELSE pc["Default"]
          /\ pc'["Event"] = pc["Event"]
      BY <2>0, <2>9, PeriodMoves
    <3>2. \A t \in Watched : pc[t] \in {"delay", "work", "load", "store"}
      BY <2>p, <3>1
    <3>3. Hung = {}
      BY <2>0, <3>2, Passing
    <3>4. iwdg' = iwdg - 1 /\ ran' = {} /\ UNCHANGED <<g_alive, reg>>
      BY <2>9 DEF Period
    <3>5. Used' = Used + 1
      BY <2>n, <3>4 DEF Used
    <3>6. CASE left > 0
      <4>1. /\ pc["Comm"] = "work" \/ pc["Event"] = "work"
            /\ pc["Object"] \in {"delay", "work", "load"} /\ pc["Default"] # "refresh"
        BY <2>2, <3>3, <3>6 DEF LongAlone
      <4>2. left' = left - 1
        BY <2>9, <3>6 DEF Period
      <4>3. LongAlone' /\ CommMissing' /\ CommLost'
        BY <3>1, <4>1 DEF LongAlone, CommMissing, CommLost
      <4>4. Waits'
        BY <2>2, <2>n, <2>u, <3>1, <3>3, <3>5, <4>2 DEF Waits
      <4>5. ObjectMissing'
        BY <2>2, <2>n, <2>u, <3>1, <3>3, <3>4, <3>5, <4>1, <4>2 DEF ObjectMissing
      <4>6. QED
        BY <4>3, <4>4, <4>5
    <3>7. CASE ~(left > 0)
      <4>1. left = 0 /\ left' = 0
        BY <2>9, <2>n, <3>7 DEF Period
      <4>2. pc["Default"] = "delay" /\ "Comm" \in ran /\ "Object" \in ran
        BY <2>9, <3>2, <3>3, <3>7 DEF Period, Occupied
      <4>3. LongAlone'
        BY <4>1 DEF LongAlone
      <4>4. Waits'
        BY <2>2, <2>n, <2>u, <3>1, <3>3, <3>5, <4>1, <4>2, LongBounds DEF Waits
      <4>5. ObjectMissing'
        BY <2>2, <2>n, <2>u, <3>1, <3>3, <3>4, <3>5, <4>1, <4>2, LongBounds DEF ObjectMissing
      <4>6. CommMissing'
        BY <3>1 DEF CommMissing
      <4>7. CommLost'
        <5>1. pc["Comm"] = "delay" /\ pc["Object"] = "store" => races' = races + 1
          BY <2>9 DEF Period, Lose
        <5>2. pc["Comm"] # "delay" => races' = races
          BY <2>9 DEF Period
        <5>3. QED
          BY <2>2, <2>n, <2>u, <3>1, <3>3, <3>4, <3>5, <4>2, <5>1, <5>2 DEF CommLost
      <4>8. QED
        BY <4>3, <4>4, <4>5, <4>6, <4>7
    <3>8. QED
      BY <3>6, <3>7
  <2>10. CASE UNCHANGED vars
    <3>1. Hung = {}
      BY <2>10 DEF vars, Hung
    <3>2. QED
      BY <2>2, <2>10, <3>1 DEF vars, LongAlone, Waits, ObjectMissing, CommMissing, CommLost, Used
  <2>11. QED
    BY <2>1, <2>3, <2>4, <2>e, <2>d, <2>5, <2>6, <2>7, <2>8, <2>9, <2>10 DEF Next
<1>3. QED
  BY <1>1, <1>2, LabelInvariant, AliveInvariant, PTL DEF Spec

\* The IWDG never resets a board on which nobody hangs, if it grants more than a
\* stretch of the tasks above before a bad check (or as many periods as passes
\* may be lost) and a stretch after it: with 16 periods, 7 and 1, it does.
THEOREM ResetOnlyOnHang ==
    ASSUME LongWait + LongStretch < IWDG_N
    PROVE  Spec => []NoFalseReset
<1>1. TypeInv /\ TimeInv => NoFalseReset
  BY WatchdogAssumption, LongBounds DEF TypeInv, TypeOK, TimeInv, Waits, Used, NoFalseReset
<1>2. QED
  BY <1>1, LabelInvariant, TimeInvariant, PTL

----------------------------------------------------------------------------
(* How long a hang can last *)

\* Periods until the reset if the Object task never ends a pass again: what the
\* IWDG has left, a refresh that was decided, and one its bit still allows.
Grace ==
    iwdg + (IF pc["Default"] = "refresh" THEN IWDG_N ELSE 0)
         + (IF "Object" \in seen THEN IWDG_N ELSE 0)

\* What a step of each kind does while the Object task hangs.
LEMMA GraceStep ==
    ASSUME TypeInv, AliveInv, [Next]_vars, "Object" \in Hung, ~Reset
    PROVE  /\ "Object" \in Hung'
           /\ Grace <= 3 * IWDG_N
           /\ Grace' <= Grace
           /\ Period => Grace' < Grace
<1> USE TaskNames, WatchdogAssumption
<1>0. /\ LabelsOK /\ TypeOK
      /\ pc["Object"] \in {"blocked", "spin"}
      /\ iwdg \in Nat /\ iwdg <= IWDG_N
  BY DEF TypeInv, TypeOK, Hung
<1>1. Grace <= 3 * IWDG_N
  BY <1>0 DEF Grace
<1> DEFINE Good == "Object" \in Hung' /\ Grace' <= Grace /\ (Period => Grace' < Grace)
<1>2. CASE Period
  <2>1. pc'["Object"] = pc["Object"] /\ (pc'["Default"] = "refresh" <=> pc["Default"] = "refresh")
    BY <1>0, <1>2, PeriodMoves
  <2>2. iwdg' = iwdg - 1 /\ seen' = seen
    BY <1>2 DEF Period
  <2>3. "Object" \in Hung'
    BY <1>0, <2>1 DEF Hung
  <2>4. Grace' = Grace - 1 /\ Grace \in Nat
    BY <1>0, <2>1, <2>2 DEF Grace
  <2> QED
    BY <1>1, <2>3, <2>4
<1>3. ASSUME pc'["Object"] = pc["Object"], ~Period,
             \/ /\ iwdg' = iwdg /\ ("Object" \in seen' <=> "Object" \in seen)
                /\ pc'["Default"] = "refresh" <=> pc["Default"] = "refresh"
             \/ /\ iwdg' = iwdg /\ "Object" \in seen /\ "Object" \notin seen'
                /\ pc["Default"] # "refresh" /\ pc'["Default"] = "refresh"
             \/ /\ iwdg' = IWDG_N /\ seen' = seen
                /\ pc["Default"] = "refresh" /\ pc'["Default"] # "refresh"
      PROVE  Good
  <2>1. "Object" \in Hung'
    BY <1>0, <1>3 DEF Hung
  <2>2. Grace' <= Grace
    BY <1>0, <1>3 DEF Grace
  <2> QED
    BY <1>3, <2>1, <2>2
<1>a. Period => Good
  BY <1>2 DEF Good
<1> HIDE DEF Good
<1>4. ASSUME ~Period PROVE Good
  <2>1. CASE CommWake \/ ObjectWake \/ EventWake \/ EventDone
    <3>1. pc'["Object"] = pc["Object"] /\ pc'["Default"] = pc["Default"]
      BY <1>0, <2>1, StepMoves, WakeMoves DEF CommWake, ObjectWake, EventWake, EventDone
    <3> QED
      BY <1>3, <1>4, <2>1, <3>1 DEF CommWake, ObjectWake, EventWake, EventDone
  <2>2. ASSUME NEW t \in Watched, Work(t) \/ Hang(t) \/ Load(t) \/ Store(t)
        PROVE  Good
    <3>1. t = "Comm" /\ pc'["Object"] = pc["Object"] /\ pc'["Default"] = pc["Default"]
      BY <1>0, <2>2, StepMoves DEF Work, Hang, Load, Store
    <3> QED
      BY <1>3, <1>4, <2>2, <3>1 DEF Work, Hang, Load, Store
  <2>3. CASE CheckGood
    <3>1. pc'["Object"] = pc["Object"] /\ pc["Default"] # "refresh" /\ pc'["Default"] = "refresh"
      BY <1>0, <2>3, StepMoves DEF CheckGood
    <3>2. "Object" \in seen
      BY <2>3 DEF CheckGood, AliveInv
    <3> QED
      BY <1>3, <1>4, <2>3, <3>1, <3>2 DEF CheckGood
  <2>4. CASE CheckBad
    <3>1. pc'["Object"] = pc["Object"] /\ pc["Default"] # "refresh" /\ pc'["Default"] # "refresh"
      BY <1>0, <2>4, StepMoves DEF CheckBad
    <3> QED
      BY <1>3, <1>4, <2>4, <3>1 DEF CheckBad
  <2>5. CASE Refresh
    <3>1. pc'["Object"] = pc["Object"] /\ pc["Default"] = "refresh" /\ pc'["Default"] # "refresh"
      BY <1>0, <2>5, StepMoves DEF Refresh
    <3> QED
      BY <1>3, <1>4, <2>5, <3>1 DEF Refresh
  <2>6. CASE UNCHANGED vars
    BY <1>3, <1>4, <2>6 DEF vars
  <2> QED
    BY <1>4, <2>1, <2>2, <2>3, <2>4, <2>5, <2>6, Zenon DEF Next
<1> QED
  BY <1>1, <1>a, <1>4 DEF Good

\* A hung Object task is noticed: until the reset it stays hung, and whatever
\* the Comm task does with its load and store of g_alive, the periods left to
\* the reset, at most three times what the IWDG grants, never grow again and
\* are fewer after each period.
THEOREM HangIsFinal ==
    Spec => [][("Object" \in Hung) /\ ~Reset =>
                   /\ "Object" \in Hung'
                   /\ Grace <= 3 * IWDG_N /\ Grace' <= Grace
                   /\ Period => Grace' < Grace]_vars
<1>1. TypeInv /\ AliveInv /\ [Next]_vars =>
          [("Object" \in Hung) /\ ~Reset =>
              /\ "Object" \in Hung'
              /\ Grace <= 3 * IWDG_N /\ Grace' <= Grace
              /\ Period => Grace' < Grace]_vars
  BY GraceStep
<1>2. QED
  BY <1>1, LabelInvariant, AliveInvariant, PTL DEF Spec

\* A Comm task that spins keeps the CPU from the default task: nothing refreshes
\* the IWDG any more, and each period brings the reset one period nearer.
THEOREM SpinIsFinal ==
    Spec => [][pc["Comm"] = "spin" /\ ~Reset =>
                   /\ pc'["Comm"] = "spin"
                   /\ iwdg' <= iwdg
                   /\ Period => iwdg' < iwdg]_vars
<1> USE TaskNames, WatchdogAssumption
<1>1. ASSUME TypeInv, [Next]_vars, pc["Comm"] = "spin", ~Reset
      PROVE  pc'["Comm"] = "spin" /\ iwdg' <= iwdg /\ (Period => iwdg' < iwdg)
  <2>0. LabelsOK /\ iwdg \in Nat
    BY <1>1 DEF TypeInv, TypeOK
  <2>a. Period => iwdg' < iwdg
    BY <2>0 DEF Period
  <2>1. ASSUME NEW t \in {"Object", "Default"}, Runs(t) PROVE FALSE
    BY <1>1, <2>1, CommAbove
  <2>2. CASE CommWake \/ ObjectWake \/ EventWake \/ EventDone
    <3>1. pc'["Comm"] = "spin" /\ iwdg' = iwdg
      BY <1>1, <2>0, <2>2, StepMoves, WakeMoves DEF CommWake, ObjectWake, EventWake, EventDone
    <3> QED
      BY <2>0, <2>a, <3>1
  <2>3. ASSUME NEW t \in Watched, Work(t) \/ Hang(t) \/ Load(t) \/ Store(t) PROVE FALSE
    <3>1. pc[t] # "spin" /\ Runs(t)
      BY <2>0, <2>3 DEF Work, Hang, Load, Store, Step
    <3> QED
      BY <1>1, <2>1, <3>1
  <2>4. CASE CheckGood \/ CheckBad \/ Refresh
    BY <2>1, <2>4 DEF CheckGood, CheckBad, Refresh, Step
  <2>5. CASE Period
    BY <1>1, <2>0, <2>5, PeriodMoves DEF Period
  <2>6. CASE UNCHANGED vars
    BY <1>1, <2>0, <2>a, <2>6 DEF vars
  <2> QED
    BY <1>1, <2>2, <2>3, <2>4, <2>5, <2>6 DEF Next
<1>2. TypeInv /\ [Next]_vars =>
          [pc["Comm"] = "spin" /\ ~Reset =>
              /\ pc'["Comm"] = "spin"
              /\ iwdg' <= iwdg
              /\ Period => iwdg' < iwdg]_vars
  BY <1>1
<1> QED
  BY <1>2, LabelInvariant, PTL DEF Spec
=============================================================================
