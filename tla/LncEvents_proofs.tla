-------------------------- MODULE LncEvents_proofs --------------------------
(***************************************************************************)
(* Proofs about LncEvents for every capacity of the queue, every detection *)
(* period and every set of inputs.                                         *)
(***************************************************************************)
EXTENDS LncEvents, TLAPS

\* The labels that matter to the kernel, spelled out.
LEMMA SectionLabels ==
    /\ Sections = {"persist", "query", "read", "append", "mount", "log",
                   "handle", "apply", "snap", "eval", "status",
                   "print", "enter", "send", "say", "banner", "show"}
    /\ \A s \in Sections : MutexOf[s] \in Mutexes
    /\ Nobody \notin Tasks
  BY DEF Sections, MutexOf, Mutexes, Nobody, Tasks

\* A step of a task keeps every task at its labels and the mutexes in order.
LEMMA StepKernel ==
    ASSUME NEW t \in Tasks, NEW at, NEW next \in Labels[t], KernelOK, Step(t, at, next)
    PROVE  KernelOK'
<1>1. pc' = [pc EXCEPT ![t] = next] /\ pc[t] = at
  BY DEF Step
<1>2. pc' \in [Tasks -> UNION {Labels[u] : u \in Tasks}] /\ \A u \in Tasks : pc'[u] \in Labels[u]
  BY <1>1 DEF KernelOK
<1>3. owner' \in [Mutexes -> Tasks \cup {Nobody}]
  BY SectionLabels DEF KernelOK, Step
<1>4. ASSUME NEW m \in Mutexes, NEW u \in Tasks, owner'[m] = u
      PROVE  pc'[u] \in Sections /\ MutexOf[pc'[u]] = m
  <2>1. owner[m] = u
    BY <1>4, SectionLabels DEF KernelOK, Step
  <2>2. pc[u] \in Sections /\ MutexOf[pc[u]] = m
    BY <2>1 DEF KernelOK
  <2>3. u # t
    BY <1>1, <1>4, <2>1, <2>2, SectionLabels DEF KernelOK, Step
  <2>4. QED
    BY <1>1, <2>2, <2>3 DEF KernelOK
<1>5. QED
  BY <1>2, <1>3, <1>4 DEF KernelOK

\* A step or a wake-up of one task leaves the others where they are.
LEMMA StepElse ==
    ASSUME NEW t \in Tasks, NEW at, NEW next, KernelOK,
           Step(t, at, next) \/ Wake(t, at, next), NEW u \in Tasks \ {t}
    PROVE  pc'[u] = pc[u]
  BY DEF Step, Wake, KernelOK

\* Taking a mutex keeps it in order that owners are inside their sections.
LEMMA LockKernel ==
    ASSUME NEW t \in Tasks, KernelOK, Lock(t)
    PROVE  KernelOK'
<1>1. owner' = [owner EXCEPT ![MutexOf[pc[t]]] = t] /\ pc' = pc
  BY DEF Lock
<1>2. owner' \in [Mutexes -> Tasks \cup {Nobody}]
  BY <1>1 DEF KernelOK
<1>3. ASSUME NEW m \in Mutexes, NEW u \in Tasks, owner'[m] = u
      PROVE  pc'[u] \in Sections /\ MutexOf[pc'[u]] = m
  BY <1>1, <1>3 DEF KernelOK, Lock
<1>4. QED
  BY <1>1, <1>2, <1>3 DEF KernelOK

\* The end of a delay keeps every task at its labels and the mutexes in order.
LEMMA WakeKernel ==
    ASSUME NEW t \in Tasks, NEW next \in Labels[t], KernelOK, Wake(t, "delay", next)
    PROVE  KernelOK'
<1>1. pc' = [pc EXCEPT ![t] = next] /\ pc[t] = "delay" /\ owner' = owner
  BY DEF Wake
<1>2. pc' \in [Tasks -> UNION {Labels[u] : u \in Tasks}] /\ \A u \in Tasks : pc'[u] \in Labels[u]
  BY <1>1 DEF KernelOK
<1>3. ASSUME NEW m \in Mutexes, NEW u \in Tasks, owner'[m] = u
      PROVE  pc'[u] \in Sections /\ MutexOf[pc'[u]] = m
  BY <1>1, <1>3, SectionLabels DEF KernelOK
<1>4. QED
  BY <1>1, <1>2, <1>3 DEF KernelOK

----------------------------------------------------------------------------
(* What the fixed priorities guarantee *)

\* The priorities of the tasks lnc_app_start creates.
LEMMA Priorities ==
    Priority["Comm"] = 3 /\ Priority["Event"] = 3 /\ Priority["Object"] = 2 /\ Priority["Monitor"] = 1
  BY DEF Priority

\* A task that holds no mutex runs at its own priority.
LEMMA OwnUrgency ==
    ASSUME KernelOK, NEW t \in Tasks, pc[t] \notin Sections
    PROVE  Urgency(t) = {Priority[t]}
<1>1. \A m \in Mutexes : owner[m] # t
  BY DEF KernelOK
<1>2. \A v \in Tasks : Blocked(v) => owner[MutexOf[pc[v]]] # t
  BY <1>1, SectionLabels DEF Blocked
<1>3. QED
  BY <1>2 DEF Urgency

\* The owner of a mutex somebody waits for is ready and has inherited the
\* waiting task's priority: LOCKs are not nested.
LEMMA OwnerInherits ==
    ASSUME KernelOK, NEW v \in Tasks, Blocked(v)
    PROVE  \E u \in Tasks : Ready(u) /\ Priority[v] \in Urgency(u)
<1> DEFINE m == MutexOf[pc[v]]
           u == owner[m]
<1>1. m \in Mutexes /\ u \in Tasks /\ u # v
  BY SectionLabels DEF Blocked, KernelOK
<1>2. pc[u] \in Sections /\ MutexOf[pc[u]] = m
  BY <1>1 DEF KernelOK
<1>3. Ready(u)
  BY <1>1, <1>2, SectionLabels DEF Ready, Blocked, Asleep
<1>4. Priority[v] \in Urgency(u)
  BY <1>1 DEF Urgency
<1>5. QED
  BY <1>1, <1>3, <1>4

\* While a task that holds no mutex runs, every task of a higher priority is
\* asleep: not ready, and not blocked either.
LEMMA HigherAsleep ==
    ASSUME KernelOK, NEW t \in Tasks, pc[t] \notin Sections, Runs(t),
           NEW v \in Tasks, Priority[t] < Priority[v]
    PROVE  v \in Asleep
<1>1. Urgency(t) = {Priority[t]}
  BY OwnUrgency
<1>2. \A u \in Tasks : Ready(u) => \A p \in Urgency(u) : p <= Priority[t]
  BY <1>1 DEF Runs
<1>3. Priority[t] \in Nat /\ Priority[v] \in Nat
  BY Priorities DEF Tasks
<1>4. ~Ready(v)
  <2>1. Priority[v] \in Urgency(v)
    BY DEF Urgency
  <2>2. QED
    BY <1>2, <1>3, <2>1
<1>5. ~Blocked(v)
  BY <1>2, <1>3, OwnerInherits
<1>6. QED
  BY <1>4, <1>5 DEF Ready

\* When the Object or the Monitor task runs outside a section, the Event task
\* waits on an empty queue and the Comm task sleeps.
LEMMA PosterAlone ==
    ASSUME KernelOK, NEW t \in {"Object", "Monitor"}, pc[t] \notin Sections, Runs(t)
    PROVE  pc["Event"] = "get" /\ evq = <<>> /\ pc["Comm"] = "delay"
<1>1. "Event" \in Asleep /\ "Comm" \in Asleep
  BY HigherAsleep, Priorities DEF Tasks
<1>2. pc["Event"] # "delay" /\ pc["Comm"] # "get"
  BY DEF KernelOK, Labels, Tasks
<1>3. QED
  BY <1>1, <1>2 DEF Asleep

\* Whatever the priorities leave runnable, a poster finds the queue empty.
LEMMA KernelDropsNothing == KernelOK => SignalNeverDropped
  BY PosterAlone, SectionLabels DEF SignalNeverDropped

\* Owners of mutexes are ready, so somebody can run or everybody is idle.
LEMMA KernelNoDeadlock == KernelOK => NoDeadlock
<1> SUFFICES ASSUME KernelOK, \A t \in Tasks : ~Ready(t)
             PROVE  Asleep = Tasks
  BY DEF NoDeadlock
<1>1. \A t \in Tasks : ~Blocked(t)
  BY OwnerInherits
<1>2. QED
  BY <1>1 DEF Ready, Asleep

----------------------------------------------------------------------------
(* Type correctness *)

\* What the tasks post are events.
LEMMA EventTypes ==
    /\ Startup \in Events /\ ConfigChanged \in Events
    /\ \A f, g \in Modes : Transition(f, g) \in Events
    /\ \A d \in BOOLEAN : Detection(d) \in Events
  BY DEF Events, Signals, Transitions, Detections

\* ev_post keeps the queue within its capacity.
LEMMA PostTypes ==
    ASSUME NEW e \in Events, TypeOK, Post(e)
    PROVE  evq' \in Seq(Events) /\ Len(evq') <= EVQ_N
  BY BoundsAssumption DEF TypeOK, Post

\* event_decide gives a colour the LED has.
LEMMA LedTypes ==
    ASSUME NEW e \in Events, led \in {"GREEN", "YELLOW", "RED", "DIAG"}
    PROVE  LedAfter(e, led) \in {"GREEN", "YELLOW", "RED", "DIAG"}
  BY DEF LedAfter, ModeLed, Events, Signals, Transitions, Detections, Transition, Detection,
         ConfigChanged, Startup, Modes

\* A step that touches only the button and the buzzer.
LEMMA OutputTypes ==
    ASSUME TypeOK, KernelOK', pc'["Monitor"] = pc["Monitor"],
           UNCHANGED <<monitor, sPresent, sub, events, led, comm>>,
           button' \in BOOLEAN, buzzer' \in BOOLEAN, pwmBusy' \in BOOLEAN
    PROVE  TypeOK'
<1>1. /\ sample' = sample /\ sPrev' = sPrev /\ from' = from
      /\ sPresent' = sPresent /\ sub' = sub /\ evq' = evq /\ hand' = hand /\ led' = led
      /\ protocol' = protocol /\ logging' = logging /\ parser' = parser
  BY DEF monitor, events, comm
<1>2. /\ sample' \in Modes \cup {Unset} /\ sPrev' \in Modes \cup {Unset} /\ from' \in Modes \cup {Unset}
      /\ pc'["Monitor"] \in {"log", "step"} => sample' \in Modes
      /\ pc'["Monitor"] = "post" => from' \in Modes /\ sPrev' \in Modes
  BY <1>1 DEF TypeOK
<1>3. evq' \in Seq(Events) /\ Len(evq') <= EVQ_N /\ hand' \in Events
  BY <1>1 DEF TypeOK
<1>4. /\ sPresent' \in BOOLEAN /\ sub' \in 0 .. DetectEvery - 1
      /\ led' \in {"GREEN", "YELLOW", "RED", "DIAG"}
      /\ protocol' \in BOOLEAN /\ logging' \in BOOLEAN /\ parser' \in {"console", "binary"}
  BY <1>1 DEF TypeOK
<1> QED
  BY <1>2, <1>3, <1>4 DEF TypeOK

\* Every reachable state of the event path is well typed, the queue is within
\* its capacity, and every mutex is held only by a task inside its section.
THEOREM TypeInvariant == Spec => []TypeOK
<1>1. Init => TypeOK
  <2> SUFFICES ASSUME Init PROVE TypeOK
    OBVIOUS
  <2>1. KernelOK
    BY SectionLabels DEF Init, KernelOK, Labels, Tasks
  <2>2. sub \in 0 .. DetectEvery - 1
    BY BoundsAssumption DEF Init
  <2>3. evq \in Seq(Events) /\ Len(evq) <= EVQ_N
    BY BoundsAssumption DEF Init
  <2>4. QED
    BY <2>1, <2>2, <2>3, EventTypes DEF Init, TypeOK
<1>2. TypeOK /\ [Next]_vars => TypeOK'
  <2> SUFFICES ASSUME TypeOK, [Next]_vars PROVE TypeOK'
    OBVIOUS
  <2> USE DEF monitor, object, events, panel, comm, kernel
  <2>1. CASE ButtonIsr
    BY <2>1, BoundsAssumption DEF ButtonIsr, TypeOK, KernelOK
  <2>2. CASE ObjectWake
    <3>1. KernelOK'
      BY <2>2, WakeKernel DEF ObjectWake, TypeOK, Labels, Tasks
    <3>2. pc'["Monitor"] = pc["Monitor"]
      BY <2>2, StepElse DEF ObjectWake, TypeOK, Tasks
    <3>3. QED
      BY <2>2, <3>1, <3>2 DEF TypeOK, ObjectWake
  <2>3. CASE MonitorWake
    <3>1. KernelOK'
      BY <2>3, WakeKernel DEF MonitorWake, TypeOK, Labels, Tasks
    <3>2. QED
      BY <2>3, <3>1 DEF TypeOK, MonitorWake, KernelOK, Wake
  <2>4. CASE CommWake
    <3>1. KernelOK'
      BY <2>4, WakeKernel DEF CommWake, TypeOK, Labels, Tasks
    <3>2. pc'["Monitor"] = pc["Monitor"]
      BY <2>4, StepElse DEF CommWake, TypeOK, Tasks
    <3>3. QED
      BY <2>4, <3>1, <3>2 DEF TypeOK, CommWake
  <2>5. CASE ObjectReadButton
    <3>1. KernelOK'
      BY <2>5, StepKernel DEF ObjectReadButton, TypeOK, Labels, Tasks
    <3>2. pc'["Monitor"] = pc["Monitor"]
      BY <2>5, StepElse DEF ObjectReadButton, TypeOK, Tasks
    <3>3. QED
      BY <2>5, <3>1, <3>2 DEF TypeOK, ObjectReadButton
  <2>6. CASE ObjectClearButton
    <3>1. KernelOK'
      BY <2>6, StepKernel DEF ObjectClearButton, TypeOK, Labels, Tasks
    <3>2. pc'["Monitor"] = pc["Monitor"]
      BY <2>6, StepElse DEF ObjectClearButton, TypeOK, Tasks
    <3>3. /\ UNCHANGED <<monitor, sPresent, sub, events, led, comm>>
          /\ button' \in BOOLEAN /\ buzzer' \in BOOLEAN /\ pwmBusy' \in BOOLEAN
      BY <2>6 DEF ObjectClearButton, TypeOK
    <3>4. QED
      BY <3>1, <3>2, <3>3, OutputTypes
  <2>7. CASE ObjectStopBuzzer
    <3>1. KernelOK'
      BY <2>7, StepKernel DEF ObjectStopBuzzer, TypeOK, Labels, Tasks
    <3>2. pc'["Monitor"] = pc["Monitor"]
      BY <2>7, StepElse DEF ObjectStopBuzzer, TypeOK, Tasks
    <3>3. /\ UNCHANGED <<monitor, sPresent, sub, events, led, comm>>
          /\ button' \in BOOLEAN /\ buzzer' \in BOOLEAN /\ pwmBusy' \in BOOLEAN
      BY <2>7 DEF ObjectStopBuzzer, TypeOK
    <3>4. QED
      BY <3>1, <3>2, <3>3, OutputTypes
  <2>8. CASE ObjectStopDone
    <3>1. KernelOK'
      BY <2>8, StepKernel DEF ObjectStopDone, TypeOK, Labels, Tasks
    <3>2. pc'["Monitor"] = pc["Monitor"]
      BY <2>8, StepElse DEF ObjectStopDone, TypeOK, Tasks
    <3>3. /\ UNCHANGED <<monitor, sPresent, sub, events, led, comm>>
          /\ button' \in BOOLEAN /\ buzzer' \in BOOLEAN /\ pwmBusy' \in BOOLEAN
      BY <2>8 DEF ObjectStopDone, TypeOK
    <3>4. QED
      BY <3>1, <3>2, <3>3, OutputTypes
  <2>9. CASE ObjectQuiet
    <3>1. KernelOK'
      BY <2>9, StepKernel DEF ObjectQuiet, TypeOK, Labels, Tasks
    <3>2. pc'["Monitor"] = pc["Monitor"]
      BY <2>9, StepElse DEF ObjectQuiet, TypeOK, Tasks
    <3>3. QED
      BY <2>9, <3>1, BoundsAssumption, <3>2 DEF TypeOK, ObjectQuiet
  <2>10. CASE ObjectChanged
    <3>1. KernelOK'
      BY <2>10, StepKernel DEF ObjectChanged, TypeOK, Labels, Tasks
    <3>2. pc'["Monitor"] = pc["Monitor"]
      BY <2>10, StepElse DEF ObjectChanged, TypeOK, Tasks
    <3>3. QED
      BY <2>10, <3>1, BoundsAssumption, <3>2 DEF TypeOK, ObjectChanged
  <2>11. CASE ObjectPost
    <3>1. KernelOK'
      BY <2>11, StepKernel DEF ObjectPost, TypeOK, Labels, Tasks
    <3>2. pc'["Monitor"] = pc["Monitor"]
      BY <2>11, StepElse DEF ObjectPost, TypeOK, Tasks
    <3>3. QED
      BY <2>11, <3>1, PostTypes, EventTypes, <3>2 DEF TypeOK, ObjectPost
  <2>12. CASE MonitorMount
    <3>1. KernelOK'
      BY <2>12, StepKernel DEF MonitorMount, TypeOK, Labels, Tasks
    <3>2. QED
      BY <2>12, <3>1 DEF TypeOK, MonitorMount, KernelOK, Step
  <2>13. CASE MonitorStartup
    <3>1. KernelOK'
      BY <2>13, StepKernel DEF MonitorStartup, TypeOK, Labels, Tasks
    <3>2. QED
      BY <2>13, <3>1, PostTypes, EventTypes DEF TypeOK, MonitorStartup, KernelOK, Step
  <2>14. CASE MonitorEvaluate
    <3>1. KernelOK'
      BY <2>14, StepKernel DEF MonitorEvaluate, TypeOK, Labels, Tasks
    <3>2. QED
      BY <2>14, <3>1, ModesAssumption DEF TypeOK, MonitorEvaluate, KernelOK, Step
  <2>15. CASE MonitorSame
    <3>1. KernelOK'
      BY <2>15, StepKernel DEF MonitorSame, TypeOK, Labels, Tasks
    <3>2. QED
      BY <2>15, <3>1 DEF TypeOK, MonitorSame, KernelOK, Step
  <2>16. CASE MonitorChanged
    <3>1. KernelOK'
      BY <2>16, StepKernel DEF MonitorChanged, TypeOK, Labels, Tasks
    <3>2. QED
      BY <2>16, <3>1 DEF TypeOK, MonitorChanged, KernelOK, Step
  <2>17. CASE MonitorPost
    <3>1. KernelOK'
      BY <2>17, StepKernel DEF MonitorPost, TypeOK, Labels, Tasks
    <3>2. QED
      BY <2>17, <3>1, PostTypes, EventTypes DEF TypeOK, MonitorPost, KernelOK, Step
  <2>18. CASE MonitorTell
    <3>1. KernelOK'
      BY <2>18, StepKernel DEF MonitorTell, TypeOK, Labels, Tasks
    <3>2. QED
      BY <2>18, <3>1 DEF TypeOK, MonitorTell, KernelOK, Step
  <2>19. CASE EventGet
    <3>1. KernelOK'
      BY <2>19, StepKernel DEF EventGet, TypeOK, Labels, Tasks
    <3>2. pc'["Monitor"] = pc["Monitor"]
      BY <2>19, StepElse DEF EventGet, TypeOK, Tasks
    <3>3. Head(evq) \in Events /\ Tail(evq) \in Seq(Events) /\ Len(Tail(evq)) <= EVQ_N
      BY <2>19, BoundsAssumption DEF EventGet, TypeOK
    <3>4. QED
      BY <2>19, <3>1, <3>2, <3>3 DEF EventGet, TypeOK
  <2>20. CASE EventLed
    <3>1. KernelOK'
      BY <2>20, StepKernel DEF EventLed, TypeOK, Labels, Tasks
    <3>2. pc'["Monitor"] = pc["Monitor"]
      BY <2>20, StepElse DEF EventLed, TypeOK, Tasks
    <3>3. QED
      BY <2>20, <3>1, <3>2, LedTypes DEF TypeOK, EventLed
  <2>21. CASE EventAlarm
    <3>1. KernelOK'
      BY <2>21, StepKernel DEF EventAlarm, TypeOK, Labels, Tasks
    <3>2. pc'["Monitor"] = pc["Monitor"]
      BY <2>21, StepElse DEF EventAlarm, TypeOK, Tasks
    <3>3. buzzer' \in BOOLEAN /\ pwmBusy' \in BOOLEAN
      <4>1. CASE AlarmOn(hand) /\ buzzer' = (buzzer \/ ~pwmBusy) /\ pwmBusy' = TRUE
        BY <4>1, Zenon
      <4>2. CASE AlarmOff(hand) /\ buzzer' = FALSE /\ pwmBusy' = FALSE
        BY <4>2, Zenon
      <4>3. CASE ~AlarmOn(hand) /\ ~AlarmOff(hand) /\ UNCHANGED <<buzzer, pwmBusy>>
        BY <4>3 DEF TypeOK
      <4>4. QED
        BY <2>21, <4>1, <4>2, <4>3 DEF EventAlarm
    <3>4. UNCHANGED <<sample, sPrev, from, sPresent, sub, button, evq, hand, led, protocol, logging, parser>>
      BY <2>21 DEF EventAlarm
    <3>5. QED
      BY <3>1, <3>2, <3>3, <3>4 DEF TypeOK
  <2>22. CASE EventForward
    <3>1. KernelOK'
      BY <2>22, StepKernel DEF EventForward, TypeOK, Labels, Tasks
    <3>2. pc'["Monitor"] = pc["Monitor"]
      BY <2>22, StepElse DEF EventForward, TypeOK, Tasks
    <3>3. QED
      BY <2>22, <3>1, EventTypes, <3>2 DEF TypeOK, EventForward
  <2>23. CASE CommIdle
    <3>1. KernelOK'
      BY <2>23, StepKernel DEF CommIdle, TypeOK, Labels, Tasks
    <3>2. pc'["Monitor"] = pc["Monitor"]
      BY <2>23, StepElse DEF CommIdle, TypeOK, Tasks
    <3>3. QED
      BY <2>23, <3>1, <3>2 DEF TypeOK, CommIdle
  <2>24. CASE CommFrame
    <3>1. KernelOK'
      BY <2>24, StepKernel DEF CommFrame, TypeOK, Labels, Tasks
    <3>2. pc'["Monitor"] = pc["Monitor"]
      BY <2>24, StepElse DEF CommFrame, TypeOK, Tasks
    <3>3. QED
      BY <2>24, <3>1, <3>2 DEF TypeOK, CommFrame
  <2>25. CASE CommHandle
    <3>1. KernelOK'
      BY <2>25, StepKernel DEF CommHandle, TypeOK, Labels, Tasks
    <3>2. pc'["Monitor"] = pc["Monitor"]
      BY <2>25, StepElse DEF CommHandle, TypeOK, Tasks
    <3>3. QED
      BY <2>25, <3>1, <3>2 DEF TypeOK, CommHandle
  <2>26. CASE CommPersist
    <3>1. KernelOK'
      BY <2>26, StepKernel DEF CommPersist, TypeOK, Labels, Tasks
    <3>2. pc'["Monitor"] = pc["Monitor"]
      BY <2>26, StepElse DEF CommPersist, TypeOK, Tasks
    <3>3. QED
      BY <2>26, <3>1, <3>2 DEF TypeOK, CommPersist
  <2>27. CASE CommNotify
    <3>1. KernelOK'
      BY <2>27, StepKernel DEF CommNotify, TypeOK, Labels, Tasks
    <3>2. pc'["Monitor"] = pc["Monitor"]
      BY <2>27, StepElse DEF CommNotify, TypeOK, Tasks
    <3>3. QED
      BY <2>27, <3>1, PostTypes, EventTypes, <3>2 DEF TypeOK, CommNotify
  <2>28. CASE CommLine
    <3>1. KernelOK'
      BY <2>28, StepKernel DEF CommLine, TypeOK, Labels, Tasks
    <3>2. pc'["Monitor"] = pc["Monitor"]
      BY <2>28, StepElse DEF CommLine, TypeOK, Tasks
    <3>3. QED
      BY <2>28, <3>1, <3>2 DEF TypeOK, CommLine
  <2>29. CASE CommLed
    <3>1. KernelOK'
      BY <2>29, StepKernel DEF CommLed, TypeOK, Labels, Tasks
    <3>2. pc'["Monitor"] = pc["Monitor"]
      BY <2>29, StepElse DEF CommLed, TypeOK, Tasks
    <3>3. QED
      BY <2>29, <3>1, <3>2 DEF TypeOK, CommLed
  <2>30. CASE CommProto
    <3>1. KernelOK'
      BY <2>30, StepKernel DEF CommProto, TypeOK, Labels, Tasks
    <3>2. pc'["Monitor"] = pc["Monitor"]
      BY <2>30, StepElse DEF CommProto, TypeOK, Tasks
    <3>3. QED
      BY <2>30, <3>1, <3>2 DEF TypeOK, CommProto
  <2>31. CASE CommDrain
    <3>1. KernelOK'
      BY <2>31, StepKernel DEF CommDrain, TypeOK, Labels, Tasks
    <3>2. pc'["Monitor"] = pc["Monitor"]
      BY <2>31, StepElse DEF CommDrain, TypeOK, Tasks
    <3>3. QED
      BY <2>31, <3>1, <3>2 DEF TypeOK, CommDrain
  <2>32. CASE \E t \in Tasks : Acquire(t)
    <3>1. KernelOK' /\ pc' = pc
      BY <2>32, LockKernel DEF Acquire, TypeOK, Lock
    <3>2. QED
      BY <2>32, <3>1 DEF Acquire, TypeOK
  <2>33. CASE \E t \in Tasks : Pass(t)
    <3>1. KernelOK'
      BY <2>33, StepKernel DEF Pass, Passes, TypeOK, Labels, Tasks
    <3>2. /\ pc'["Monitor"] \in {"log", "step"} => pc["Monitor"] \in {"log", "step"}
          /\ pc'["Monitor"] = "post" => pc["Monitor"] = "post"
      BY <2>33 DEF Pass, Passes, Step, TypeOK, KernelOK, Tasks
    <3>3. QED
      BY <2>33, <3>1, <3>2 DEF Pass, TypeOK
  <2>34. CASE UNCHANGED vars
    BY <2>34 DEF vars, TypeOK, KernelOK
  <2>35. QED
    BY <2>1, <2>2, <2>3, <2>4, <2>5, <2>6, <2>7, <2>8, <2>9, <2>10, <2>11, <2>12, <2>13, <2>14, <2>15, <2>16, <2>17, <2>18, <2>19, <2>20, <2>21, <2>22, <2>23, <2>24, <2>25, <2>26, <2>27, <2>28, <2>29, <2>30, <2>31, <2>32, <2>33, <2>34
       DEF Next, Wakes, ObjectNext, MonitorNext, EventNext, CommNext, Tasks
<1>3. QED
  BY <1>1, <1>2, PTL DEF Spec

----------------------------------------------------------------------------
(* Safety that follows from the kernel alone *)

\* ev_post of the Monitor and of the Object task never finds the queue full,
\* nor even an event ahead of its own.
THEOREM NeverDropped == Spec => []SignalNeverDropped
<1>1. TypeOK => KernelOK
  BY DEF TypeOK
<1>2. TypeOK => SignalNeverDropped
  BY <1>1, KernelDropsNothing
<1>3. QED
  BY <1>2, TypeInvariant, PTL

\* The tasks never wait for each other in a circle.
THEOREM DeadlockFree == Spec => []NoDeadlock
<1>1. TypeOK => KernelOK
  BY DEF TypeOK
<1>2. TypeOK => NoDeadlock
  BY <1>1, KernelNoDeadlock
<1>3. QED
  BY <1>2, TypeInvariant, PTL

----------------------------------------------------------------------------
(* Signals in flight: the invariant the panel is implemented by.  TypeOK alone *)
(* does not say that a detection cannot overtake a transition, nor that none   *)
(* arrives while the button stops the buzzer.                                  *)

\* A mode change or a detection waits for the Event task alone: it is first in
\* the queue, and the Event task has nothing in hand.
SignalAlone == \A i \in DOMAIN evq : evq[i] \in Signals => i = 1 /\ pc["Event"] = "get"

\* The Event task's local e is dead while it waits.
HandDead == pc["Event"] \in {"get", "say"} => hand = Startup

\* While the button stops the buzzer no signal can start it again.
StopWindow == pc["Object"] = "stopped" => ~InFlight /\ ~buzzer

\* What the Monitor task posts is a change, and its first sample is no event.
MonitorPair ==
    /\ pc["Monitor"] = "post" => from # sPrev
    /\ pc["Monitor"] \in {"log", "step"} /\ sPrev = Unset => sample \in FirstModes

\* The five facts together are inductive.
FlightInv == SignalAlone /\ HandDead /\ StopWindow /\ BuzzerChannelAgrees /\ MonitorPair

\* The signals are the events of the Monitor and the Object module.
LEMMA SignalSources ==
    /\ Startup \notin Signals /\ ConfigChanged \notin Signals
    /\ \A f, g \in Modes : Transition(f, g) \in Signals
    /\ \A d \in BOOLEAN : Detection(d) \in Signals
    /\ \A e \in Signals : e.src \in {"MONITOR", "OBJECT"}
    /\ \A e \in Events : e \notin Signals => e.src \notin {"MONITOR", "OBJECT"}
<1>1. \A e \in Signals : e.src \in {"MONITOR", "OBJECT"}
  BY DEF Signals, Transitions, Detections, Transition, Detection
<1>2. Startup.src = "INIT" /\ ConfigChanged.src = "CONFIG"
  BY DEF Startup, ConfigChanged
<1>3. Startup \notin Signals /\ ConfigChanged \notin Signals
  BY <1>1, <1>2
<1>4. /\ \A f, g \in Modes : Transition(f, g) \in Signals
      /\ \A d \in BOOLEAN : Detection(d) \in Signals
  BY DEF Signals, Transitions, Detections
<1>5. QED
  BY <1>1, <1>2, <1>3, <1>4 DEF Events

\* The other events leave LED and buzzer as they are.
LEMMA OtherEvents ==
    ASSUME NEW e \in Events \ Signals
    PROVE  ~AlarmOn(e) /\ ~AlarmOff(e) /\ \A now : LedAfter(e, now) = now
  BY SignalSources DEF AlarmOn, AlarmOff, LedAfter

\* When the Object or the Monitor task runs outside a section nothing is in flight.
LEMMA QuietPoster ==
    ASSUME TypeOK, NEW t \in {"Object", "Monitor"}, pc[t] \notin Sections, Runs(t)
    PROVE  pc["Event"] = "get" /\ evq = <<>> /\ ~InFlight
  BY PosterAlone DEF TypeOK, InFlight

\* When the Monitor task runs outside a section the Object task is in its delay.
LEMMA ObjectSleeps ==
    ASSUME TypeOK, pc["Monitor"] \notin Sections, Runs("Monitor")
    PROVE  pc["Object"] = "delay"
<1>1. "Object" \in Asleep
  BY HigherAsleep, Priorities DEF Tasks, TypeOK
<1>2. QED
  BY <1>1 DEF Asleep, TypeOK, KernelOK, Labels, Tasks

\* ev_post of an event that is no signal adds no signal to the queue.
LEMMA PostOther ==
    ASSUME TypeOK, NEW e \in Events \ Signals, Post(e)
    PROVE  \A i \in DOMAIN evq' : evq'[i] \in Signals => i \in DOMAIN evq /\ evq'[i] = evq[i]
  BY DEF Post, TypeOK

\* ev_post on an empty queue.
LEMMA PostAlone ==
    ASSUME evq = <<>>, NEW e, Post(e)
    PROVE  evq' = <<e>>
  BY BoundsAssumption DEF Post

\* Steps that leave the queue, the Event task and the buzzer alone.
LEMMA FlightUndisturbed ==
    ASSUME TypeOK, FlightInv, UNCHANGED <<evq, hand, buzzer, pwmBusy>>,
           pc'["Event"] = pc["Event"], pc'["Object"] = "stopped" <=> pc["Object"] = "stopped"
    PROVE  SignalAlone' /\ HandDead' /\ StopWindow' /\ BuzzerChannelAgrees'
<1>1. InFlight' => InFlight
  BY DEF InFlight
<1>2. QED
  BY <1>1 DEF FlightInv, SignalAlone, HandDead, StopWindow, BuzzerChannelAgrees

\* Steps that leave the Monitor task alone.
LEMMA PairUndisturbed ==
    ASSUME FlightInv, UNCHANGED <<sample, sPrev, from>>, pc'["Monitor"] = pc["Monitor"]
    PROVE  MonitorPair'
  BY DEF FlightInv, MonitorPair

\* In every reachable state a signal is alone in flight, none is while the button
\* stops the buzzer, and a transition that is posted changes the mode.
THEOREM FlightInvariant == Spec => []FlightInv
<1>1. Init => FlightInv
  <2> SUFFICES ASSUME Init PROVE FlightInv
    OBVIOUS
  <2>1. SignalAlone
    BY DEF Init, SignalAlone
  <2>2. HandDead /\ StopWindow /\ BuzzerChannelAgrees /\ MonitorPair
    BY DEF Init, HandDead, StopWindow, BuzzerChannelAgrees, MonitorPair
  <2>3. QED
    BY <2>1, <2>2 DEF FlightInv
<1>2. TypeOK /\ TypeOK' /\ FlightInv /\ [Next]_vars => FlightInv'
  <2> SUFFICES ASSUME TypeOK, TypeOK', FlightInv, [Next]_vars PROVE FlightInv'
    OBVIOUS
  <2> USE DEF monitor, object, events, panel, comm, kernel
  <2>0. KernelOK
    BY DEF TypeOK
  <2>1. CASE ButtonIsr \/ UNCHANGED vars \/ \E t \in Tasks : Acquire(t)
    <3>1. UNCHANGED <<pc, evq, hand, buzzer, pwmBusy, sample, sPrev, from>>
      BY <2>1 DEF ButtonIsr, vars, Acquire, Lock
    <3>2. QED
      BY <3>1, FlightUndisturbed, PairUndisturbed DEF FlightInv
  <2>2. CASE ObjectWake \/ ObjectReadButton \/ ObjectClearButton \/ ObjectQuiet \/ ObjectChanged
    <3>1. pc'["Event"] = pc["Event"] /\ pc'["Monitor"] = pc["Monitor"]
      BY <2>2, <2>0, StepElse
         DEF ObjectWake, ObjectReadButton, ObjectClearButton, ObjectQuiet, ObjectChanged, Tasks
    <3>2. pc["Object"] # "stopped" /\ pc'["Object"] # "stopped"
      BY <2>2, <2>0
         DEF ObjectWake, ObjectReadButton, ObjectClearButton, ObjectQuiet, ObjectChanged, Tasks,
             Step, Wake, KernelOK
    <3>3. UNCHANGED <<evq, hand, buzzer, pwmBusy, sample, sPrev, from>>
      BY <2>2 DEF ObjectWake, ObjectReadButton, ObjectClearButton, ObjectQuiet, ObjectChanged
    <3>4. QED
      BY <3>1, <3>2, <3>3, FlightUndisturbed, PairUndisturbed DEF FlightInv
  <2>3. CASE ObjectStopBuzzer
    <3>1. pc'["Event"] = pc["Event"] /\ pc'["Monitor"] = pc["Monitor"]
      BY <2>3, <2>0, StepElse DEF ObjectStopBuzzer, Tasks
    <3>2. pc["Object"] = "stop" /\ pc'["Object"] = "stopped" /\ Runs("Object")
      BY <2>3, <2>0 DEF ObjectStopBuzzer, Tasks, Step, KernelOK
    <3>3. ~InFlight /\ ~InFlight'
      BY <2>3, <3>1, <3>2, QuietPoster, SectionLabels DEF ObjectStopBuzzer, InFlight
    <3>4. QED
      BY <2>3, <3>1, <3>2, <3>3, PairUndisturbed
         DEF ObjectStopBuzzer, FlightInv, SignalAlone, HandDead, StopWindow, BuzzerChannelAgrees
  <2>4. CASE ObjectStopDone
    <3>1. pc'["Event"] = pc["Event"] /\ pc'["Monitor"] = pc["Monitor"]
      BY <2>4, <2>0, StepElse DEF ObjectStopDone, Tasks
    <3>2. pc["Object"] = "stopped" /\ pc'["Object"] = "sense"
      BY <2>4, <2>0 DEF ObjectStopDone, Tasks, Step, KernelOK
    <3>3. buzzer = FALSE
      BY <3>2 DEF FlightInv, StopWindow, TypeOK
    <3>4. QED
      BY <2>4, <3>1, <3>2, <3>3, PairUndisturbed
         DEF ObjectStopDone, FlightInv, SignalAlone, HandDead, StopWindow, BuzzerChannelAgrees
  <2>5. CASE ObjectPost
    <3>1. pc'["Event"] = pc["Event"] /\ pc'["Monitor"] = pc["Monitor"]
      BY <2>5, <2>0, StepElse DEF ObjectPost, Tasks
    <3>2. pc["Object"] = "post" /\ pc'["Object"] = "delay" /\ Runs("Object")
      BY <2>5, <2>0 DEF ObjectPost, Tasks, Step, KernelOK
    <3>3. pc["Event"] = "get" /\ evq' = <<Detection(sPresent)>>
      BY <2>5, <3>2, QuietPoster, PostAlone, SectionLabels DEF ObjectPost
    <3>4. QED
      BY <2>5, <3>1, <3>2, <3>3, PairUndisturbed
         DEF ObjectPost, FlightInv, SignalAlone, HandDead, StopWindow, BuzzerChannelAgrees
  <2>6. CASE MonitorMount \/ MonitorWake \/ MonitorTell \/ Pass("Monitor")
    <3>1. pc'["Event"] = pc["Event"] /\ pc'["Object"] = pc["Object"]
      BY <2>6, <2>0, StepElse DEF MonitorMount, MonitorWake, MonitorTell, Pass, Tasks
    <3>2. UNCHANGED <<evq, hand, buzzer, pwmBusy, sample, sPrev, from>>
      BY <2>6 DEF MonitorMount, MonitorWake, MonitorTell, Pass
    <3>3. /\ pc'["Monitor"] # "post"
          /\ pc'["Monitor"] \in {"log", "step"} => pc["Monitor"] \in {"log", "step"}
      BY <2>6, <2>0 DEF MonitorMount, MonitorWake, MonitorTell, Pass, Passes, Tasks, Step, Wake, KernelOK
    <3>4. MonitorPair'
      BY <3>2, <3>3 DEF FlightInv, MonitorPair
    <3>5. QED
      BY <3>1, <3>2, <3>4, FlightUndisturbed DEF FlightInv
  <2>7. CASE MonitorStartup
    <3>1. pc'["Event"] = pc["Event"] /\ pc'["Object"] = pc["Object"] /\ pc'["Monitor"] = "banner"
      BY <2>7, <2>0, StepElse DEF MonitorStartup, Tasks, Step, KernelOK
    <3>2. \A i \in DOMAIN evq' : evq'[i] \in Signals => i \in DOMAIN evq /\ evq'[i] = evq[i]
      BY <2>7, PostOther, SignalSources, EventTypes DEF MonitorStartup
    <3>3. InFlight' => InFlight
      BY <2>7, <3>1, <3>2 DEF InFlight, MonitorStartup
    <3>4. QED
      BY <2>7, <3>1, <3>2, <3>3
         DEF MonitorStartup, FlightInv, SignalAlone, HandDead, StopWindow, BuzzerChannelAgrees, MonitorPair
  <2>8. CASE MonitorEvaluate \/ MonitorSame \/ MonitorChanged
    <3>1. pc'["Event"] = pc["Event"] /\ pc'["Object"] = pc["Object"]
      BY <2>8, <2>0, StepElse DEF MonitorEvaluate, MonitorSame, MonitorChanged, Tasks
    <3>2. UNCHANGED <<evq, hand, buzzer, pwmBusy>>
      BY <2>8 DEF MonitorEvaluate, MonitorSame, MonitorChanged
    <3>3. CASE MonitorEvaluate
      BY <3>1, <3>2, <3>3, <2>0, FlightUndisturbed
         DEF MonitorEvaluate, FlightInv, MonitorPair, Step, KernelOK, Tasks
    <3>4. CASE MonitorSame
      BY <3>1, <3>2, <3>4, <2>0, FlightUndisturbed
         DEF MonitorSame, FlightInv, MonitorPair, Step, KernelOK, Tasks
    <3>5. CASE MonitorChanged
      BY <3>1, <3>2, <3>5, <2>0, FlightUndisturbed
         DEF MonitorChanged, FlightInv, MonitorPair, Step, KernelOK, Tasks
    <3>6. QED
      BY <2>8, <3>3, <3>4, <3>5
  <2>9. CASE MonitorPost
    <3>1. pc'["Event"] = pc["Event"] /\ pc'["Object"] = pc["Object"] /\ pc'["Monitor"] = "tell"
      BY <2>9, <2>0, StepElse DEF MonitorPost, Tasks, Step, KernelOK
    <3>2. pc["Monitor"] = "post" /\ Runs("Monitor")
      BY <2>9 DEF MonitorPost, Step
    <3>3. pc["Event"] = "get" /\ evq' = <<Transition(from, sPrev)>>
      BY <2>9, <3>2, QuietPoster, PostAlone, SectionLabels DEF MonitorPost
    <3>4. pc["Object"] = "delay"
      BY <3>2, ObjectSleeps, SectionLabels
    <3>5. QED
      BY <2>9, <3>1, <3>3, <3>4
         DEF MonitorPost, FlightInv, SignalAlone, HandDead, StopWindow, BuzzerChannelAgrees, MonitorPair
  <2>10. CASE EventGet
    <3>1. pc'["Object"] = pc["Object"] /\ pc'["Monitor"] = pc["Monitor"] /\ pc'["Event"] = "led"
      BY <2>10, <2>0, StepElse DEF EventGet, Tasks, Step, KernelOK
    <3>2. \A i \in DOMAIN evq' : i + 1 \in DOMAIN evq /\ i + 1 # 1 /\ evq'[i] = evq[i + 1]
      BY <2>10 DEF EventGet, TypeOK
    <3>3. 1 \in DOMAIN evq /\ hand' = evq[1]
      BY <2>10 DEF EventGet, TypeOK
    <3>4. \A i \in DOMAIN evq' : evq'[i] \notin Signals
      BY <3>2 DEF FlightInv, SignalAlone
    <3>5. InFlight' => InFlight
      BY <3>3, <3>4 DEF InFlight
    <3>6. QED
      BY <2>10, <3>1, <3>4, <3>5, PairUndisturbed
         DEF EventGet, FlightInv, SignalAlone, HandDead, StopWindow, BuzzerChannelAgrees
  <2>11. CASE EventLed \/ EventForward \/ Pass("Event")
    <3>1. pc'["Object"] = pc["Object"] /\ pc'["Monitor"] = pc["Monitor"]
      BY <2>11, <2>0, StepElse DEF EventLed, EventForward, Pass, Tasks
    <3>2. UNCHANGED <<evq, buzzer, pwmBusy, sample, sPrev, from>>
      BY <2>11 DEF EventLed, EventForward, Pass
    <3>3. pc["Event"] # "get"
      BY <2>11 DEF EventLed, EventForward, Pass, Passes, Step
    <3>4. HandDead'
      BY <2>11, <2>0 DEF EventLed, EventForward, Pass, Passes, Step, KernelOK, Tasks, FlightInv, HandDead
    <3>5. hand' \in Signals /\ pc'["Event"] \in {"led", "alarm"} => hand' = hand /\ pc["Event"] \in {"led", "alarm"}
      BY <2>11, <2>0, SignalSources DEF EventLed, EventForward, Pass, Passes, Step, KernelOK, Tasks
    <3>6. InFlight' => InFlight
      BY <3>2, <3>5 DEF InFlight
    <3>7. QED
      BY <3>1, <3>2, <3>3, <3>4, <3>6, PairUndisturbed
         DEF FlightInv, SignalAlone, StopWindow, BuzzerChannelAgrees
  <2>12. CASE EventAlarm
    <3>1. pc'["Object"] = pc["Object"] /\ pc'["Monitor"] = pc["Monitor"]
      BY <2>12, <2>0, StepElse DEF EventAlarm, Tasks
    <3>2. pc["Event"] = "alarm" /\ pc'["Event"] \in {"append", "forward"}
      BY <2>12, <2>0 DEF EventAlarm, Step, KernelOK, Tasks
    <3>3. UNCHANGED <<evq, hand, sample, sPrev, from>>
      BY <2>12 DEF EventAlarm
    <3>4. InFlight' => InFlight
      BY <3>2, <3>3 DEF InFlight
    <3>5. CASE hand \in Signals
      <4>1. pc["Object"] # "stopped"
        BY <3>2, <3>5 DEF FlightInv, StopWindow, InFlight
      <4>2. buzzer = pwmBusy /\ buzzer \in BOOLEAN /\ pwmBusy \in BOOLEAN
        BY <4>1 DEF FlightInv, BuzzerChannelAgrees, TypeOK
      <4>3. buzzer' = pwmBusy'
        <5>1. CASE AlarmOn(hand) /\ buzzer' = (buzzer \/ ~pwmBusy) /\ pwmBusy' = TRUE
          <6>1. buzzer' = (pwmBusy \/ ~pwmBusy)
            BY <4>2, <5>1
          <6>2. QED
            BY <5>1, <6>1
        <5>2. CASE AlarmOff(hand) /\ buzzer' = FALSE /\ pwmBusy' = FALSE
          BY <5>2
        <5>3. CASE ~AlarmOn(hand) /\ ~AlarmOff(hand) /\ UNCHANGED <<buzzer, pwmBusy>>
          BY <4>2, <5>3
        <5>4. QED
          BY <2>12, <5>1, <5>2, <5>3 DEF EventAlarm
      <4>4. QED
        BY <3>1, <3>2, <3>3, <4>1, <4>3, PairUndisturbed
           DEF FlightInv, SignalAlone, HandDead, StopWindow, BuzzerChannelAgrees
    <3>6. CASE hand \notin Signals
      <4>1. ~AlarmOn(hand) /\ ~AlarmOff(hand)
        BY <3>6, OtherEvents DEF TypeOK
      <4>2. UNCHANGED <<buzzer, pwmBusy>>
        BY <2>12, <4>1 DEF EventAlarm
      <4>3. QED
        BY <3>1, <3>2, <3>3, <3>4, <4>2, PairUndisturbed
           DEF FlightInv, SignalAlone, HandDead, StopWindow, BuzzerChannelAgrees
    <3>7. QED
      BY <3>5, <3>6
  <2>13. CASE CommNotify
    <3>1. /\ pc'["Event"] = pc["Event"] /\ pc'["Object"] = pc["Object"]
          /\ pc'["Monitor"] = pc["Monitor"]
      BY <2>13, <2>0, StepElse DEF CommNotify, Tasks
    <3>2. \A i \in DOMAIN evq' : evq'[i] \in Signals => i \in DOMAIN evq /\ evq'[i] = evq[i]
      BY <2>13, PostOther, SignalSources, EventTypes DEF CommNotify
    <3>3. InFlight' => InFlight
      BY <2>13, <3>1, <3>2 DEF InFlight, CommNotify
    <3>4. QED
      BY <2>13, <3>1, <3>2, <3>3, PairUndisturbed
         DEF CommNotify, FlightInv, SignalAlone, HandDead, StopWindow, BuzzerChannelAgrees
  <2>14. CASE \/ CommWake \/ CommIdle \/ CommFrame \/ CommHandle \/ CommPersist \/ CommLine
              \/ CommLed \/ CommProto \/ CommDrain \/ Pass("Comm")
    <3>1. /\ pc'["Event"] = pc["Event"] /\ pc'["Object"] = pc["Object"]
          /\ pc'["Monitor"] = pc["Monitor"]
      BY <2>14, <2>0, StepElse
         DEF CommWake, CommIdle, CommFrame, CommHandle, CommPersist, CommLine, CommLed, CommProto,
             CommDrain, Pass, Tasks
    <3>2. UNCHANGED <<evq, hand, buzzer, pwmBusy, sample, sPrev, from>>
      BY <2>14 DEF CommWake, CommIdle, CommFrame, CommHandle, CommPersist, CommLine, CommLed, CommProto,
             CommDrain, Pass
    <3>3. QED
      BY <3>1, <3>2, FlightUndisturbed, PairUndisturbed DEF FlightInv
  <2>15. QED
    BY <2>1, <2>2, <2>3, <2>4, <2>5, <2>6, <2>7, <2>8, <2>9, <2>10, <2>11, <2>12, <2>13, <2>14
       DEF Next, Wakes, ObjectNext, MonitorNext, EventNext, CommNext, Tasks
<1>3. QED
  BY <1>1, <1>2, TypeInvariant, PTL DEF Spec
----------------------------------------------------------------------------
(* The abstract panel *)

\* HAL's channel state and the buzzer never disagree, except between the two
\* writes of the button's HAL_TIM_PWM_Stop: no alarm starts in that window.
THEOREM BuzzerChannelSafe == Spec => []BuzzerChannelAgrees
<1>1. FlightInv => BuzzerChannelAgrees
  BY DEF FlightInv
<1>2. QED
  BY <1>1, FlightInvariant, PTL

\* What is ahead of a label is an event.
LEMMA AheadIsEvent ==
    /\ TypeOK => \A L : Ahead(L) \in Events
    /\ TypeOK' => \A L : Ahead(L)' \in Events
<1>1. \A q \in Seq(Events) : q # <<>> => Head(q) \in Events
  OBVIOUS
<1>2. QED
  BY <1>1, EventTypes DEF Ahead, TypeOK

\* With no signal ahead of the LED, the panel shows the LED as it is.
LEMMA LedIsShown ==
    /\ TypeOK /\ Ahead({"led"}) \notin Signals => ShownLed = led
    /\ TypeOK' /\ Ahead({"led"})' \notin Signals => ShownLed' = led'
  BY AheadIsEvent, OtherEvents DEF ShownLed

\* The same for the buzzer.
LEMMA BuzzerIsShown ==
    /\ TypeOK /\ Ahead({"led", "alarm"}) \notin Signals => ShownBuzzer = buzzer
    /\ TypeOK' /\ Ahead({"led", "alarm"})' \notin Signals => ShownBuzzer' = buzzer'
<1>1. ASSUME TypeOK, Ahead({"led", "alarm"}) \notin Signals
      PROVE  ShownBuzzer = buzzer
  <2>1. ~AlarmOn(Ahead({"led", "alarm"})) /\ ~AlarmOff(Ahead({"led", "alarm"}))
    BY <1>1, AheadIsEvent, OtherEvents
  <2>2. buzzer \in BOOLEAN
    BY <1>1 DEF TypeOK
  <2>3. QED
    BY <2>1, <2>2, Zenon DEF ShownBuzzer
<1>2. ASSUME TypeOK', Ahead({"led", "alarm"})' \notin Signals
      PROVE  ShownBuzzer' = buzzer'
  <2>1. ~AlarmOn(Ahead({"led", "alarm"})') /\ ~AlarmOff(Ahead({"led", "alarm"})')
    BY <1>2, AheadIsEvent, OtherEvents
  <2>2. buzzer' \in BOOLEAN
    BY <1>2 DEF TypeOK
  <2>3. QED
    BY <2>1, <2>2 DEF ShownBuzzer, AlarmOn, AlarmOff
<1>3. QED
  BY <1>1, <1>2

\* While nothing is in flight nothing is ahead.
LEMMA NothingAhead ==
    /\ TypeOK /\ ~InFlight =>
         Ahead({"led"}) \notin Signals /\ Ahead({"led", "alarm"}) \notin Signals
    /\ TypeOK' /\ ~InFlight' =>
         Ahead({"led"})' \notin Signals /\ Ahead({"led", "alarm"})' \notin Signals
  BY SignalSources DEF Ahead, InFlight, TypeOK

\* What is shown depends on the Event task, its queue and the outputs alone.
LEMMA ShownKept ==
    ASSUME UNCHANGED <<evq, hand, led, buzzer>>, pc'["Event"] = pc["Event"]
    PROVE  UNCHANGED <<ShownLed, ShownBuzzer>>
  BY DEF ShownLed, ShownBuzzer, Ahead

\* The reported mode changes only when its event is posted.
LEMMA ModeKept ==
    ASSUME UNCHANGED <<sPrev, from>>, pc'["Monitor"] = "post" <=> pc["Monitor"] = "post"
    PROVE  UNCHANGED ShownMode
  BY DEF ShownMode

\* The same for the detected object.
LEMMA PresentKept ==
    ASSUME UNCHANGED sPresent, pc'["Object"] = "post" <=> pc["Object"] = "post"
    PROVE  UNCHANGED ShownPresent
  BY DEF ShownPresent

\* An event that is no signal changes nothing that is shown when it is queued.
LEMMA OtherPostShown ==
    ASSUME TypeOK, TypeOK', NEW e \in Events \ Signals, Post(e),
           UNCHANGED <<hand, led, buzzer>>, pc'["Event"] = pc["Event"]
    PROVE  UNCHANGED <<ShownLed, ShownBuzzer>>
<1>1. CASE evq = <<>>
  <2>1. evq' = <<e>>
    BY <1>1, PostAlone
  <2>2. \A L : Ahead(L) = Ahead(L)' \/ (Ahead(L) = Startup /\ Ahead(L)' = e)
    BY <1>1, <2>1 DEF Ahead
  <2>3. ShownLed' = ShownLed
    <3>1. CASE Ahead({"led"})' = Ahead({"led"})
      BY <3>1 DEF ShownLed
    <3>2. CASE Ahead({"led"}) = Startup /\ Ahead({"led"})' = e
      BY <3>2, OtherEvents, SignalSources, EventTypes DEF ShownLed
    <3>3. QED
      BY <2>2, <3>1, <3>2
  <2>4. ShownBuzzer' = ShownBuzzer
    <3>1. CASE Ahead({"led", "alarm"})' = Ahead({"led", "alarm"})
      BY <3>1 DEF ShownBuzzer, AlarmOn, AlarmOff
    <3>2. CASE Ahead({"led", "alarm"}) = Startup /\ Ahead({"led", "alarm"})' = e
      <4>1. ~AlarmOn(Startup) /\ ~AlarmOff(Startup) /\ ~AlarmOn(e) /\ ~AlarmOff(e)
        BY OtherEvents, SignalSources, EventTypes
      <4>2. buzzer' = buzzer /\ buzzer \in BOOLEAN
        BY DEF TypeOK
      <4>3. QED
        BY <3>2, <4>1, <4>2 DEF ShownBuzzer, AlarmOn, AlarmOff
    <3>3. QED
      BY <2>2, <3>1, <3>2
  <2>5. QED
    BY <2>3, <2>4
<1>2. CASE evq # <<>>
  <2>1. evq' # <<>> /\ Head(evq') = Head(evq)
    BY <1>2 DEF Post, TypeOK
  <2>2. QED
    BY <1>2, <2>1 DEF ShownLed, ShownBuzzer, Ahead
<1>3. QED
  BY <1>1, <1>2

\* The tasks, the queue and the interrupt implement the panel: reports become
\* its changes when they are posted, one press becomes its Silence, the led
\* command its DriveLed, and nothing else is visible.
THEOREM PanelImplemented == Spec => ImplementsPanel
<1>1. Init => Panel!PanelInit
  <2> SUFFICES ASSUME Init PROVE Panel!PanelInit
    OBVIOUS
  <2>1. Ahead({"led"}) = Startup /\ Ahead({"led", "alarm"}) = Startup
    BY DEF Init, Ahead
  <2>2. ~AlarmOn(Startup) /\ ~AlarmOff(Startup) /\ LedAfter(Startup, led) = led
    BY OtherEvents, SignalSources, EventTypes
  <2>3. ShownLed = "GREEN" /\ ~ShownBuzzer
    BY <2>1, <2>2 DEF Init, ShownLed, ShownBuzzer
  <2>4. ShownMode = Panel!Unset /\ ~ShownPresent
    BY DEF Init, ShownMode, ShownPresent, Unset, Panel!Unset
  <2>5. QED
    BY <2>3, <2>4 DEF Panel!PanelInit
<1>2. TypeOK /\ TypeOK' /\ FlightInv /\ FlightInv' /\ [Next]_vars => [Panel!PanelNext]_(Panel!panelVars)
  <2> SUFFICES ASSUME TypeOK, TypeOK', FlightInv, FlightInv', [Next]_vars
               PROVE  Panel!PanelNext \/ UNCHANGED <<ShownMode, ShownPresent, ShownLed, ShownBuzzer>>
    BY DEF Panel!panelVars
  <2> USE DEF monitor, object, events, panel, comm, kernel
  <2>0. KernelOK
    BY DEF TypeOK
  <2>1. CASE ButtonIsr \/ UNCHANGED vars \/ \E t \in Tasks : Acquire(t)
    <3>1. UNCHANGED <<pc, evq, hand, led, buzzer, sPrev, from, sPresent>>
      BY <2>1 DEF ButtonIsr, vars, Acquire, Lock
    <3>2. QED
      BY <3>1, ShownKept, ModeKept, PresentKept
  <2>2. CASE ObjectWake \/ ObjectReadButton \/ ObjectClearButton \/ ObjectStopDone \/ ObjectQuiet
    <3>1. pc'["Event"] = pc["Event"] /\ pc'["Monitor"] = pc["Monitor"]
      BY <2>2, <2>0, StepElse
         DEF ObjectWake, ObjectReadButton, ObjectClearButton, ObjectStopDone, ObjectQuiet, Tasks
    <3>2. pc["Object"] # "post" /\ pc'["Object"] # "post"
      BY <2>2, <2>0
         DEF ObjectWake, ObjectReadButton, ObjectClearButton, ObjectStopDone, ObjectQuiet, Tasks,
             Step, Wake, KernelOK
    <3>3. UNCHANGED <<evq, hand, led, buzzer, sPrev, from, sPresent>>
      BY <2>2 DEF ObjectWake, ObjectReadButton, ObjectClearButton, ObjectStopDone, ObjectQuiet
    <3>4. QED
      BY <3>1, <3>2, <3>3, ShownKept, ModeKept, PresentKept
  <2>3. CASE ObjectStopBuzzer
    <3>1. pc'["Event"] = pc["Event"] /\ pc'["Monitor"] = pc["Monitor"]
      BY <2>3, <2>0, StepElse DEF ObjectStopBuzzer, Tasks
    <3>2. pc["Object"] = "stop" /\ pc'["Object"] = "stopped" /\ Runs("Object")
      BY <2>3, <2>0 DEF ObjectStopBuzzer, Tasks, Step, KernelOK
    <3>3. pc["Event"] = "get" /\ ~InFlight /\ ~InFlight'
      BY <2>3, <3>1, <3>2, QuietPoster, SectionLabels DEF ObjectStopBuzzer, InFlight
    <3>4. ShownLed = led /\ ShownLed' = led' /\ ShownBuzzer = buzzer /\ ShownBuzzer' = buzzer'
      BY <3>1, <3>3, NothingAhead, LedIsShown, BuzzerIsShown
    <3>5. UNCHANGED <<ShownMode, ShownPresent, led>> /\ ~buzzer'
      BY <2>3, <3>1, <3>2, ModeKept, PresentKept DEF ObjectStopBuzzer
    <3>6. QED
      BY <3>4, <3>5 DEF Panel!PanelNext, Panel!Silence, TypeOK
  <2>4. CASE ObjectChanged
    <3>1. pc'["Event"] = pc["Event"] /\ pc'["Monitor"] = pc["Monitor"]
      BY <2>4, <2>0, StepElse DEF ObjectChanged, Tasks
    <3>2. pc["Object"] = "sense" /\ pc'["Object"] = "post"
      BY <2>4, <2>0 DEF ObjectChanged, Tasks, Step, KernelOK
    <3>3. ShownPresent' = ShownPresent
      BY <2>4, <3>2 DEF ObjectChanged, ShownPresent, TypeOK
    <3>4. QED
      BY <2>4, <3>1, <3>3, ShownKept, ModeKept DEF ObjectChanged
  <2>5. CASE ObjectPost
    <3>1. pc'["Event"] = pc["Event"] /\ pc'["Monitor"] = pc["Monitor"]
      BY <2>5, <2>0, StepElse DEF ObjectPost, Tasks
    <3>2. pc["Object"] = "post" /\ pc'["Object"] = "delay" /\ Runs("Object")
      BY <2>5, <2>0 DEF ObjectPost, Tasks, Step, KernelOK
    <3>3. pc["Event"] = "get" /\ evq' = <<Detection(sPresent)>>
      BY <2>5, <3>2, QuietPoster, PostAlone, SectionLabels DEF ObjectPost
    <3>4. Ahead({"led"})' = Detection(sPresent) /\ Ahead({"led", "alarm"})' = Detection(sPresent)
      BY <3>1, <3>3 DEF Ahead
    <3>5. ShownPresent = ~sPresent /\ ShownPresent' = sPresent /\ sPresent \in BOOLEAN
      BY <2>5, <3>2 DEF ObjectPost, ShownPresent, TypeOK
    <3>6. ShownLed' = (IF sPresent THEN "RED" ELSE "GREEN")
      BY <3>4 DEF ShownLed, LedAfter, Detection
    <3>7. ShownBuzzer' = sPresent
      BY <3>4, <3>5 DEF ShownBuzzer, AlarmOn, AlarmOff, Detection
    <3>8. QED
      BY <2>5, <3>1, <3>5, <3>6, <3>7, ModeKept
         DEF ObjectPost, Panel!PanelNext, Panel!ObjectChange, Panel!ObjectLed
  <2>6. CASE MonitorMount \/ MonitorWake \/ MonitorTell \/ MonitorEvaluate \/ Pass("Monitor")
    <3>1. pc'["Event"] = pc["Event"] /\ pc'["Object"] = pc["Object"]
      BY <2>6, <2>0, StepElse DEF MonitorMount, MonitorWake, MonitorTell, MonitorEvaluate, Pass, Tasks
    <3>2. UNCHANGED <<evq, hand, led, buzzer, sPrev, from, sPresent>>
      BY <2>6 DEF MonitorMount, MonitorWake, MonitorTell, MonitorEvaluate, Pass
    <3>3. pc["Monitor"] # "post" /\ pc'["Monitor"] # "post"
      BY <2>6, <2>0
         DEF MonitorMount, MonitorWake, MonitorTell, MonitorEvaluate, Pass, Passes, Tasks, Step, Wake,
             KernelOK
    <3>4. QED
      BY <3>1, <3>2, <3>3, ShownKept, ModeKept, PresentKept
  <2>7. CASE MonitorStartup
    <3>1. pc'["Event"] = pc["Event"] /\ pc'["Object"] = pc["Object"]
      BY <2>7, <2>0, StepElse DEF MonitorStartup, Tasks
    <3>2. pc["Monitor"] # "post" /\ pc'["Monitor"] # "post"
      BY <2>7, <2>0 DEF MonitorStartup, Tasks, Step, KernelOK
    <3>3. UNCHANGED <<ShownLed, ShownBuzzer>>
      BY <2>7, <3>1, OtherPostShown, SignalSources, EventTypes DEF MonitorStartup
    <3>4. QED
      BY <2>7, <3>1, <3>2, <3>3, ModeKept, PresentKept DEF MonitorStartup
  <2>8. CASE MonitorSame
    <3>1. pc'["Event"] = pc["Event"] /\ pc'["Object"] = pc["Object"]
      BY <2>8, <2>0, StepElse DEF MonitorSame, Tasks
    <3>2. pc["Monitor"] = "step" /\ pc'["Monitor"] = "tell"
      BY <2>8, <2>0 DEF MonitorSame, Tasks, Step, KernelOK
    <3>3. ShownMode = sPrev /\ ShownMode' = sample /\ sample \in Modes
      BY <2>8, <3>2 DEF MonitorSame, ShownMode, TypeOK
    <3>4. UNCHANGED <<ShownLed, ShownBuzzer, ShownPresent>>
      BY <2>8, <3>1, ShownKept, PresentKept DEF MonitorSame
    <3>5. CASE sPrev = Unset
      <4>1. sample \in FirstModes
        BY <3>2, <3>5 DEF FlightInv, MonitorPair
      <4>2. QED
        BY <3>3, <3>4, <3>5, <4>1 DEF Panel!PanelNext, Panel!FirstSample, Unset, Panel!Unset
    <3>6. CASE sPrev = sample
      BY <3>3, <3>4, <3>6
    <3>7. QED
      BY <2>8, <3>5, <3>6 DEF MonitorSame
  <2>9. CASE MonitorChanged
    <3>1. pc'["Event"] = pc["Event"] /\ pc'["Object"] = pc["Object"]
      BY <2>9, <2>0, StepElse DEF MonitorChanged, Tasks
    <3>2. pc["Monitor"] = "step" /\ pc'["Monitor"] = "post"
      BY <2>9, <2>0 DEF MonitorChanged, Tasks, Step, KernelOK
    <3>3. ShownMode' = ShownMode
      BY <2>9, <3>2 DEF MonitorChanged, ShownMode
    <3>4. QED
      BY <2>9, <3>1, <3>3, ShownKept, PresentKept DEF MonitorChanged
  <2>10. CASE MonitorPost
    <3>1. pc'["Event"] = pc["Event"] /\ pc'["Object"] = pc["Object"]
      BY <2>10, <2>0, StepElse DEF MonitorPost, Tasks
    <3>2. pc["Monitor"] = "post" /\ pc'["Monitor"] = "tell" /\ Runs("Monitor")
      BY <2>10, <2>0 DEF MonitorPost, Tasks, Step, KernelOK
    <3>3. pc["Event"] = "get" /\ ~InFlight /\ evq' = <<Transition(from, sPrev)>>
      BY <2>10, <3>2, QuietPoster, PostAlone, SectionLabels DEF MonitorPost
    <3>4. /\ Ahead({"led"})' = Transition(from, sPrev)
          /\ Ahead({"led", "alarm"})' = Transition(from, sPrev)
      BY <3>1, <3>3 DEF Ahead
    <3>5. from \in Modes /\ sPrev \in Modes /\ from # sPrev
      BY <3>2 DEF TypeOK, FlightInv, MonitorPair
    <3>6. ShownMode = from /\ ShownMode' = sPrev
      BY <2>10, <3>2 DEF MonitorPost, ShownMode
    <3>7. ShownLed' = ModeLed[sPrev]
      BY <3>4 DEF ShownLed, LedAfter, Transition
    <3>8. ShownBuzzer = buzzer /\ buzzer' = buzzer /\ buzzer \in BOOLEAN
      BY <2>10, <3>3, NothingAhead, BuzzerIsShown DEF MonitorPost, TypeOK
    <3>9. ShownBuzzer' = (sPrev = "ERROR" \/ (from # "ERROR" /\ buzzer))
      BY <3>4, <3>8 DEF ShownBuzzer, AlarmOn, AlarmOff, Transition
    <3>10. UNCHANGED ShownPresent
      BY <2>10, <3>1, PresentKept DEF MonitorPost
    <3>11. Panel!ModeChange
      BY <3>5, <3>6, <3>7, <3>8, <3>9, <3>10
         DEF Panel!ModeChange, Panel!ModeLed, ModeLed, Panel!ModeBuzzer, Panel!Modes, Modes, Panel!Unset
    <3>12. QED
      BY <3>11 DEF Panel!PanelNext
  <2>11. CASE EventGet
    <3>1. pc'["Object"] = pc["Object"] /\ pc'["Monitor"] = pc["Monitor"]
      BY <2>11, <2>0, StepElse DEF EventGet, Tasks
    <3>2. pc["Event"] = "get" /\ pc'["Event"] = "led" /\ evq # <<>> /\ hand' = Head(evq)
      BY <2>11, <2>0 DEF EventGet, Step, KernelOK, Tasks
    <3>3. UNCHANGED <<Ahead({"led"}), Ahead({"led", "alarm"}), led, buzzer>>
      BY <2>11, <3>2 DEF EventGet, Ahead
    <3>4. UNCHANGED <<ShownLed, ShownBuzzer>>
      BY <3>3 DEF ShownLed, ShownBuzzer
    <3>5. QED
      BY <2>11, <3>1, <3>4, ModeKept, PresentKept DEF EventGet
  <2>12. CASE EventLed
    <3>1. pc'["Object"] = pc["Object"] /\ pc'["Monitor"] = pc["Monitor"]
      BY <2>12, <2>0, StepElse DEF EventLed, Tasks
    <3>2. pc["Event"] = "led" /\ pc'["Event"] = "alarm" /\ UNCHANGED <<evq, hand, buzzer>>
      BY <2>12, <2>0 DEF EventLed, Step, KernelOK, Tasks
    <3>3. Ahead({"led"})' \notin Signals
      BY <3>2, SignalSources DEF Ahead, FlightInv, SignalAlone, TypeOK
    <3>4. ShownLed' = led'
      BY <3>3, LedIsShown
    <3>5. ShownLed = led'
      BY <2>12, <3>2 DEF EventLed, ShownLed, Ahead
    <3>6. UNCHANGED Ahead({"led", "alarm"})
      BY <3>2 DEF Ahead
    <3>7. UNCHANGED ShownBuzzer
      BY <3>2, <3>6 DEF ShownBuzzer
    <3>8. QED
      BY <2>12, <3>1, <3>4, <3>5, <3>7, ModeKept, PresentKept DEF EventLed
  <2>13. CASE EventAlarm
    <3>1. pc'["Object"] = pc["Object"] /\ pc'["Monitor"] = pc["Monitor"]
      BY <2>13, <2>0, StepElse DEF EventAlarm, Tasks
    <3>2. /\ pc["Event"] = "alarm" /\ pc'["Event"] \in {"append", "forward"}
          /\ UNCHANGED <<evq, hand, led>>
      BY <2>13, <2>0 DEF EventAlarm, Step, KernelOK, Tasks
    <3>3. Ahead({"led", "alarm"})' \notin Signals
      BY <3>2, SignalSources DEF Ahead, FlightInv, SignalAlone, TypeOK
    <3>4. ShownBuzzer' = buzzer'
      BY <3>3, BuzzerIsShown
    <3>5. Ahead({"led", "alarm"}) = hand
      BY <3>2 DEF Ahead
    <3>6. AlarmOn(hand) => hand \in Signals
      BY OtherEvents DEF TypeOK
    <3>7. AlarmOn(hand) => buzzer = pwmBusy
      BY <3>2, <3>6 DEF FlightInv, StopWindow, BuzzerChannelAgrees, InFlight
    <3>8. buzzer \in BOOLEAN /\ buzzer' \in BOOLEAN /\ pwmBusy \in BOOLEAN
      BY DEF TypeOK
    <3>9. ~(AlarmOn(hand) /\ AlarmOff(hand))
      BY DEF AlarmOn, AlarmOff
    <3>10. buzzer' = (AlarmOn(hand) \/ (~AlarmOff(hand) /\ buzzer))
      <4>1. CASE AlarmOn(hand) /\ buzzer' = (buzzer \/ ~pwmBusy) /\ pwmBusy' = TRUE
        BY <3>7, <3>8, <4>1
      <4>2. CASE AlarmOff(hand) /\ buzzer' = FALSE /\ pwmBusy' = FALSE
        BY <3>9, <4>2
      <4>3. CASE ~AlarmOn(hand) /\ ~AlarmOff(hand) /\ UNCHANGED <<buzzer, pwmBusy>>
        BY <3>8, <4>3
      <4>4. QED
        BY <2>13, <4>1, <4>2, <4>3 DEF EventAlarm
    <3>11. UNCHANGED ShownBuzzer
      BY <3>4, <3>5, <3>10 DEF ShownBuzzer
    <3>12. UNCHANGED ShownLed
      BY <3>2 DEF ShownLed, Ahead
    <3>13. QED
      BY <2>13, <3>1, <3>11, <3>12, ModeKept, PresentKept DEF EventAlarm
  <2>14. CASE EventForward \/ Pass("Event")
    <3>1. pc'["Object"] = pc["Object"] /\ pc'["Monitor"] = pc["Monitor"]
      BY <2>14, <2>0, StepElse DEF EventForward, Pass, Tasks
    <3>2. pc["Event"] \notin {"led", "alarm"} /\ pc'["Event"] \notin {"led", "alarm"}
      BY <2>14, <2>0 DEF EventForward, Pass, Passes, Step, KernelOK, Tasks
    <3>3. UNCHANGED <<evq, led, buzzer, sPrev, from, sPresent>>
      BY <2>14 DEF EventForward, Pass
    <3>4. UNCHANGED <<ShownLed, ShownBuzzer>>
      BY <3>2, <3>3 DEF ShownLed, ShownBuzzer, Ahead
    <3>5. QED
      BY <3>1, <3>3, <3>4, ModeKept, PresentKept
  <2>15. CASE CommNotify
    <3>1. /\ pc'["Event"] = pc["Event"] /\ pc'["Object"] = pc["Object"]
          /\ pc'["Monitor"] = pc["Monitor"]
      BY <2>15, <2>0, StepElse DEF CommNotify, Tasks
    <3>2. UNCHANGED <<ShownLed, ShownBuzzer>>
      BY <2>15, <3>1, OtherPostShown, SignalSources, EventTypes DEF CommNotify
    <3>3. QED
      BY <2>15, <3>1, <3>2, ModeKept, PresentKept DEF CommNotify
  <2>16. CASE CommLed
    <3>1. /\ pc'["Event"] = pc["Event"] /\ pc'["Object"] = pc["Object"]
          /\ pc'["Monitor"] = pc["Monitor"]
      BY <2>16, <2>0, StepElse DEF CommLed, Tasks
    <3>2. UNCHANGED <<evq, hand, buzzer, sPrev, from, sPresent>> /\ led' = "DIAG"
      BY <2>16 DEF CommLed
    <3>3. UNCHANGED <<Ahead({"led"}), Ahead({"led", "alarm"})>>
      BY <3>1, <3>2 DEF Ahead
    <3>4. UNCHANGED <<ShownMode, ShownPresent, ShownBuzzer>>
      BY <3>1, <3>2, <3>3, ModeKept, PresentKept DEF ShownBuzzer
    <3>5. CASE Ahead({"led"}) \in Signals
      <4>1. \A now : LedAfter(Ahead({"led"}), now) = LedAfter(Ahead({"led"}), led)
        BY <3>5, SignalSources DEF LedAfter
      <4>2. UNCHANGED ShownLed
        BY <3>3, <4>1 DEF ShownLed
      <4>3. QED
        BY <3>4, <4>2
    <3>6. CASE Ahead({"led"}) \notin Signals
      <4>1. ShownLed' = led'
        BY <3>3, <3>6, LedIsShown
      <4>2. QED
        BY <3>2, <3>4, <4>1 DEF Panel!PanelNext, Panel!DriveLed, Panel!Diag
    <3>7. QED
      BY <3>5, <3>6
  <2>17. CASE \/ CommWake \/ CommIdle \/ CommFrame \/ CommHandle \/ CommPersist \/ CommLine
              \/ CommProto \/ CommDrain \/ Pass("Comm")
    <3>1. /\ pc'["Event"] = pc["Event"] /\ pc'["Object"] = pc["Object"]
          /\ pc'["Monitor"] = pc["Monitor"]
      BY <2>17, <2>0, StepElse
         DEF CommWake, CommIdle, CommFrame, CommHandle, CommPersist, CommLine, CommProto, CommDrain,
             Pass, Tasks
    <3>2. UNCHANGED <<evq, hand, led, buzzer, sPrev, from, sPresent>>
      BY <2>17 DEF CommWake, CommIdle, CommFrame, CommHandle, CommPersist, CommLine, CommProto,
             CommDrain, Pass
    <3>3. QED
      BY <3>1, <3>2, ShownKept, ModeKept, PresentKept
  <2>18. QED
    BY <2>1, <2>2, <2>3, <2>4, <2>5, <2>6, <2>7, <2>8, <2>9, <2>10, <2>11, <2>12, <2>13, <2>14,
       <2>15, <2>16, <2>17
       DEF Next, Wakes, ObjectNext, MonitorNext, EventNext, CommNext, Tasks
<1>3. QED
  BY <1>1, <1>2, TypeInvariant, FlightInvariant, PTL DEF Spec, ImplementsPanel, Panel!PanelSpec

\* The buzzer never sounds without a cause: it holds of the abstract panel, and
\* so of everything that implements it.
THEOREM BuzzerCaused == Spec => []BuzzerHasCause
<1>1. Panel!PanelInit => BuzzerHasCause
  BY DEF Panel!PanelInit, BuzzerHasCause, Panel!BuzzerHasCause
<1>2. BuzzerHasCause /\ [Panel!PanelNext]_(Panel!panelVars) => BuzzerHasCause'
  <2> SUFFICES ASSUME BuzzerHasCause, [Panel!PanelNext]_(Panel!panelVars), ShownBuzzer'
               PROVE  ShownMode' = "ERROR" \/ ShownPresent'
    BY DEF BuzzerHasCause, Panel!BuzzerHasCause
  <2>0. ShownBuzzer => ShownMode = "ERROR" \/ ShownPresent
    BY DEF BuzzerHasCause, Panel!BuzzerHasCause
  <2>1. CASE Panel!FirstSample
    BY <2>0, <2>1 DEF Panel!FirstSample, Panel!Unset
  <2>2. CASE Panel!ModeChange
    BY <2>0, <2>2 DEF Panel!ModeChange, Panel!ModeBuzzer
  <2>3. CASE Panel!ObjectChange
    BY <2>3 DEF Panel!ObjectChange
  <2>4. CASE Panel!Silence
    BY <2>4 DEF Panel!Silence
  <2>5. CASE Panel!DriveLed \/ UNCHANGED Panel!panelVars
    <3>1. ShownMode' = ShownMode /\ ShownPresent' = ShownPresent /\ ShownBuzzer' = ShownBuzzer
      BY <2>5 DEF Panel!DriveLed, Panel!panelVars
    <3>2. ShownBuzzer
      BY <3>1
    <3>3. QED
      BY <2>0, <3>1, <3>2
  <2>6. QED
    BY <2>1, <2>2, <2>3, <2>4, <2>5 DEF Panel!PanelNext
<1>3. ImplementsPanel => []BuzzerHasCause
  BY <1>1, <1>2, PTL DEF ImplementsPanel, Panel!PanelSpec
<1>4. QED
  BY <1>3, PanelImplemented, PTL

=============================================================================
