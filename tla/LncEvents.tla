----------------------------- MODULE LncEvents -----------------------------
(***************************************************************************)
(* The event path of the LNC firmware (stm32/.../Core/Src/lnc/lnc_app.c):  *)
(* the Monitor and Object tasks detect transitions and post them, the      *)
(* Event task drives LED and buzzer and logs, the Comm task executes       *)
(* commands and posts its own events, and the button interrupt asks for    *)
(* silence.  Which task runs is decided by the kernel of LncRtos.          *)
(*                                                                         *)
(* Data are abstract: a measurement is the mode limits_evaluate gives it,  *)
(* a command is its effect on this state.  The configuration is LncConfig's*)
(* subject, the frames and the TX queues are LncComm's: here Comm's sends  *)
(* only take time and the UART.                                            *)
(*                                                                         *)
(* Beside some definitions stands a variant with a plausible fault, named  *)
(* for the fault; nothing uses it, and the properties reject it.           *)
(***************************************************************************)
EXTENDS Naturals, Sequences

CONSTANTS
    EVQ_N,          \* capacity of EventQueue (8)
    DetectEvery,    \* button polls per object decision (4)
    FirstModes,     \* modes the first sample after boot may find
    SampleModes,    \* modes the later samples may find
    Inputs          \* what the operator or the Central sends: see AllInputs

ASSUME BoundsAssumption == EVQ_N \in Nat \ {0} /\ DetectEvery \in Nat \ {0}

Modes == {"NORMAL", "WARNING", "ERROR"}

ASSUME ModesAssumption == FirstModes \subseteq Modes /\ SampleModes \subseteq Modes

\* Binary frames: an accepted SET_*, a range query, any other.  Console lines:
\* tn or tw, ls/cat/get, led, proto, any other.
AllInputs == {"SET", "QUERY", "FRAME", "TN", "READ", "LED", "PROTO", "LINE"}

ASSUME InputsAssumption == Inputs \subseteq AllInputs

VARIABLES
    pc, owner,      \* kernel: where each task is, who holds each mutex
    sample,         \* Monitor: mode of the measurement just taken
    sPrev, from,    \* monitor_logic: previous mode; the one before, to post
    sPresent, sub,  \* objectdet_logic: object present; polls since the decision
    button,         \* s_button, set by the EXTI interrupt
    evq, hand,      \* EventQueue; the event the Event task works on
    led, buzzer,    \* what the operator sees and hears
    pwmBusy,        \* HAL's channel state of the buzzer timer
    protocol,       \* s_protocol
    logging,        \* s_logging
    parser          \* which RX parser this Comm pass runs

kernel  == <<pc, owner>>
monitor == <<sample, sPrev, from>>
object  == <<sPresent, sub, button>>
events  == <<evq, hand>>
panel   == <<led, buzzer, pwmBusy>>
comm    == <<protocol, logging, parser>>
vars    == <<pc, owner, sample, sPrev, from, sPresent, sub, button, evq, hand,
             led, buzzer, pwmBusy, protocol, logging, parser>>

----------------------------------------------------------------------------
Unset  == "UNSET"
Nobody == "nobody"
Tasks  == {"Comm", "Event", "Object", "Monitor"}

\* Every LOCK ... UNLOCK section of the tasks, and its mutex.
MutexOf == [ s \in {"persist", "query", "read", "append", "mount", "log",
                    "handle", "apply", "snap", "eval", "status",
                    "print", "enter", "send", "say", "banner", "show"} |->
    CASE s \in {"persist", "query", "read", "append", "mount", "log"}  -> "Store"
      [] s \in {"handle", "apply", "snap", "eval", "status"}            -> "State"
      [] OTHER                                                          -> "Uart" ]

Asleep == { t \in Tasks : pc[t] = "delay" \/ (pc[t] = "get" /\ evq = <<>>) }

INSTANCE LncRtos WITH asleep <- Asleep

\* lnc_event_t
Transition(old, new) == [src |-> "MONITOR", from |-> old, to |-> new]
Detection(detected)  == [src |-> "OBJECT", detected |-> detected]
ConfigChanged == [src |-> "CONFIG"]
Startup       == [src |-> "INIT"]

Transitions == { Transition(f, t) : f \in Modes, t \in Modes }
Detections  == { Detection(d) : d \in BOOLEAN }
Signals     == Transitions \cup Detections     \* the events that move the panel
Events      == Signals \cup {ConfigChanged, Startup}

PostUnbounded(e) == evq' = Append(evq, e)

\* ev_post: dropped if the queue is full
Post(e) == evq' = IF Len(evq) < EVQ_N THEN Append(evq, e) ELSE evq

\* event_decide: the LED after e, given what it shows now; and whether e
\* turns the alarm on or off
ModeLed == [NORMAL |-> "GREEN", WARNING |-> "YELLOW", ERROR |-> "RED"]

LedAfter(e, now) ==
    IF e.src = "MONITOR" THEN ModeLed[e.to]
    ELSE IF e.src = "OBJECT" THEN (IF e.detected THEN "RED" ELSE "GREEN")
    ELSE now

AlarmOn(e)  == \/ e.src = "MONITOR" /\ e.to = "ERROR"
               \/ e.src = "OBJECT" /\ e.detected
AlarmOffByModeOnly(e) == e.src = "MONITOR" /\ e.to # "ERROR" /\ e.from = "ERROR"

AlarmOff(e) == \/ e.src = "MONITOR" /\ e.to # "ERROR" /\ e.from = "ERROR"
               \/ e.src = "OBJECT" /\ ~e.detected

----------------------------------------------------------------------------
Init ==
    /\ pc = [Comm |-> "rx", Event |-> "get", Object |-> "poll",
             Monitor |-> "mount"]
    /\ owner = [m \in Mutexes |-> Nobody]
    /\ sample = Unset
    /\ sPrev = Unset
    /\ from = Unset
    /\ sPresent = FALSE
    /\ sub = 0
    /\ button = FALSE
    /\ evq = <<>>
    /\ hand = Startup
    /\ led = "GREEN"
    /\ buzzer = FALSE
    /\ pwmBusy = FALSE
    /\ protocol = FALSE
    /\ logging = FALSE
    /\ parser = "console"

\* LOCK of any task
Acquire(t) == Lock(t) /\ UNCHANGED <<monitor, object, events, panel, comm>>

\* Sections and calls that change none of the state modelled here, with the
\* label the task is at afterwards: SD and UART output, snapshots.
Passes == { <<"Event", "append", "forward">>, <<"Event", "say", "get">>,
            <<"Monitor", "banner", "eval">>, <<"Monitor", "log", "step">>,
            <<"Monitor", "status", "show">>, <<"Monitor", "show", "delay">>,
            <<"Comm", "apply", "snap">>, <<"Comm", "snap", "persist">>,
            <<"Comm", "query", "rx">>, <<"Comm", "read", "print">>,
            <<"Comm", "print", "rx">>, <<"Comm", "send", "drain">> }

Pass(t) == \E p \in Passes :
    p[1] = t /\ Step(t, p[2], p[3]) /\ UNCHANGED <<monitor, object, events, panel, comm>>

\* EXTI interrupt of the button
ButtonIsr == button' = TRUE /\ UNCHANGED <<kernel, monitor, sPresent, sub, events, panel, comm>>

----------------------------------------------------------------------------
(* Object task: every 50 ms the button, every DetectEvery-th time the IR sensor *)

ObjectWake == Wake("Object", "delay", "poll") /\ UNCHANGED <<monitor, object, events, panel, comm>>

\* s_button = false before the read
ObjectReadButtonCleared ==
    /\ Step("Object", "poll", "clearIdle")
    /\ UNCHANGED <<monitor, object, events, panel, comm>>

\* button_pressed_clear: p = s_button ...
ObjectReadButton ==
    /\ Step("Object", "poll", IF button THEN "clearPressed" ELSE "clearIdle")
    /\ UNCHANGED <<monitor, object, events, panel, comm>>

\* ... s_button = false
ObjectClearButton ==
    /\ \/ Step("Object", "clearPressed", "stop")
       \/ Step("Object", "clearIdle", "sense")
    /\ button' = FALSE
    /\ UNCHANGED <<monitor, sPresent, sub, events, panel, comm>>

\* alarm_set(false): HAL_TIM_PWM_Stop disables the channel ...
ObjectStopBuzzer ==
    /\ Step("Object", "stop", "stopped")
    /\ buzzer' = FALSE
    /\ UNCHANGED <<monitor, object, events, led, pwmBusy, comm>>

\* ... and then marks it ready
ObjectStopDone ==
    /\ Step("Object", "stopped", "sense")
    /\ pwmBusy' = FALSE
    /\ UNCHANGED <<monitor, object, events, led, buzzer, comm>>

ObjectQuietNoReset ==
    /\ Step("Object", "sense", "delay")
    /\ sub' = sub + 1
    /\ UNCHANGED <<monitor, sPresent, button, events, panel, comm>>

\* not yet the DetectEvery-th poll, or no change at it
ObjectQuiet ==
    /\ Step("Object", "sense", "delay")
    /\ sub' = (sub + 1) % DetectEvery
    /\ UNCHANGED <<monitor, sPresent, button, events, panel, comm>>

\* objectdet_logic_step sees a change
ObjectChanged ==
    /\ Step("Object", "sense", "post")
    /\ sub + 1 = DetectEvery
    /\ sub' = 0
    /\ sPresent' = ~sPresent
    /\ UNCHANGED <<monitor, button, events, panel, comm>>

ObjectPost ==
    /\ Step("Object", "post", "delay")
    /\ Post(Detection(sPresent))
    /\ UNCHANGED <<monitor, object, hand, panel, comm>>

----------------------------------------------------------------------------
(* Monitor task: boot, then a sample every 5 s *)

MonitorMount ==
    /\ Step("Monitor", "mount", "startup")
    /\ logging' \in BOOLEAN
    /\ UNCHANGED <<monitor, object, events, panel, protocol, parser>>

MonitorStartup ==
    /\ Step("Monitor", "startup", "banner")
    /\ Post(Startup)
    /\ UNCHANGED <<monitor, object, hand, panel, comm>>

MonitorWake == Wake("Monitor", "delay", "eval") /\ UNCHANGED <<monitor, object, events, panel, comm>>

\* sensors and limits_evaluate
MonitorEvaluate ==
    /\ Step("Monitor", "eval", IF logging THEN "log" ELSE "step")
    /\ sample' \in (IF sPrev = Unset THEN FirstModes ELSE SampleModes)
    /\ UNCHANGED <<sPrev, from, object, events, panel, comm>>

\* monitor_logic_step: no event for the first sample nor for the same mode.
\* The measurement is a local of monitor_once, dead from here on.
MonitorSame ==
    /\ sPrev \in {Unset, sample}
    /\ Step("Monitor", "step", "tell")
    /\ sPrev' = sample
    /\ sample' = Unset
    /\ UNCHANGED <<from, object, events, panel, comm>>

MonitorChanged ==
    /\ sPrev \notin {Unset, sample}
    /\ Step("Monitor", "step", "post")
    /\ from' = sPrev
    /\ sPrev' = sample
    /\ sample' = Unset
    /\ UNCHANGED <<object, events, panel, comm>>

MonitorPostSwapped ==
    /\ Step("Monitor", "post", "tell")
    /\ Post(Transition(sPrev, from))
    /\ from' = Unset
    /\ UNCHANGED <<sample, sPrev, object, hand, panel, comm>>

MonitorPost ==
    /\ Step("Monitor", "post", "tell")
    /\ Post(Transition(from, sPrev))
    /\ from' = Unset
    /\ UNCHANGED <<sample, sPrev, object, hand, panel, comm>>

\* the status line is printed in console mode only
MonitorTell ==
    /\ Step("Monitor", "tell", IF protocol THEN "delay" ELSE "status")
    /\ UNCHANGED <<monitor, object, events, panel, comm>>

----------------------------------------------------------------------------
(* Event task: handle_one_event *)

EventGet ==
    /\ evq # <<>>
    /\ Step("Event", "get", "led")
    /\ hand' = Head(evq)
    /\ evq' = Tail(evq)
    /\ UNCHANGED <<monitor, object, panel, comm>>

EventLed ==
    /\ Step("Event", "led", "alarm")
    /\ led' = LedAfter(hand, led)
    /\ UNCHANGED <<monitor, object, events, buzzer, pwmBusy, comm>>

EventAlarmRetried ==
    /\ Step("Event", "alarm", IF AlarmOn(hand) /\ pwmBusy THEN "alarm"
                              ELSE IF logging THEN "append" ELSE "forward")
    /\ \/ AlarmOn(hand) /\ buzzer' = (buzzer \/ ~pwmBusy) /\ pwmBusy' = TRUE
       \/ AlarmOff(hand) /\ buzzer' = FALSE /\ pwmBusy' = FALSE
       \/ ~AlarmOn(hand) /\ ~AlarmOff(hand) /\ UNCHANGED <<buzzer, pwmBusy>>
    /\ UNCHANGED <<monitor, object, events, led, comm>>

\* alarm_set, then log_event returns at once unless s_logging.
\* HAL_TIM_PWM_Start refuses a channel that is still marked busy.
EventAlarm ==
    /\ Step("Event", "alarm", IF logging THEN "append" ELSE "forward")
    /\ \/ AlarmOn(hand) /\ buzzer' = (buzzer \/ ~pwmBusy) /\ pwmBusy' = TRUE
       \/ AlarmOff(hand) /\ buzzer' = FALSE /\ pwmBusy' = FALSE
       \/ ~AlarmOn(hand) /\ ~AlarmOff(hand) /\ UNCHANGED <<buzzer, pwmBusy>>
    /\ UNCHANGED <<monitor, object, events, led, comm>>

\* the event leaves as a frame (tx_enq never blocks) or as a console line;
\* the loop's local e is dead until the next get
EventForward ==
    /\ Step("Event", "forward", IF protocol THEN "get" ELSE "say")
    /\ hand' = Startup
    /\ UNCHANGED <<monitor, object, evq, panel, comm>>

----------------------------------------------------------------------------
(* Comm task: every 5 ms, RX and then TX *)

CommWake ==
    /\ Wake("Comm", "delay", "rx")
    /\ parser' = IF protocol THEN "binary" ELSE "console"
    /\ UNCHANGED <<monitor, object, events, panel, protocol, logging>>

\* the RX ring is empty; the choice of a parser is dead until the next pass
CommIdle ==
    /\ Step("Comm", "rx", "drain")
    /\ parser' = "console"
    /\ UNCHANGED <<monitor, object, events, panel, protocol, logging>>

\* a binary frame is complete
CommFrame ==
    /\ parser = "binary"
    /\ Inputs \cap {"SET", "QUERY", "FRAME"} # {}
    /\ Step("Comm", "rx", "handle")
    /\ UNCHANGED <<monitor, object, events, panel, comm>>

\* command_handle under the state lock: a SET_* changed the configuration, a
\* GET_*_RANGE is a query, all others change nothing here
CommHandle ==
    /\ \/ "SET" \in Inputs /\ Step("Comm", "handle", "snap")
       \/ "QUERY" \in Inputs /\ Step("Comm", "handle", "query")
       \/ "FRAME" \in Inputs /\ Step("Comm", "handle", "rx")
    /\ UNCHANGED <<monitor, object, events, panel, comm>>

\* config_persist done: exec_command posts an event, console_exec prints
CommPersist ==
    /\ Step("Comm", "persist", IF parser = "binary" THEN "notify" ELSE "print")
    /\ UNCHANGED <<monitor, object, events, panel, comm>>

CommNotify ==
    /\ Step("Comm", "notify", "rx")
    /\ Post(ConfigChanged)
    /\ UNCHANGED <<monitor, object, hand, panel, comm>>

\* a console line: tn and tw apply limits, ls, cat and get read the card,
\* proto switches modes, led drives the pins, all others print
CommLine ==
    /\ parser = "console"
    /\ \/ "TN" \in Inputs /\ Step("Comm", "rx", "apply")
       \/ "READ" \in Inputs /\ Step("Comm", "rx", "read")
       \/ "PROTO" \in Inputs /\ Step("Comm", "rx", "enter")
       \/ "LINE" \in Inputs /\ Step("Comm", "rx", "print")
    /\ UNCHANGED <<monitor, object, events, panel, comm>>

CommLed ==
    /\ parser = "console"
    /\ "LED" \in Inputs
    /\ Step("Comm", "rx", "print")
    /\ led' = "DIAG"
    /\ UNCHANGED <<monitor, object, events, buzzer, pwmBusy, comm>>

CommProto ==
    /\ Step("Comm", "enter", "rx")
    /\ protocol' = TRUE
    /\ UNCHANGED <<monitor, object, events, panel, logging, parser>>

\* tx_drain: as many sends as there are frames
CommDrain ==
    /\ \E next \in {"send", "delay"} : Step("Comm", "drain", next)
    /\ UNCHANGED <<monitor, object, events, panel, comm>>

----------------------------------------------------------------------------
Wakes == ObjectWake \/ MonitorWake \/ CommWake

ObjectNext ==
    \/ ObjectReadButton \/ ObjectClearButton \/ ObjectStopBuzzer \/ ObjectStopDone
    \/ ObjectQuiet \/ ObjectChanged \/ ObjectPost
MonitorNext ==
    \/ Acquire("Monitor") \/ Pass("Monitor")
    \/ MonitorMount \/ MonitorStartup \/ MonitorEvaluate \/ MonitorSame
    \/ MonitorChanged \/ MonitorPost \/ MonitorTell
EventNext ==
    \/ Acquire("Event") \/ Pass("Event")
    \/ EventGet \/ EventLed \/ EventAlarm \/ EventForward
CommNext ==
    \/ Acquire("Comm") \/ Pass("Comm")
    \/ CommIdle \/ CommFrame \/ CommHandle \/ CommPersist \/ CommNotify
    \/ CommLine \/ CommLed \/ CommProto \/ CommDrain

Next == ButtonIsr \/ Wakes \/ ObjectNext \/ MonitorNext \/ EventNext \/ CommNext

Spec == Init /\ [][Next]_vars

\* Every ready task gets the CPU again and again (the work of a pass takes
\* microseconds, the shortest period is 5 ms), the delays end, and the stream
\* of received bytes has gaps.
Fairness ==
    /\ SF_vars(ObjectNext) /\ SF_vars(MonitorNext) /\ SF_vars(EventNext) /\ SF_vars(CommNext)
    /\ SF_vars(CommIdle)
    /\ SF_vars(CommDrain /\ pc'["Comm"] = "delay")
    /\ WF_vars(ObjectWake) /\ WF_vars(CommWake)

FairSpec == Spec /\ Fairness

----------------------------------------------------------------------------
(* Properties *)

\* A signal is in flight while it is queued or the Event task holds it and has
\* not set the buzzer yet.
InFlight ==
    \/ \E i \in DOMAIN evq : evq[i] \in Signals
    \/ hand \in Signals /\ pc["Event"] \in {"led", "alarm"}

\* Every task is at one of its labels, and owns a mutex only inside a section
\* of that mutex.
Labels ==
    [ Event   |-> {"get", "led", "alarm", "append", "forward", "say"},
      Object  |-> {"delay", "poll", "clearPressed", "clearIdle", "stop", "stopped", "sense", "post"},
      Monitor |-> {"delay", "mount", "startup", "banner", "eval", "log", "step", "post", "tell",
                   "status", "show"},
      Comm    |-> {"delay", "rx", "handle", "snap", "persist", "notify", "query", "apply", "read",
                   "enter", "print", "drain", "send"} ]

KernelOK ==
    /\ pc \in [Tasks -> UNION {Labels[t] : t \in Tasks}]
    /\ \A t \in Tasks : pc[t] \in Labels[t]
    /\ owner \in [Mutexes -> Tasks \cup {Nobody}]
    /\ \A m \in Mutexes, t \in Tasks : owner[m] = t => pc[t] \in Sections /\ MutexOf[pc[t]] = m

\* Types of the state; who is where and who holds what.
TypeOK ==
    /\ KernelOK
    /\ sample \in Modes \cup {Unset}
    /\ sPrev \in Modes \cup {Unset}
    /\ from \in Modes \cup {Unset}
    /\ pc["Monitor"] \in {"log", "step"} => sample \in Modes
    /\ pc["Monitor"] = "post" => from \in Modes /\ sPrev \in Modes
    /\ sPresent \in BOOLEAN
    /\ sub \in 0 .. DetectEvery - 1
    /\ button \in BOOLEAN
    /\ evq \in Seq(Events) /\ Len(evq) <= EVQ_N
    /\ hand \in Events
    /\ led \in {"GREEN", "YELLOW", "RED", "DIAG"}
    /\ buzzer \in BOOLEAN
    /\ pwmBusy \in BOOLEAN
    /\ protocol \in BOOLEAN
    /\ logging \in BOOLEAN
    /\ parser \in {"console", "binary"}

\* A mode change or a detection is never lost to a full EventQueue: whenever
\* the Monitor or the Object task gets to its ev_post, the Event task has
\* already taken everything that was queued before.
SignalNeverDropped ==
    \A t \in {"Object", "Monitor"} : pc[t] = "post" /\ Runs(t) => evq = <<>>

\* The tasks never all wait for each other: with three mutexes and no nested
\* LOCK, somebody can run unless everybody is idle.
NoDeadlock == (\A t \in Tasks : ~Ready(t)) => Asleep = Tasks

\* The button's HAL_TIM_PWM_Stop is never cut in two by a HAL_TIM_PWM_Start of
\* the Event task: the timer's channel state and the buzzer agree (a buzzer
\* marked busy but silent would refuse every later alarm).
BuzzerChannelAgrees == pc["Object"] # "stopped" => buzzer = pwmBusy

\* LED and buzzer, once the signal in flight is through, are those of the
\* abstract panel on which the last reported change acts at once.  Ahead is the
\* next event to pass the given labels of the Event task.
Ahead(labels) ==
    IF pc["Event"] \in labels THEN hand ELSE IF evq # <<>> THEN Head(evq) ELSE Startup

ShownMode    == IF pc["Monitor"] = "post" THEN from ELSE sPrev
ShownPresent == IF pc["Object"] = "post" THEN ~sPresent ELSE sPresent
ShownLed     == LedAfter(Ahead({"led"}), led)
ShownBuzzer  == LET e == Ahead({"led", "alarm"}) IN AlarmOn(e) \/ (~AlarmOff(e) /\ buzzer)

Panel == INSTANCE LncPanel WITH
    mode <- ShownMode, present <- ShownPresent, led <- ShownLed, buzzer <- ShownBuzzer

\* The tasks, the queue and the interrupt implement the atomic panel: no
\* change is lost, duplicated or applied out of order.
ImplementsPanel == Panel!PanelSpec

\* The buzzer never sounds without a cause: the last reported mode is ERROR
\* or the last reported detection is of an object.
BuzzerHasCause == Panel!BuzzerHasCause

\* Every signal that was posted reaches LED and buzzer.
SignalHandled == InFlight ~> ~InFlight

\* "button stops the alarm": a press while the buzzer sounds silences it,
\* except one that comes between the read of s_button and its reset, which is
\* forgotten.
PressSilences == (button /\ buzzer /\ pc["Object"] # "clearIdle") ~> ~buzzer
=============================================================================
