------------------------------ MODULE LncPanel ------------------------------
(***************************************************************************)
(* What the RGB LED and the buzzer promise, as one atomic machine: every   *)
(* change of the mode or of the detected object sets both at once, in the  *)
(* order the changes are reported, and the button silences the buzzer.     *)
(* LncEvents, with its tasks, queue and interrupts, implements it.         *)
(***************************************************************************)
CONSTANT FirstModes      \* the modes the first sample after a boot may find

Modes == {"NORMAL", "WARNING", "ERROR"}
Unset == "UNSET"         \* no sample yet: s_have_prev = false
Diag  == "DIAG"          \* the LED pins were driven by the led command

VARIABLES mode, present, led, buzzer

panelVars == <<mode, present, led, buzzer>>

\* event_decide for a transition of the Monitor module
ModeLed == [NORMAL |-> "GREEN", WARNING |-> "YELLOW", ERROR |-> "RED"]
ModeBuzzer(from, to, now) == to = "ERROR" \/ (from # "ERROR" /\ now)

\* event_decide for a detection of the Object module
ObjectLed(detected) == IF detected THEN "RED" ELSE "GREEN"

PanelInit == mode = Unset /\ ~present /\ led = "GREEN" /\ ~buzzer

FirstSample == mode = Unset /\ mode' \in FirstModes /\ UNCHANGED <<present, led, buzzer>>

ModeChange ==
    /\ mode # Unset
    /\ mode' \in Modes \ {mode}
    /\ led' = ModeLed[mode']
    /\ buzzer' = ModeBuzzer(mode, mode', buzzer)
    /\ UNCHANGED present

ObjectChange ==
    /\ present' = ~present
    /\ led' = ObjectLed(present')
    /\ buzzer' = present'
    /\ UNCHANGED mode

Silence == buzzer /\ ~buzzer' /\ UNCHANGED <<mode, present, led>>

DriveLed == led' = Diag /\ UNCHANGED <<mode, present, buzzer>>

PanelNext == FirstSample \/ ModeChange \/ ObjectChange \/ Silence \/ DriveLed

PanelSpec == PanelInit /\ [][PanelNext]_panelVars

\* The buzzer never sounds without a cause: the last mode was ERROR or an
\* object is in front of the sensor.
BuzzerHasCause == buzzer => mode = "ERROR" \/ present
=============================================================================
