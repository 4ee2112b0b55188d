---------------------------- MODULE LncWatchdog ----------------------------
(***************************************************************************)
(* The supervised watchdog of the LNC: the Comm and the Object task set    *)
(* their bit of g_alive at the end of each pass, the default task tests    *)
(* and clears both bits every 250 ms and refreshes the IWDG if both were   *)
(* set.  g_alive |= bit is a load and a store, and Object and default have *)
(* the same priority.                                                      *)
(*                                                                         *)
(* Time is counted in periods of the default task, of which the IWDG       *)
(* grants IWDG_N: 4.096 s, presc 32 and reload 4095 at 32 kHz.  The tasks  *)
(* above Object and default, which are Comm (a range query that reads the  *)
(* card), Event (a burst of events that go to the card) and Monitor while  *)
(* one of them waits for a mutex it holds, may keep the CPU for a stretch  *)
(* of up to BUSY_N periods.  A watched task may hang, that is block or     *)
(* spin for ever; at most RACES_N passes of the Comm task between two      *)
(* refreshes fall into the two instructions of the Object task, and their  *)
(* bit is lost.                                                            *)
(*                                                                         *)
(* Beside some definitions stands a variant with a plausible fault, named  *)
(* for the fault; nothing uses it, and the properties reject it.           *)
(***************************************************************************)
EXTENDS Naturals

CONSTANTS
    IWDG_N,         \* periods until the IWDG resets the board (16)
    BUSY_N,         \* the longest stretch, in whole periods
    RACES_N,        \* passes of the Comm task lost between two refreshes
    Blocking,       \* the tasks that may block for ever
    Spinning        \* the tasks that may spin for ever

Watched == {"Comm", "Object"}

ASSUME WatchdogAssumption ==
    /\ IWDG_N \in Nat \ {0} /\ BUSY_N \in Nat /\ RACES_N \in Nat
    /\ Blocking \cup Spinning \subseteq Watched

VARIABLES
    pc, owner,      \* kernel; no mutex is involved
    g_alive,        \* the tasks whose bit is set
    reg,            \* the value each task has loaded from g_alive
    left,           \* periods the stretch still takes
    iwdg,           \* periods left until the reset
    races,          \* lost passes since the last refresh
    ran,            \* tasks that ended a pass in this period
    seen,           \* tasks that ended a pass since the last refresh
    vouched         \* seen, when the refresh was decided

vars == <<pc, owner, g_alive, reg, left, iwdg, races, ran, seen, vouched>>

Nobody  == "nobody"
Tasks   == {"Comm", "Event", "Object", "Default"}
MutexOf == [s \in {} |-> Nobody]

Hung == { t \in Watched : pc[t] \in {"blocked", "spin"} }

Asleep == { t \in Tasks : pc[t] \in {"wait", "delay", "blocked"} }

INSTANCE LncRtos WITH asleep <- Asleep

Init ==
    /\ pc = [Comm |-> "delay", Event |-> "wait", Object |-> "delay", Default |-> "delay"]
    /\ owner = [m \in Mutexes |-> Nobody]
    /\ g_alive = {}
    /\ reg = [t \in Watched |-> {}]
    /\ left = 0
    /\ iwdg = IWDG_N
    /\ races = 0
    /\ ran = {}
    /\ seen = {}
    /\ vouched = Watched

----------------------------------------------------------------------------
(* What keeps the CPU from Object and default *)

\* A stretch begins when both have had their turn since the last one, and not
\* within the two instructions; what is shorter may interrupt them anywhere.
HadTurn ==
    /\ pc["Default"] = "delay"
    /\ pc["Object"] = "delay" \/ (pc["Object"] # "store" /\ "Object" \in ran)

Stretch == left' \in IF left = 0 /\ HadTurn THEN 0 .. BUSY_N ELSE {left}

\* It goes on as long as one of them works.
EventWake ==
    /\ "Event" \notin ran
    /\ Wake("Event", "wait", "work")
    /\ Stretch
    /\ UNCHANGED <<g_alive, reg, iwdg, races, ran, seen, vouched>>

\* The queue is empty.  One burst in a period is enough: what it keeps from the
\* others is time, and that is the stretch's.
EventDone ==
    /\ left = 0 \/ pc["Comm"] = "work"
    /\ Step("Event", "work", "wait")
    /\ ran' = ran \cup {"Event"}
    /\ UNCHANGED <<g_alive, reg, left, iwdg, races, seen, vouched>>

----------------------------------------------------------------------------
(* Comm and Object: a pass, then g_alive |= bit *)

\* A pass that begins while the Object task is between load and store
Lose == IF pc["Object"] = "store" THEN races < RACES_N /\ races' = races + 1
                                  ELSE UNCHANGED races

CommWake ==
    /\ Wake("Comm", "delay", "work")
    /\ Stretch
    /\ Lose
    /\ UNCHANGED <<g_alive, reg, iwdg, ran, seen, vouched>>

ObjectWake ==
    /\ Wake("Object", "delay", "work")
    /\ UNCHANGED <<g_alive, reg, left, iwdg, races, ran, seen, vouched>>

Work(t) ==
    /\ t = "Comm" => left = 0 \/ pc["Event"] = "work"
    /\ Step(t, "work", "load")
    /\ UNCHANGED <<g_alive, reg, left, iwdg, races, ran, seen, vouched>>

Hang(t) ==
    /\ \/ t \in Blocking /\ Step(t, "work", "blocked")
       \/ t \in Spinning /\ Step(t, "work", "spin")
    /\ UNCHANGED <<g_alive, reg, left, iwdg, races, ran, seen, vouched>>

Load(t) ==
    /\ Step(t, "load", "store")
    /\ reg' = [reg EXCEPT ![t] = g_alive]
    /\ UNCHANGED <<g_alive, left, iwdg, races, ran, seen, vouched>>

StoreAll(t) ==
    /\ Step(t, "store", "delay")
    /\ g_alive' = Watched
    /\ reg' = [reg EXCEPT ![t] = {}]
    /\ ran' = ran \cup {t}
    /\ seen' = seen \cup {t}
    /\ UNCHANGED <<left, iwdg, races, vouched>>

StoreOverwrites(t) ==
    /\ Step(t, "store", "delay")
    /\ g_alive' = {t}
    /\ reg' = [reg EXCEPT ![t] = {}]
    /\ ran' = ran \cup {t}
    /\ seen' = seen \cup {t}
    /\ UNCHANGED <<left, iwdg, races, vouched>>

\* the loaded value is dead after the store
Store(t) ==
    /\ Step(t, "store", "delay")
    /\ g_alive' = reg[t] \cup {t}
    /\ reg' = [reg EXCEPT ![t] = {}]
    /\ ran' = ran \cup {t}
    /\ seen' = seen \cup {t}
    /\ UNCHANGED <<left, iwdg, races, vouched>>

----------------------------------------------------------------------------
(* Default task: lnc_app_watchdog_step *)

CheckWithoutClear ==
    /\ g_alive = Watched
    /\ Step("Default", "check", "refresh")
    /\ vouched' = seen
    /\ seen' = {}
    /\ UNCHANGED <<g_alive, reg, left, iwdg, races, ran>>

\* test and clear, in a critical section
CheckGood ==
    /\ g_alive = Watched
    /\ Step("Default", "check", "refresh")
    /\ g_alive' = {}
    /\ vouched' = seen
    /\ seen' = {}
    /\ UNCHANGED <<reg, left, iwdg, races, ran>>

CheckBad ==
    /\ g_alive # Watched
    /\ Step("Default", "check", "delay")
    /\ UNCHANGED <<g_alive, reg, left, iwdg, races, ran, seen, vouched>>

RefreshOffByOne ==
    /\ Step("Default", "refresh", "delay")
    /\ iwdg' = IWDG_N + 1
    /\ races' = 0
    /\ UNCHANGED <<g_alive, reg, left, ran, seen, vouched>>

Refresh ==
    /\ Step("Default", "refresh", "delay")
    /\ iwdg' = IWDG_N
    /\ races' = 0
    /\ UNCHANGED <<g_alive, reg, left, ran, seen, vouched>>

----------------------------------------------------------------------------
\* A period ends, and with it every delay.  In it every task ran that could:
\* all did, or the tasks above kept the CPU for themselves.
Occupied == pc["Comm"] = "spin" \/ left > 0

Woken == [Comm |-> "work", Object |-> "work", Default |-> "check"]

Period ==
    /\ iwdg > 0
    /\ Occupied \/ (pc["Default"] = "delay" /\ Watched \ Hung \subseteq ran)
    /\ iwdg' = iwdg - 1
    /\ left' = IF left > 0 THEN left - 1 ELSE 0
    /\ ran' = {}
    /\ pc' = [t \in Tasks |-> IF pc[t] = "delay" THEN Woken[t] ELSE pc[t]]
    /\ IF pc["Comm"] = "delay" THEN Lose ELSE UNCHANGED races
    /\ UNCHANGED <<owner, g_alive, reg, seen, vouched>>

\* The IWDG resets the board.
Reset ==
    /\ iwdg = 0
    /\ pc' = [Comm |-> "delay", Event |-> "wait", Object |-> "delay", Default |-> "delay"]
    /\ g_alive' = {}
    /\ reg' = [t \in Watched |-> {}]
    /\ left' = 0
    /\ iwdg' = IWDG_N
    /\ races' = 0
    /\ ran' = {}
    /\ seen' = {}
    /\ vouched' = Watched
    /\ UNCHANGED owner

Next ==
    \/ CommWake \/ ObjectWake \/ EventWake \/ EventDone
    \/ \E t \in Watched : Work(t) \/ Hang(t) \/ Load(t) \/ Store(t)
    \/ CheckGood \/ CheckBad \/ Refresh \/ Period \/ Reset

Spec == Init /\ [][Next]_vars

\* Time passes, the delays end, and a ready task gets the CPU again and again
\* unless a more urgent one spins.
Fairness ==
    /\ WF_vars(Period) /\ WF_vars(Reset) /\ WF_vars(CommWake) /\ WF_vars(ObjectWake)
    /\ WF_vars(EventDone)
    /\ WF_vars(Work("Comm") \/ Load("Comm") \/ Store("Comm"))
    /\ SF_vars(Work("Object") \/ Load("Object") \/ Store("Object"))
    /\ SF_vars(CheckGood \/ CheckBad \/ Refresh)

FairSpec == Spec /\ Fairness

----------------------------------------------------------------------------
(* Properties *)

\* Types of the state.
TypeOK ==
    /\ pc \in [Tasks -> {"wait", "delay", "work", "blocked", "spin", "load", "store", "check", "refresh"}]
    /\ g_alive \subseteq Watched
    /\ reg \in [Watched -> SUBSET Watched]
    /\ left \in 0 .. BUSY_N
    /\ iwdg \in 0 .. IWDG_N
    /\ races \in 0 .. RACES_N
    /\ ran \subseteq Watched \cup {"Event"} /\ seen \subseteq Watched /\ vouched \subseteq Watched

\* The IWDG is refreshed only if the Object task ended a pass since the last
\* refresh, however its store interleaves with the clearing of the bits.
ObjectVouched == pc["Default"] = "refresh" => "Object" \in vouched

\* No reset without a hang, if two stretches together are shorter than the
\* time the IWDG grants: the check after the first may come before the Object
\* task's check-in.
NoFalseReset == Hung = {} => iwdg > 0

\* "a hung Comm/Object task actually triggers a reset", even if the Comm task
\* spins above everybody else.  (A blocked Comm task need not: as long as the
\* check falls between load and store of the Object task, pass after pass, the
\* store brings the Comm task's bit back.)
HangResets == \A t \in Watched : (t \in Hung) ~> (iwdg = 0)
=============================================================================
