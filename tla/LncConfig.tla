----------------------------- MODULE LncConfig -----------------------------
(***************************************************************************)
(* The configuration of the LNC: g_cfg in RAM, CONFIG.BIN on the SD card,  *)
(* the Monitor task that loads or creates the file at boot, the Comm task  *)
(* that executes the commands that change limits (SET_* frames, tn and tw  *)
(* lines), and resets (power, watchdog, RESET button) at any moment.       *)
(*                                                                         *)
(* A limit is a symbol: the default, an ordinary new value, or one that is *)
(* "Huge", above the 12 bits of the ADC.  The sections under StateMutex    *)
(* and StoreMutex are those of the code, LncRtos schedules them.           *)
(*                                                                         *)
(* Faults names what the environment may do besides resets that spare the  *)
(* writing of the file; see AllFaults.                                     *)
(*                                                                         *)
(* Beside some definitions stands a variant with a plausible fault, named  *)
(* for the fault; nothing uses it, and the properties reject it.           *)
(***************************************************************************)
EXTENDS Naturals

CONSTANTS
    Limits,         \* the fields of lnc_config_t that commands set
    AdcLimits,      \* those of them that the boot compares with 4095
    Values,         \* what the commands set them to
    Faults          \* what may go wrong

\* "early": a command arrives before the boot is done; "torn": a reset while
\* CONFIG.BIN is written; "noCard": the card does not mount; "readError",
\* "openError": CONFIG.BIN cannot be read, or opened for writing; "writeError":
\* it was opened, hence truncated, but takes no data
AllFaults == {"early", "torn", "noCard", "readError", "openError", "writeError"}

Default == "Default"
Huge    == "Huge"

ASSUME ConfigAssumption ==
    AdcLimits \subseteq Limits /\ Default \notin Values /\ Faults \subseteq AllFaults

Configs  == [Limits -> Values \cup {Default}]
Defaults == [l \in Limits |-> Default]          \* config_load_defaults

\* CONFIG.BIN, and the buffers its bytes pass through
Absent     == [holds |-> "nothing"]
Empty      == [holds |-> "no bytes"]
Bytes(cfg) == [holds |-> "bytes", cfg |-> cfg]
Files      == {Absent, Empty} \cup { Bytes(cfg) : cfg \in Configs }

VARIABLES
    pc, owner,      \* kernel
    g_cfg,          \* the configuration in force
    mounted,        \* s_mounted, s_logging
    file,           \* CONFIG.BIN
    buf,            \* Monitor's and Comm's serialized configuration
    allowed,        \* what the operator may find in force after a reset: the
                    \* last confirmed configuration, and the one being set
    trouble         \* the kinds of trouble since all was well: "lost", the file
                    \* or its contents are of no use; "unsaved", a change missed it

kernel == <<pc, owner>>
vars   == <<pc, owner, g_cfg, mounted, file, buf, allowed, trouble>>

Nobody == "nobody"
Tasks  == {"Comm", "Monitor"}

MutexOf == [ s \in {"mount", "load", "bootSave", "save",
                    "deserialize", "check", "defaults", "bootSnap", "apply", "snap"} |->
    IF s \in {"mount", "load", "bootSave", "save"} THEN "Store" ELSE "State" ]

\* the Monitor sleeps between samples, which only read g_cfg; the Comm task
\* between its passes
Asleep == { t \in Tasks : pc[t] = "delay" }

INSTANCE LncRtos WITH asleep <- Asleep

Booted == pc["Monitor"] = "delay"

\* lnc_app_init and lnc_app_start, after power-on or a reset
Started ==
    /\ pc' = [Monitor |-> "mount", Comm |-> "delay"]
    /\ owner' = [m \in Mutexes |-> Nobody]
    /\ g_cfg' = Defaults
    /\ mounted' = FALSE
    /\ buf' = [t \in Tasks |-> Empty]

Init ==
    /\ pc = [Monitor |-> "mount", Comm |-> "delay"]
    /\ owner = [m \in Mutexes |-> Nobody]
    /\ g_cfg = Defaults
    /\ mounted = FALSE
    /\ file = Absent
    /\ buf = [t \in Tasks |-> Empty]
    /\ allowed = {Defaults}
    /\ trouble = {}

Acquire(t) == Lock(t) /\ UNCHANGED <<g_cfg, mounted, file, buf, allowed, trouble>>

\* Nothing went wrong in a step; or something did, of the given kind.
Calm       == UNCHANGED trouble
Befalls(k) == trouble' = trouble \cup {k}

\* config_serialize, under StateMutex
Snapshot(t) ==
    /\ buf' = [buf EXCEPT ![t] = Bytes(g_cfg)]
    /\ UNCHANGED <<g_cfg, mounted, file, allowed, trouble>>

SaveBootBuffer(t) ==
    /\ IF mounted THEN file' = buf["Monitor"] ELSE UNCHANGED file
    /\ Calm

\* store_config_save, under StoreMutex: nothing without a card
Save(t) ==
    \/ mounted /\ file' = buf[t] /\ Calm
    \/ mounted /\ "writeError" \in Faults /\ file' = Empty /\ Befalls("lost")
    \/ (~mounted \/ "openError" \in Faults) /\ UNCHANGED file /\ Befalls("unsaved")

----------------------------------------------------------------------------
(* Monitor task: boot *)

\* store_init; without a card the boot goes on with the defaults
BootMount ==
    /\ \/ Step("Monitor", "mount", "load") /\ mounted' = TRUE /\ Calm
       \/ /\ "noCard" \in Faults
          /\ Step("Monitor", "mount", "booted")
          /\ Befalls("lost")
          /\ UNCHANGED mounted
    /\ UNCHANGED <<g_cfg, file, buf, allowed>>

BootLoadUnchecked ==
    /\ Step("Monitor", "load", "deserialize")
    /\ buf' = [buf EXCEPT !["Monitor"] = file]
    /\ UNCHANGED <<g_cfg, mounted, file, allowed, trouble>>

\* store_config_load: fails if there is no file
BootLoad ==
    /\ \/ /\ file = Absent
          /\ Step("Monitor", "load", "defaults")
          /\ Calm
          /\ UNCHANGED buf
       \/ /\ file # Absent /\ "readError" \in Faults
          /\ Step("Monitor", "load", "defaults")
          /\ Befalls("lost")
          /\ UNCHANGED buf
       \/ /\ file # Absent
          /\ Step("Monitor", "load", "deserialize")
          /\ buf' = [buf EXCEPT !["Monitor"] = file]
          /\ Calm
    /\ UNCHANGED <<g_cfg, mounted, file, allowed>>

\* config_deserialize: fails unless the file has the size and the magic
BootDeserialize ==
    /\ \/ /\ buf["Monitor"] = Empty
          /\ Step("Monitor", "deserialize", "defaults")
          /\ UNCHANGED g_cfg
       \/ /\ buf["Monitor"] # Empty
          /\ Step("Monitor", "deserialize", "check")
          /\ g_cfg' = buf["Monitor"].cfg
    /\ UNCHANGED <<mounted, file, buf, allowed, trouble>>

\* a lower bound above 4095 can never be met
Sane(cfg) == \A l \in AdcLimits : cfg[l] # Huge

BootCheck ==
    /\ \/ Sane(g_cfg) /\ Step("Monitor", "check", "booted")
       \/ ~Sane(g_cfg) /\ Step("Monitor", "check", "defaults")
    /\ UNCHANGED <<g_cfg, mounted, file, buf, allowed, trouble>>

BootDefaultsUnsaved ==
    /\ Step("Monitor", "defaults", "booted")
    /\ g_cfg' = Defaults
    /\ UNCHANGED <<mounted, file, buf, allowed, trouble>>

BootDefaults ==
    /\ Step("Monitor", "defaults", "bootSnap")
    /\ g_cfg' = Defaults
    /\ UNCHANGED <<mounted, file, buf, allowed, trouble>>

BootSnap == Step("Monitor", "bootSnap", "bootSave") /\ Snapshot("Monitor")

BootSave ==
    /\ Step("Monitor", "bootSave", "booted")
    /\ Save("Monitor")
    /\ UNCHANGED <<g_cfg, mounted, buf, allowed>>

\* The banner is out, sampling begins: what was in doubt is decided.
BootDone ==
    /\ Step("Monitor", "booted", "delay")
    /\ allowed' = IF g_cfg \in allowed THEN {g_cfg} ELSE allowed
    /\ UNCHANGED <<g_cfg, mounted, file, buf, trouble>>

----------------------------------------------------------------------------
(* Comm task: a command that sets a limit *)

Command ==
    /\ Wake("Comm", "delay", "apply")
    /\ \/ Booted /\ Calm
       \/ ~Booted /\ "early" \in Faults /\ Befalls("unsaved")
    /\ UNCHANGED <<g_cfg, mounted, file, buf, allowed>>

\* command_handle, or the assignments of tn and tw
Apply ==
    /\ Step("Comm", "apply", "snap")
    /\ \E l \in Limits, v \in Values : g_cfg' = [g_cfg EXCEPT ![l] = v]
    /\ allowed' = allowed \cup {g_cfg'}
    /\ IF Sane(g_cfg') THEN Calm ELSE Befalls("lost")
    /\ UNCHANGED <<mounted, file, buf>>

\* config_persist
CommSnap == Step("Comm", "snap", "save") /\ Snapshot("Comm")

CommSave ==
    /\ Step("Comm", "save", "confirm")
    /\ Save("Comm")
    /\ UNCHANGED <<g_cfg, mounted, buf, allowed>>

\* The card holds the configuration in force, and the boot will take it.
AllWell == Booted /\ mounted /\ file = Bytes(g_cfg) /\ Sane(g_cfg)

\* "OK: ... (saved)", or the config-changed event; whatever went wrong before
\* is over if the command found its way to the card
Confirm ==
    /\ Step("Comm", "confirm", "delay")
    /\ allowed' = {g_cfg}
    /\ trouble' = IF AllWell THEN {} ELSE trouble
    /\ UNCHANGED <<g_cfg, mounted, file, buf>>

----------------------------------------------------------------------------
\* FatFs truncates the file when it opens it (FA_CREATE_ALWAYS) and enters the
\* new size when it closes it.
Saving == \E t \in Tasks : pc[t] \in {"save", "bootSave"} /\ owner["Store"] = t

Reset ==
    /\ Started
    /\ \/ UNCHANGED file /\ Calm
       \/ "torn" \in Faults /\ mounted /\ Saving /\ file' = Empty /\ Befalls("lost")
    /\ UNCHANGED allowed

Boot == \/ BootMount \/ BootLoad \/ BootDeserialize \/ BootCheck \/ BootDefaults
        \/ BootSnap \/ BootSave \/ BootDone
Comm == Command \/ Apply \/ CommSnap \/ CommSave \/ Confirm

Next == (\E t \in Tasks : Acquire(t)) \/ Boot \/ Comm \/ Reset

Spec == Init /\ [][Next]_vars

----------------------------------------------------------------------------
(* Properties *)

\* Types of the state, and of the mutexes' owners.
TypeOK ==
    /\ pc \in [Tasks -> Sections \cup {"delay", "booted", "confirm"}]
    /\ owner \in [Mutexes -> Tasks \cup {Nobody}]
    /\ \A m \in Mutexes, t \in Tasks : owner[m] = t => pc[t] \in Sections /\ MutexOf[pc[t]] = m
    /\ g_cfg \in Configs
    /\ mounted \in BOOLEAN
    /\ file \in Files
    /\ buf \in [Tasks -> Files \ {Absent}]
    /\ allowed \subseteq Configs
    /\ trouble \subseteq {"lost", "unsaved"}

Quiet == Booted /\ pc["Comm"] = "delay"

\* Whatever the moment of a reset: once the boot is done and no command is
\* executed, the limits in force are those of the last confirmed command, or of
\* the one a reset interrupted.  This is so from the start, and again from any
\* command on that reached the card, until the card fails, a reset falls into
\* the writing of the file, a command comes during the boot, or a command sets
\* a limit that the boot rejects.
SettingSurvives == trouble = {} /\ Quiet => allowed = {g_cfg}

\* Once the boot is done, the card never holds a stale configuration: what it
\* holds is in force, or it is unreadable and the next boot falls back to the
\* defaults.  So it is after torn writes, failed reads, failed writes and
\* rejected limits too, unless a change has missed the card since a command
\* last reached it: the file did not open, there was no card, or the boot was
\* not done.
CardNeverStale == "unsaved" \notin trouble /\ Quiet /\ mounted => file \in {Bytes(g_cfg), Empty}

\* "these persist on the board's SD card", "saved to CONFIG.BIN and survive a
\* reset": an accepted limit is and stays in force.
AcceptedPersists == Quiet => allowed = {g_cfg}
=============================================================================
