-------------------------- MODULE LncConfig_proofs --------------------------
(***************************************************************************)
(* Proofs about LncConfig for every set of limits, every set of values and *)
(* every combination of faults.                                            *)
(***************************************************************************)
EXTENDS LncConfig, TLAPS

Labels == Sections \cup {"delay", "booted", "confirm"}

\* Every task is at one of the labels, and owns a mutex only inside a section
\* of that mutex.
KernelOK ==
    /\ pc \in [Tasks -> Labels]
    /\ owner \in [Mutexes -> Tasks \cup {Nobody}]
    /\ \A m \in Mutexes, t \in Tasks : owner[m] = t => pc[t] \in Sections /\ MutexOf[pc[t]] = m

\* The labels that matter to the kernel, spelled out.
LEMMA SectionLabels ==
    /\ Sections = {"mount", "load", "bootSave", "save",
                   "deserialize", "check", "defaults", "bootSnap", "apply", "snap"}
    /\ \A s \in Sections : MutexOf[s] \in Mutexes
    /\ Nobody \notin Tasks
    /\ Tasks = {"Comm", "Monitor"}
  BY DEF Sections, MutexOf, Mutexes, Nobody, Tasks

\* A step of a task keeps the kernel in order, moves that task alone, and in a
\* section needs its mutex.
LEMMA StepKernel ==
    ASSUME NEW t \in Tasks, NEW at, NEW next \in Labels, KernelOK, Step(t, at, next)
    PROVE  /\ KernelOK'
           /\ pc[t] = at /\ pc'[t] = next
           /\ \A u \in Tasks \ {t} : pc'[u] = pc[u]
<1>1. pc' = [pc EXCEPT ![t] = next] /\ pc[t] = at
  BY DEF Step
<1>2. pc' \in [Tasks -> Labels] /\ pc'[t] = next /\ \A u \in Tasks \ {t} : pc'[u] = pc[u]
  BY <1>1 DEF KernelOK
<1>3. owner' \in [Mutexes -> Tasks \cup {Nobody}]
  BY SectionLabels DEF KernelOK, Step
<1>4. ASSUME NEW m \in Mutexes, NEW u \in Tasks, owner'[m] = u
      PROVE  pc'[u] \in Sections /\ MutexOf[pc'[u]] = m
  <2>1. owner[m] = u
    BY <1>4, SectionLabels DEF KernelOK, Step
  <2>2. pc[u] \in Sections /\ MutexOf[pc[u]] = m
    BY <2>1 DEF KernelOK
  <2>3. u # t
    BY <1>1, <1>4, <2>1, <2>2, SectionLabels DEF KernelOK, Step
  <2>4. QED
    BY <1>2, <2>2, <2>3
<1>5. QED
  BY <1>1, <1>2, <1>3, <1>4 DEF KernelOK

\* Taking a mutex keeps the kernel in order and moves nobody.
LEMMA LockKernel ==
    ASSUME NEW t \in Tasks, KernelOK, Lock(t)
    PROVE  KernelOK' /\ pc' = pc
<1>1. owner' = [owner EXCEPT ![MutexOf[pc[t]]] = t] /\ pc' = pc
  BY DEF Lock
<1>2. owner' \in [Mutexes -> Tasks \cup {Nobody}]
  BY <1>1 DEF KernelOK
<1>3. ASSUME NEW m \in Mutexes, NEW u \in Tasks, owner'[m] = u
      PROVE  pc'[u] \in Sections /\ MutexOf[pc'[u]] = m
  BY <1>1, <1>3 DEF KernelOK, Lock
<1>4. QED
  BY <1>1, <1>2, <1>3 DEF KernelOK

\* So does the arrival of a command, which wakes the Comm task.
LEMMA WakeKernel ==
    ASSUME KernelOK, Wake("Comm", "delay", "apply")
    PROVE  /\ KernelOK'
           /\ pc["Comm"] = "delay" /\ pc'["Comm"] = "apply" /\ pc'["Monitor"] = pc["Monitor"]
<1>1. pc' = [pc EXCEPT !["Comm"] = "apply"] /\ pc["Comm"] = "delay" /\ owner' = owner
  BY DEF Wake
<1>2. /\ pc' \in [Tasks -> Labels]
      /\ pc'["Comm"] = "apply" /\ pc'["Monitor"] = pc["Monitor"]
  BY <1>1, SectionLabels DEF KernelOK, Labels
<1>3. ASSUME NEW m \in Mutexes, NEW u \in Tasks, owner'[m] = u
      PROVE  pc'[u] \in Sections /\ MutexOf[pc'[u]] = m
  BY <1>1, <1>3, SectionLabels DEF KernelOK
<1>4. QED
  BY <1>1, <1>2, <1>3 DEF KernelOK

\* A reset starts both tasks and frees every mutex.
LEMMA StartedKernel ==
    ASSUME Started
    PROVE  KernelOK' /\ pc'["Monitor"] = "mount" /\ pc'["Comm"] = "delay"
  BY SectionLabels DEF Started, KernelOK, Labels

\* CONFIG.BIN's possible contents are told apart by "holds".
LEMMA FileKinds ==
    /\ Absent \in Files /\ Empty \in Files /\ Absent # Empty
    /\ \A c : Bytes(c) # Absent /\ Bytes(c) # Empty /\ Bytes(c).cfg = c
    /\ \A c \in Configs : Bytes(c) \in Files
    /\ \A f \in Files : f = Absent \/ f = Empty \/ \E c \in Configs : f = Bytes(c)
    /\ Defaults \in Configs
<1>1. Absent.holds = "nothing" /\ Empty.holds = "no bytes" /\ \A c : Bytes(c).holds = "bytes" /\ Bytes(c).cfg = c
  BY DEF Absent, Empty, Bytes
<1>2. Defaults \in Configs
  BY DEF Defaults, Configs
<1>3. Absent # Empty /\ \A c : Bytes(c) # Absent /\ Bytes(c) # Empty
  BY <1>1
<1>4. QED
  BY <1>1, <1>2, <1>3 DEF Files

\* What store_config_save may do, for any buffer that holds bytes or none.
LEMMA SaveTypes ==
    ASSUME NEW t \in Tasks, TypeOK, Save(t)
    PROVE  file' \in Files /\ trouble' \subseteq {"lost", "unsaved"}
<1>1. file \in Files /\ buf[t] \in Files /\ trouble \subseteq {"lost", "unsaved"}
  BY DEF TypeOK
<1>2. /\ file' \in {file, buf[t], Empty}
      /\ trouble' \in {trouble, trouble \cup {"lost"}, trouble \cup {"unsaved"}}
  BY DEF Save, Calm, Befalls
<1>3. file' \in Files
  BY <1>1, <1>2, FileKinds
<1>4. trouble' \subseteq {"lost", "unsaved"}
  BY <1>1, <1>2
<1>5. QED
  BY <1>3, <1>4

----------------------------------------------------------------------------
(* Type correctness *)

\* In every reachable state, resets and faults included, the configuration in
\* force, the file and the buffers are well formed, and every mutex is held
\* only by a task inside its section.
THEOREM TypeInvariant == Spec => []TypeOK
<1>0. TypeOK <=> /\ KernelOK /\ g_cfg \in Configs /\ mounted \in BOOLEAN /\ file \in Files
                 /\ buf \in [Tasks -> Files \ {Absent}] /\ allowed \subseteq Configs
                 /\ trouble \subseteq {"lost", "unsaved"}
  BY DEF TypeOK, KernelOK, Labels
<1>1. Init => TypeOK
  <2> SUFFICES ASSUME Init PROVE TypeOK
    OBVIOUS
  <2>1. KernelOK
    BY SectionLabels DEF Init, KernelOK, Labels
  <2>2. QED
    BY <1>0, <2>1, FileKinds DEF Init
<1>2. TypeOK /\ [Next]_vars => TypeOK'
  <2> SUFFICES ASSUME TypeOK, [Next]_vars PROVE TypeOK'
    OBVIOUS
  <2>0. KernelOK /\ TypeOK
    BY <1>0
  <2>1. CASE \E t \in Tasks : Acquire(t)
    BY <2>0, <2>1, LockKernel DEF Acquire, TypeOK, KernelOK, Labels
  <2>2. CASE BootMount
    <3>1. KernelOK'
      BY <2>0, <2>2, StepKernel, SectionLabels DEF BootMount, Labels
    <3>2. QED
      BY <2>2, <3>1 DEF BootMount, TypeOK, KernelOK, Labels, Calm, Befalls
  <2>3. CASE BootLoad
    <3>1. KernelOK'
      BY <2>0, <2>3, StepKernel, SectionLabels DEF BootLoad, Labels
    <3>2. buf' \in [Tasks -> Files \ {Absent}]
      <4>1. buf' = buf \/ (file # Absent /\ buf' = [buf EXCEPT !["Monitor"] = file])
        BY <2>3 DEF BootLoad
      <4>2. QED
        BY <4>1 DEF TypeOK
    <3>3. trouble' \subseteq {"lost", "unsaved"}
      BY <2>3 DEF BootLoad, TypeOK, Calm, Befalls
    <3>4. UNCHANGED <<g_cfg, mounted, file, allowed>>
      BY <2>3 DEF BootLoad
    <3>5. QED
      BY <3>1, <3>2, <3>3, <3>4 DEF TypeOK, KernelOK, Labels
  <2>4. CASE BootDeserialize
    <3>1. KernelOK'
      BY <2>0, <2>4, StepKernel, SectionLabels DEF BootDeserialize, Labels
    <3>2. buf["Monitor"] \in Files /\ buf["Monitor"] # Absent
      BY SectionLabels DEF TypeOK
    <3>3. buf["Monitor"] # Empty => buf["Monitor"].cfg \in Configs
      BY <3>2, FileKinds
    <3>4. QED
      BY <2>4, <3>1, <3>3 DEF BootDeserialize, TypeOK, KernelOK, Labels
  <2>5. CASE BootCheck
    <3>1. KernelOK'
      BY <2>0, <2>5, StepKernel, SectionLabels DEF BootCheck, Labels
    <3>2. QED
      BY <2>5, <3>1 DEF BootCheck, TypeOK, KernelOK, Labels
  <2>6. CASE BootDefaults
    <3>1. KernelOK'
      BY <2>0, <2>6, StepKernel, SectionLabels DEF BootDefaults, Labels
    <3>2. QED
      BY <2>6, <3>1, FileKinds DEF BootDefaults, TypeOK, KernelOK, Labels
  <2>7. CASE BootSnap
    <3>1. KernelOK'
      BY <2>0, <2>7, StepKernel, SectionLabels DEF BootSnap, Labels
    <3>2. QED
      BY <2>7, <3>1, FileKinds, SectionLabels DEF BootSnap, Snapshot, TypeOK, KernelOK, Labels
  <2>8. CASE BootSave
    <3>1. KernelOK'
      BY <2>0, <2>8, StepKernel, SectionLabels DEF BootSave, Labels
    <3>2. QED
      BY <2>8, <3>1, SaveTypes, SectionLabels DEF BootSave, TypeOK, KernelOK, Labels
  <2>9. CASE BootDone
    <3>1. KernelOK'
      BY <2>0, <2>9, StepKernel, SectionLabels DEF BootDone, Labels
    <3>2. QED
      BY <2>9, <3>1 DEF BootDone, TypeOK, KernelOK, Labels
  <2>10. CASE Command
    <3>1. KernelOK'
      BY <2>0, <2>10, WakeKernel DEF Command
    <3>2. QED
      BY <2>10, <3>1 DEF Command, TypeOK, KernelOK, Labels, Calm, Befalls
  <2>11. CASE Apply
    <3>1. KernelOK'
      BY <2>0, <2>11, StepKernel, SectionLabels DEF Apply, Labels
    <3>2. g_cfg' \in Configs
      BY <2>11 DEF Apply, TypeOK, Configs
    <3>3. QED
      BY <2>11, <3>1, <3>2 DEF Apply, TypeOK, KernelOK, Labels, Calm, Befalls
  <2>12. CASE CommSnap
    <3>1. KernelOK'
      BY <2>0, <2>12, StepKernel, SectionLabels DEF CommSnap, Labels
    <3>2. QED
      BY <2>12, <3>1, FileKinds, SectionLabels DEF CommSnap, Snapshot, TypeOK, KernelOK, Labels
  <2>13. CASE CommSave
    <3>1. KernelOK'
      BY <2>0, <2>13, StepKernel, SectionLabels DEF CommSave, Labels
    <3>2. QED
      BY <2>13, <3>1, SaveTypes, SectionLabels DEF CommSave, TypeOK, KernelOK, Labels
  <2>14. CASE Confirm
    <3>1. KernelOK'
      BY <2>0, <2>14, StepKernel, SectionLabels DEF Confirm, Labels
    <3>2. QED
      BY <2>14, <3>1 DEF Confirm, TypeOK, KernelOK, Labels
  <2>15. CASE Reset
    <3>1. KernelOK'
      BY <2>15, StartedKernel DEF Reset
    <3>2. QED
      BY <2>15, <3>1, FileKinds DEF Reset, Started, TypeOK, KernelOK, Labels, Calm, Befalls
  <2>16. CASE UNCHANGED vars
    BY <2>16 DEF vars, TypeOK
  <2>17. QED
    BY <2>1, <2>2, <2>3, <2>4, <2>5, <2>6, <2>7, <2>8, <2>9, <2>10, <2>11, <2>12, <2>13, <2>14,
       <2>15, <2>16 DEF Next, Boot, Comm
<1>3. QED
  BY <1>1, <1>2, PTL DEF Spec
----------------------------------------------------------------------------
(* What is in force is what the card holds *)

\* The boot past store_init, on a card that mounted.
OnCard == {"load", "deserialize", "check", "defaults", "bootSnap", "bootSave"}

\* What each label knows of the file, as long as no change missed it.
CardKnown ==
    /\ ~Booted => pc["Comm"] = "delay"
    /\ pc["Monitor"] = "deserialize" => buf["Monitor"] = file
    /\ pc["Monitor"] = "check" => file = Bytes(g_cfg)
    /\ pc["Monitor"] = "bootSave" => buf["Monitor"] = Bytes(g_cfg)
    /\ pc["Comm"] = "save" => buf["Comm"] = Bytes(g_cfg)
    /\ mounted /\ (pc["Monitor"] = "booted" \/ (Booted /\ pc["Comm"] \in {"delay", "apply", "confirm"}))
         => file \in {Bytes(g_cfg), Empty}

CardInv ==
    /\ pc["Monitor"] = "mount" => ~mounted
    /\ pc["Monitor"] \in OnCard => mounted
    /\ "unsaved" \notin trouble => CardKnown

\* Reachable states keep, label by label, what the card holds in step with the
\* configuration in force: resets, torn writes and failed reads included.
THEOREM CardInvariant == Spec => []CardInv
<1>1. Init => CardInv
  BY DEF Init, CardInv, CardKnown, OnCard, Booted
<1>2. TypeOK /\ CardInv /\ [Next]_vars => CardInv'
  <2> SUFFICES ASSUME TypeOK, CardInv, [Next]_vars PROVE CardInv'
    OBVIOUS
  <2>0. KernelOK
    BY DEF TypeOK, KernelOK, Labels
  <2> USE DEF CardInv, CardKnown, OnCard, Booted, Calm, Befalls
  <2>1. CASE \E t \in Tasks : Acquire(t)
    BY <2>0, <2>1, LockKernel DEF Acquire
  <2>2. CASE BootMount
    <3>1. pc["Monitor"] = "mount" /\ pc'["Monitor"] \in {"load", "booted"} /\ pc'["Comm"] = pc["Comm"]
      BY <2>0, <2>2, StepKernel, SectionLabels DEF BootMount, Labels
    <3>2. \/ pc'["Monitor"] = "load" /\ mounted'
          \/ pc'["Monitor"] = "booted" /\ ~mounted'
      BY <2>0, <2>2, <3>1, StepKernel, SectionLabels DEF BootMount, Labels
    <3>3. "unsaved" \notin trouble' => "unsaved" \notin trouble
      BY <2>2 DEF BootMount
    <3>4. QED
      BY <2>2, <3>1, <3>2, <3>3 DEF BootMount
  <2>3. CASE BootLoad
    <3>1. /\ pc["Monitor"] = "load" /\ pc'["Comm"] = pc["Comm"]
          /\ \/ pc'["Monitor"] = "defaults"
             \/ pc'["Monitor"] = "deserialize" /\ buf' = [buf EXCEPT !["Monitor"] = file] /\ Calm
      BY <2>0, <2>3, StepKernel, SectionLabels DEF BootLoad, Labels
    <3>2. pc'["Monitor"] = "deserialize" => buf'["Monitor"] = file
      BY <3>1, SectionLabels DEF TypeOK
    <3>3. QED
      BY <2>3, <3>1, <3>2 DEF BootLoad
  <2>4. CASE BootDeserialize
    <3>1. /\ pc["Monitor"] = "deserialize" /\ pc'["Comm"] = pc["Comm"]
          /\ \/ pc'["Monitor"] = "defaults"
             \/ pc'["Monitor"] = "check" /\ buf["Monitor"] # Empty /\ g_cfg' = buf["Monitor"].cfg
      BY <2>0, <2>4, StepKernel, SectionLabels DEF BootDeserialize, Labels
    <3>2. buf["Monitor"] \in Files /\ buf["Monitor"] # Absent
      BY SectionLabels DEF TypeOK
    <3>3. buf["Monitor"] # Empty => buf["Monitor"] = Bytes(buf["Monitor"].cfg)
      BY <3>2, FileKinds
    <3>4. QED
      BY <2>4, <3>1, <3>3 DEF BootDeserialize
  <2>5. CASE BootCheck
    <3>1. /\ pc["Monitor"] = "check" /\ pc'["Monitor"] \in {"booted", "defaults"}
          /\ pc'["Comm"] = pc["Comm"]
      BY <2>0, <2>5, StepKernel, SectionLabels DEF BootCheck, Labels
    <3>2. QED
      BY <2>5, <3>1 DEF BootCheck
  <2>6. CASE BootDefaults
    <3>1. pc["Monitor"] = "defaults" /\ pc'["Monitor"] = "bootSnap" /\ pc'["Comm"] = pc["Comm"]
      BY <2>0, <2>6, StepKernel, SectionLabels DEF BootDefaults, Labels
    <3>2. QED
      BY <2>6, <3>1 DEF BootDefaults
  <2>7. CASE BootSnap
    <3>1. pc["Monitor"] = "bootSnap" /\ pc'["Monitor"] = "bootSave" /\ pc'["Comm"] = pc["Comm"]
      BY <2>0, <2>7, StepKernel, SectionLabels DEF BootSnap, Labels
    <3>2. buf'["Monitor"] = Bytes(g_cfg)
      BY <2>7, SectionLabels DEF BootSnap, Snapshot, TypeOK
    <3>3. QED
      BY <2>7, <3>1, <3>2 DEF BootSnap, Snapshot
  <2>8. CASE BootSave
    <3>1. pc["Monitor"] = "bootSave" /\ pc'["Monitor"] = "booted" /\ pc'["Comm"] = pc["Comm"]
      BY <2>0, <2>8, StepKernel, SectionLabels DEF BootSave, Labels
    <3>2. QED
      BY <2>8, <3>1 DEF BootSave, Save
  <2>9. CASE BootDone
    <3>1. pc["Monitor"] = "booted" /\ pc'["Monitor"] = "delay" /\ pc'["Comm"] = pc["Comm"]
      BY <2>0, <2>9, StepKernel, SectionLabels DEF BootDone, Labels
    <3>2. QED
      BY <2>9, <3>1 DEF BootDone
  <2>10. CASE Command
    <3>1. pc["Comm"] = "delay" /\ pc'["Comm"] = "apply" /\ pc'["Monitor"] = pc["Monitor"]
      BY <2>0, <2>10, WakeKernel DEF Command
    <3>2. QED
      BY <2>10, <3>1 DEF Command
  <2>11. CASE Apply
    <3>1. pc["Comm"] = "apply" /\ pc'["Comm"] = "snap" /\ pc'["Monitor"] = pc["Monitor"]
      BY <2>0, <2>11, StepKernel, SectionLabels DEF Apply, Labels
    <3>2. "unsaved" \notin trouble' => "unsaved" \notin trouble
      BY <2>11 DEF Apply
    <3>3. QED
      BY <2>11, <3>1, <3>2 DEF Apply
  <2>12. CASE CommSnap
    <3>1. pc["Comm"] = "snap" /\ pc'["Comm"] = "save" /\ pc'["Monitor"] = pc["Monitor"]
      BY <2>0, <2>12, StepKernel, SectionLabels DEF CommSnap, Labels
    <3>2. buf'["Comm"] = Bytes(g_cfg)
      BY <2>12, SectionLabels DEF CommSnap, Snapshot, TypeOK
    <3>3. QED
      BY <2>12, <3>1, <3>2 DEF CommSnap, Snapshot
  <2>13. CASE CommSave
    <3>1. pc["Comm"] = "save" /\ pc'["Comm"] = "confirm" /\ pc'["Monitor"] = pc["Monitor"]
      BY <2>0, <2>13, StepKernel, SectionLabels DEF CommSave, Labels
    <3>2. QED
      BY <2>13, <3>1 DEF CommSave, Save
  <2>14. CASE Confirm
    <3>1. pc["Comm"] = "confirm" /\ pc'["Comm"] = "delay" /\ pc'["Monitor"] = pc["Monitor"]
      BY <2>0, <2>14, StepKernel, SectionLabels DEF Confirm, Labels
    <3>2. AllWell \/ trouble' = trouble
      BY <2>14 DEF Confirm
    <3>3. CASE AllWell
      BY <2>14, <3>1, <3>3 DEF Confirm, AllWell
    <3>4. CASE trouble' = trouble
      BY <2>14, <3>1, <3>4 DEF Confirm
    <3>5. QED
      BY <3>2, <3>3, <3>4
  <2>15. CASE Reset
    <3>1. pc'["Monitor"] = "mount" /\ pc'["Comm"] = "delay" /\ ~mounted'
      BY <2>15, StartedKernel DEF Reset, Started
    <3>2. QED
      BY <3>1
  <2>16. CASE UNCHANGED vars
    BY <2>16 DEF vars
  <2>17. QED
    BY <2>1, <2>2, <2>3, <2>4, <2>5, <2>6, <2>7, <2>8, <2>9, <2>10, <2>11, <2>12, <2>13, <2>14,
       <2>15, <2>16 DEF Next, Boot, Comm
<1>3. QED
  BY <1>1, <1>2, TypeInvariant, PTL DEF Spec

\* Unless a change has missed the card since a command last reached it, because
\* the file did not open, there was no card or the boot was not done, the card
\* holds what is in force, or the next boot cannot read it and saves the
\* defaults: after torn writes, failed reads and writes and resets too.
THEOREM CardInForce == Spec => []CardNeverStale
<1>1. CardInv => CardNeverStale
  BY DEF CardInv, CardKnown, CardNeverStale, Quiet, Booted
<1>2. QED
  BY <1>1, CardInvariant, PTL

----------------------------------------------------------------------------
(* What is in force is what the operator was told *)

\* What each label knows of the allowed configurations while nothing has gone
\* wrong: the file holds one of them, and the boot accepts it.
KeepKnown ==
    /\ \A c \in allowed : Sane(c)
    /\ file = Absent => /\ allowed = {Defaults}
                        /\ pc["Monitor"] \in {"mount", "load", "defaults", "bootSnap", "bootSave"}
    /\ file # Absent => \E c \in allowed : file = Bytes(c)
    /\ pc["Monitor"] \in {"defaults", "bootSnap", "bootSave"} => file = Absent
    /\ pc["Monitor"] \in {"bootSnap", "bootSave"} => g_cfg = Defaults
    /\ pc["Monitor"] # "mount" => mounted
    /\ Booted /\ pc["Comm"] \in {"delay", "apply"} => allowed = {g_cfg}
    /\ Booted => g_cfg \in allowed

KeepInv == trouble = {} => KeepKnown

\* Whatever moment a reset comes at, a configuration that is confirmed or being
\* set is the one CONFIG.BIN holds and the boot takes.
THEOREM KeepInvariant == Spec => []KeepInv
<1>0. \A l \in AdcLimits : Defaults[l] # Huge
  BY ConfigAssumption DEF Defaults, Default, Huge
<1>1. Init => KeepInv
  BY <1>0 DEF Init, KeepInv, KeepKnown, Booted, Sane
<1>2. TypeOK /\ TypeOK' /\ CardInv /\ KeepInv /\ [Next]_vars /\ ~Confirm => KeepInv'
  <2> SUFFICES ASSUME TypeOK, TypeOK', CardInv, KeepInv, [Next]_vars, ~Confirm, trouble' = {}
               PROVE  KeepKnown'
    BY DEF KeepInv
  <2>0. KernelOK
    BY DEF TypeOK, KernelOK, Labels
  <2> USE DEF Booted, Calm, Befalls
  <2>a. trouble = {}
    BY DEF Next, Boot, Comm, Acquire, BootMount, BootLoad, BootDeserialize, BootCheck, BootDefaults,
           BootSnap, BootSave, BootDone, Command, Apply, CommSnap, CommSave, Reset, Snapshot,
           Save, vars
  <2>b. KeepKnown /\ CardKnown
    BY <2>a DEF KeepInv, CardInv
  <2>1. CASE \E t \in Tasks : Acquire(t)
    BY <2>0, <2>b, <2>1, LockKernel DEF Acquire, KeepKnown, Sane
  <2>2. CASE BootMount
    <3>1. pc["Monitor"] = "mount" /\ pc'["Monitor"] = "load" /\ mounted'
      BY <2>0, <2>2, StepKernel, SectionLabels DEF BootMount, Labels
    <3>2. QED
      BY <2>b, <2>2, <3>1 DEF BootMount, KeepKnown, Sane
  <2>3. CASE BootLoad
    <3>1. /\ pc["Monitor"] = "load"
          /\ \/ pc'["Monitor"] = "defaults" /\ file = Absent
             \/ pc'["Monitor"] = "deserialize" /\ file # Absent
      BY <2>0, <2>3, StepKernel, SectionLabels DEF BootLoad, Labels
    <3>2. QED
      BY <2>b, <2>3, <3>1 DEF BootLoad, KeepKnown, Sane
  <2>4. CASE BootDeserialize
    <3>1. pc["Monitor"] = "deserialize" /\ pc'["Monitor"] \in {"defaults", "check"}
      BY <2>0, <2>4, StepKernel, SectionLabels DEF BootDeserialize, Labels
    <3>2. buf["Monitor"] = file /\ file # Empty
      BY <2>b, <3>1, FileKinds DEF KeepKnown, CardKnown
    <3>3. pc'["Monitor"] = "check"
      BY <2>0, <2>4, <3>2, StepKernel, SectionLabels DEF BootDeserialize, Labels
    <3>4. QED
      BY <2>b, <2>4, <3>1, <3>3 DEF BootDeserialize, KeepKnown, Sane
  <2>5. CASE BootCheck
    <3>1. pc["Monitor"] = "check"
      BY <2>5 DEF BootCheck, Step
    <3>2. g_cfg \in allowed
      BY <2>b, <3>1, FileKinds DEF KeepKnown, CardKnown
    <3>3. pc'["Monitor"] = "booted"
      BY <2>0, <2>b, <2>5, <3>2, StepKernel, SectionLabels DEF BootCheck, Labels, KeepKnown
    <3>4. QED
      BY <2>b, <2>5, <3>1, <3>3 DEF BootCheck, KeepKnown, Sane
  <2>6. CASE BootDefaults
    <3>1. pc["Monitor"] = "defaults" /\ pc'["Monitor"] = "bootSnap"
      BY <2>0, <2>6, StepKernel, SectionLabels DEF BootDefaults, Labels
    <3>2. QED
      BY <2>b, <2>6, <3>1 DEF BootDefaults, KeepKnown, Sane
  <2>7. CASE BootSnap
    <3>1. pc["Monitor"] = "bootSnap" /\ pc'["Monitor"] = "bootSave"
      BY <2>0, <2>7, StepKernel, SectionLabels DEF BootSnap, Labels
    <3>2. QED
      BY <2>b, <2>7, <3>1 DEF BootSnap, Snapshot, KeepKnown, Sane
  <2>8. CASE BootSave
    <3>1. pc["Monitor"] = "bootSave" /\ pc'["Monitor"] = "booted"
      BY <2>0, <2>8, StepKernel, SectionLabels DEF BootSave, Labels
    <3>2. file' = buf["Monitor"]
      BY <2>8 DEF BootSave, Save
    <3>3. file' = Bytes(Defaults) /\ allowed = {Defaults}
      BY <2>b, <3>1, <3>2 DEF KeepKnown, CardKnown
    <3>4. QED
      BY <2>b, <2>8, <3>1, <3>3, FileKinds DEF BootSave, KeepKnown, Sane
  <2>9. CASE BootDone
    <3>1. pc["Monitor"] = "booted" /\ pc'["Monitor"] = "delay" /\ pc'["Comm"] = pc["Comm"]
      BY <2>0, <2>9, StepKernel, SectionLabels DEF BootDone, Labels
    <3>2. file = Bytes(g_cfg) /\ g_cfg \in allowed
      BY <2>b, <3>1, FileKinds DEF KeepKnown, CardKnown
    <3>3. allowed' = {g_cfg} /\ UNCHANGED <<g_cfg, mounted, file>>
      BY <2>9, <3>2 DEF BootDone
    <3>4. QED
      BY <2>b, <3>1, <3>2, <3>3, FileKinds DEF KeepKnown, Sane
  <2>10. CASE Command
    <3>1. pc["Comm"] = "delay" /\ pc'["Comm"] = "apply" /\ pc'["Monitor"] = pc["Monitor"]
      BY <2>0, <2>10, WakeKernel DEF Command
    <3>2. QED
      BY <2>b, <2>10, <3>1 DEF Command, KeepKnown, Sane
  <2>11. CASE Apply
    <3>1. pc["Comm"] = "apply" /\ pc'["Comm"] = "snap" /\ pc'["Monitor"] = pc["Monitor"]
      BY <2>0, <2>11, StepKernel, SectionLabels DEF Apply, Labels
    <3>2. Booted
      BY <2>b, <3>1 DEF CardKnown
    <3>3. Sane(g_cfg') /\ allowed' = allowed \cup {g_cfg'} /\ UNCHANGED <<file, mounted>>
      BY <2>11 DEF Apply
    <3>4. QED
      BY <2>b, <3>1, <3>2, <3>3 DEF KeepKnown, Sane
  <2>12. CASE CommSnap
    <3>1. pc["Comm"] = "snap" /\ pc'["Comm"] = "save" /\ pc'["Monitor"] = pc["Monitor"]
      BY <2>0, <2>12, StepKernel, SectionLabels DEF CommSnap, Labels
    <3>2. QED
      BY <2>b, <2>12, <3>1 DEF CommSnap, Snapshot, KeepKnown, Sane
  <2>13. CASE CommSave
    <3>1. pc["Comm"] = "save" /\ pc'["Comm"] = "confirm" /\ pc'["Monitor"] = pc["Monitor"]
      BY <2>0, <2>13, StepKernel, SectionLabels DEF CommSave, Labels
    <3>2. Booted /\ file' = Bytes(g_cfg)
      BY <2>b, <2>13, <3>1 DEF CommSave, Save, CardKnown
    <3>3. QED
      BY <2>b, <2>13, <3>1, <3>2, FileKinds DEF CommSave, KeepKnown, Sane
  <2>15. CASE Reset
    <3>1. UNCHANGED <<file, allowed>>
      BY <2>15 DEF Reset
    <3>2. pc'["Monitor"] = "mount"
      BY <2>15, StartedKernel DEF Reset
    <3>3. QED
      BY <2>b, <3>1, <3>2 DEF KeepKnown, Sane
  <2>16. CASE UNCHANGED vars
    BY <2>b, <2>16 DEF vars, KeepKnown, Sane
  <2>17. QED
    BY <2>1, <2>2, <2>3, <2>4, <2>5, <2>6, <2>7, <2>8, <2>9, <2>10, <2>11, <2>12, <2>13,
       <2>15, <2>16 DEF Next, Boot, Comm
<1>3. TypeOK /\ CardInv /\ KeepInv /\ Confirm => KeepInv'
  <2> SUFFICES ASSUME TypeOK, CardInv, KeepInv, Confirm, trouble' = {} PROVE KeepKnown'
    BY DEF KeepInv
  <2>0. KernelOK
    BY DEF TypeOK, KernelOK, Labels
  <2>1. pc["Comm"] = "confirm" /\ pc'["Comm"] = "delay" /\ pc'["Monitor"] = pc["Monitor"]
    BY <2>0, StepKernel, SectionLabels DEF Confirm, Labels
  <2>2. AllWell
    <3>1. CASE trouble = {}
      <4>1. KeepKnown /\ CardKnown
        BY <3>1 DEF KeepInv, CardInv
      <4>2. Booted /\ mounted /\ g_cfg \in allowed
        BY <2>1, <4>1 DEF CardKnown, KeepKnown, Booted
      <4>3. file = Bytes(g_cfg)
        BY <2>1, <4>1, <4>2, FileKinds DEF CardKnown, KeepKnown
      <4> QED
        BY <4>1, <4>2, <4>3 DEF AllWell, KeepKnown
    <3>2. CASE trouble # {}
      BY <3>2 DEF Confirm
    <3> QED
      BY <3>1, <3>2
  <2>3. allowed' = {g_cfg} /\ UNCHANGED <<g_cfg, mounted, file>>
    BY DEF Confirm
  <2> QED
    BY <2>1, <2>2, <2>3, FileKinds DEF AllWell, Booted, KeepKnown, Sane
<1>4. QED
  BY <1>1, <1>2, <1>3, TypeInvariant, CardInvariant, PTL DEF Spec

\* A confirmed limit is in force after any number of resets, and a reset during
\* a command leaves the old or the new one: from the start, and again from any
\* command that reached the card, until the card fails, a reset falls into the
\* writing of the file, a command comes during the boot or sets a limit that
\* the boot rejects.
THEOREM SettingsKept == Spec => []SettingSurvives
<1>1. KeepInv => SettingSurvives
  BY DEF KeepInv, KeepKnown, SettingSurvives, Quiet, Booted
<1>2. QED
  BY <1>1, KeepInvariant, PTL

----------------------------------------------------------------------------
(* One command at a time *)

\* c and d differ in one limit at most.
OneApart(c, d) == \A k, l \in Limits : c[k] # d[k] /\ c[l] # d[l] => k = l

OldOrNew == \E c, d \in Configs : OneApart(c, d) /\ allowed \subseteq {c, d}

\* As long as all is well there are never more than two configurations a
\* reset may leave, they differ in the one limit a command is setting, and
\* after the boot one of them is in force: no sequence of commands and resets
\* makes a mixture of old and new limits.
THEOREM NeverMixed == Spec => [](trouble = {} => OldOrNew /\ (Booted => g_cfg \in allowed))
<1> DEFINE MixInv == trouble = {} => OldOrNew
<1>1. Init => MixInv
  BY FileKinds DEF Init, OldOrNew, OneApart
<1>2. TypeOK /\ TypeOK' /\ KeepInv /\ CardInv /\ MixInv /\ [Next]_vars => MixInv'
  <2> SUFFICES ASSUME TypeOK, TypeOK', KeepInv, CardInv, MixInv, [Next]_vars, trouble' = {} PROVE OldOrNew'
    OBVIOUS
  <2>1. ASSUME ~Confirm PROVE trouble = {}
    BY <2>1 DEF Next, Boot, Comm, Acquire, BootMount, BootLoad, BootDeserialize, BootCheck, BootDefaults, BootSnap,
       BootSave, BootDone, Command, Apply, CommSnap, CommSave, Reset, Save, Snapshot, Calm, Befalls, vars
  <2>2. ASSUME ~Confirm PROVE KeepKnown /\ CardKnown /\ OldOrNew
    BY <2>1, <2>2 DEF KeepInv, CardInv
  <2>3. CASE Apply
    <3>1. allowed' = allowed \cup {g_cfg'} /\ pc["Comm"] = "apply"
      BY <2>3 DEF Apply, Step
    <3>0. ~Confirm
      BY <3>1 DEF Confirm, Step
    <3>2. allowed = {g_cfg}
      BY <2>2, <3>0, <3>1 DEF KeepKnown, CardKnown
    <3>3. g_cfg \in Configs /\ g_cfg' \in Configs
      BY DEF TypeOK
    <3>4. OneApart(g_cfg, g_cfg')
      <4>1. PICK l \in Limits, v \in Values : g_cfg' = [g_cfg EXCEPT ![l] = v]
        BY <2>3 DEF Apply
      <4>2. \A k \in Limits : g_cfg[k] # g_cfg'[k] => k = l
        BY <3>3, <4>1 DEF Configs
      <4> QED
        BY <4>2 DEF OneApart
    <3> QED
      BY <3>1, <3>2, <3>3, <3>4 DEF OldOrNew
  <2>4. CASE BootDone \/ Confirm
    <3>1. allowed' = {g_cfg} \/ (allowed' = allowed /\ ~Confirm)
      BY <2>4 DEF BootDone, Confirm
    <3>2. CASE allowed' = {g_cfg}
      BY <3>2 DEF TypeOK, OldOrNew, OneApart
    <3>3. CASE allowed' = allowed /\ ~Confirm
      BY <2>2, <3>3 DEF OldOrNew
    <3> QED
      BY <3>1, <3>2, <3>3
  <2>5. CASE ~(Apply \/ BootDone \/ Confirm)
    <3>1. allowed' = allowed
      BY <2>5 DEF Next, Boot, Comm, Acquire, BootMount, BootLoad, BootDeserialize, BootCheck, BootDefaults, BootSnap,
         BootSave, Command, CommSnap, CommSave, Reset, Snapshot, vars
    <3> QED
      BY <2>2, <2>5, <3>1 DEF OldOrNew
  <2> QED
    BY <2>3, <2>4, <2>5
<1>3. KeepInv /\ MixInv => (trouble = {} => OldOrNew /\ (Booted => g_cfg \in allowed))
  BY DEF KeepInv, KeepKnown
<1> QED
  BY <1>1, <1>2, <1>3, TypeInvariant, CardInvariant, KeepInvariant, PTL DEF Spec

\* What the operator is told is true: when a command is confirmed and nothing
\* has gone wrong since all was last well, CONFIG.BIN holds the configuration in
\* force, and the boot will take it.  After trouble that did not keep a change
\* off the card it holds it, or nothing a boot could mistake for it.
THEOREM ConfirmedIsSaved ==
    Spec => [][Confirm => /\ trouble = {} => file = Bytes(g_cfg) /\ Sane(g_cfg)
                          /\ "unsaved" \notin trouble /\ mounted => file \in {Bytes(g_cfg), Empty}]_vars
<1>1. TypeOK /\ CardInv /\ KeepInv /\ [Next]_vars =>
          [Confirm => /\ trouble = {} => file = Bytes(g_cfg) /\ Sane(g_cfg)
                      /\ "unsaved" \notin trouble /\ mounted => file \in {Bytes(g_cfg), Empty}]_vars
  <2> SUFFICES ASSUME TypeOK, CardInv, KeepInv, Confirm
               PROVE  /\ trouble = {} => file = Bytes(g_cfg) /\ Sane(g_cfg)
                      /\ "unsaved" \notin trouble /\ mounted => file \in {Bytes(g_cfg), Empty}
    OBVIOUS
  <2>1. pc["Comm"] = "confirm"
    BY DEF Confirm, Step
  <2>2. "unsaved" \notin trouble => Booted
    BY <2>1 DEF CardInv, CardKnown
  <2>3. "unsaved" \notin trouble /\ mounted => file \in {Bytes(g_cfg), Empty}
    BY <2>1, <2>2 DEF CardInv, CardKnown
  <2>4. ASSUME trouble = {} PROVE file = Bytes(g_cfg) /\ Sane(g_cfg)
    <3>1. Booted /\ "unsaved" \notin trouble
      BY <2>2, <2>4
    <3>2. mounted /\ g_cfg \in allowed
      BY <2>4, <3>1 DEF KeepInv, KeepKnown, Booted
    <3>3. file \in {Bytes(g_cfg), Empty}
      BY <2>3, <3>1, <3>2
    <3>4. file # Empty
      BY <2>4, FileKinds DEF KeepInv, KeepKnown
    <3> QED
      BY <2>4, <3>2, <3>3, <3>4 DEF KeepInv, KeepKnown
  <2> QED
    BY <2>3, <2>4
<1> QED
  BY <1>1, TypeInvariant, CardInvariant, KeepInvariant, PTL DEF Spec
=============================================================================
