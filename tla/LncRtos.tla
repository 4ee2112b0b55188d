------------------------------ MODULE LncRtos ------------------------------
(***************************************************************************)
(* The part of FreeRTOS (through CMSIS-RTOS v2) that decides which task of *)
(* the LNC firmware may take the next step: fixed priorities, preemption,  *)
(* time slicing among equals, and mutexes with priority inheritance.       *)
(*                                                                         *)
(* The client gives the state the kernel looks at:                         *)
(*   pc[t]     where task t is                                             *)
(*   owner[m]  the task that holds mutex m                                 *)
(*   asleep    the tasks in osDelay, or waiting on an empty queue          *)
(* and MutexOf, which maps every label that lies between a LOCK and its    *)
(* UNLOCK to the mutex.  A task whose pc is such a label is inside the     *)
(* section if it owns the mutex and still asks for it otherwise.           *)
(*                                                                         *)
(* Beside some definitions stands a variant with a plausible fault, named  *)
(* for the fault; nothing uses it, and the properties reject it.           *)
(***************************************************************************)
EXTENDS Naturals

CONSTANTS Tasks, MutexOf, Nobody

VARIABLES pc, owner, asleep

EventBelowPosters == [Comm |-> 3, Event |-> 1, Object |-> 2, Default |-> 2, Monitor |-> 2, KeepAlive |-> 1]

AllNormal == [Comm |-> 2, Event |-> 2, Object |-> 2, Default |-> 2, Monitor |-> 2, KeepAlive |-> 2]

\* osPriorityAboveNormal = 3, osPriorityNormal = 2, osPriorityBelowNormal = 1
Priority == [Comm |-> 3, Event |-> 3, Object |-> 2, Default |-> 2, Monitor |-> 1, KeepAlive |-> 1]

Sections == DOMAIN MutexOf
Mutexes  == { MutexOf[s] : s \in Sections }

\* osMutexAcquire(m, osWaitForever) on a mutex that another task holds
Blocked(t) == pc[t] \in Sections /\ owner[MutexOf[pc[t]]] \notin {Nobody, t}

Ready(t) == t \notin asleep /\ ~Blocked(t)

\* The priorities a task runs at: its own and, while it holds a mutex, that
\* of every task blocked on it (LOCKs are never nested in this firmware).
Urgency(t) ==
    {Priority[t]} \cup
    { Priority[u] : u \in { v \in Tasks : Blocked(v) /\ owner[MutexOf[pc[v]]] = t } }

\* t may take the next step: it is ready and no ready task is more urgent.
Runs(t) ==
    /\ Ready(t)
    /\ \A u \in Tasks : Ready(u) => \A p \in Urgency(u) : \E q \in Urgency(t) : p <= q

\* LOCK of the section t stands at; the UNLOCK is part of the section's step.
Lock(t) ==
    /\ pc[t] \in Sections
    /\ owner[MutexOf[pc[t]]] = Nobody
    /\ Runs(t)
    /\ owner' = [owner EXCEPT ![MutexOf[pc[t]]] = t]
    /\ UNCHANGED pc

StepWithoutUnlock(t, at, next) ==
    /\ pc[t] = at
    /\ Runs(t)
    /\ pc' = [pc EXCEPT ![t] = next]
    /\ at \in Sections => owner[MutexOf[at]] = t
    /\ UNCHANGED owner

\* One step of t: inside section "at" (which ends with its UNLOCK), or at a
\* label outside every section.
Step(t, at, next) ==
    /\ pc[t] = at
    /\ Runs(t)
    /\ pc' = [pc EXCEPT ![t] = next]
    /\ IF at \in Sections
       THEN owner[MutexOf[at]] = t /\ owner' = [owner EXCEPT ![MutexOf[at]] = Nobody]
       ELSE UNCHANGED owner

\* The tick interrupt ends t's delay: any moment, whoever is running.
Wake(t, delayed, next) ==
    /\ pc[t] = delayed
    /\ pc' = [pc EXCEPT ![t] = next]
    /\ UNCHANGED owner
=============================================================================
