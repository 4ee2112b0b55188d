----------------------------- MODULE SerialLink -----------------------------
(***************************************************************************)
(* The board of LncComm and the Central's program (central/src/main.cpp)   *)
(* on one serial line.  The Central sends "proto" and its clock when it    *)
(* connects and again at every Listen, and a command for every other       *)
(* choice of its menu; it learns of the board only what it hears, and      *)
(* hears nothing that says which mode the board is in.                     *)
(*                                                                         *)
(* The Central's pauses, 300 ms and more, are long enough for the line, but *)
(* perhaps not for the board.  At most OPS_N choices are made.  Up to      *)
(* FAULTS_N times the line loses a byte, the board is reset, or the Central*)
(* sends more than the board's ring has room for.                          *)
(***************************************************************************)
EXTENDS LncComm

CONSTANTS
    MenuCommands,   \* frames the menu sends (2 to 8)
    SyncCommand,    \* SET_RTC with the time of the host
    OPS_N, FAULTS_N,
    OTHERS_N        \* frames the other tasks queue in one pass of the Comm task

Commands == MenuCommands \cup {SyncCommand}

ASSUME LinkAssumption ==
    /\ \A c \in Commands : c \in Seq(Byte) /\ Len(c) >= 2 /\ c = Frame(c[1], SubSeq(c, 3, Len(c))) /\ Effective(c) /\ Len(c) <= FRAME_MAX
    /\ SyncCommand[1] = SetRtc
    /\ OPS_N \in Nat /\ FAULTS_N \in Nat /\ OTHERS_N \in Nat

VARIABLES
    session,        \* where the Central's program is
    ops,            \* choices made
    sent,           \* commands sent
    faults, resets, \* how often any of these, and the second of them, happened
    trouble,        \* the two sides are out of step: see Hurt and Clean
    extra,          \* how many they have queued in this pass
    unsynced        \* SET_RTC was sent and not executed yet

central == <<session, ops, sent>>
vars    == <<commVars, session, ops, sent, faults, resets, trouble, extra, unsynced>>

ProtoLine == Proto \o <<CR, LF>>

\* everything the board has still to take in
Ahead == rxq \o down

\* Both sides start afresh: nothing on the way, nothing half assembled.
Clean == Ahead = <<>> /\ fr = <<>> /\ lb = <<>>

\* The board has taken in all it was sent, and sleeps.
Quiet == Ahead = <<>> /\ comm = "delay"

----------------------------------------------------------------------------
Init ==
    /\ CommInit
    /\ session = "proto"
    /\ ops = 0
    /\ sent = 0
    /\ faults = 0
    /\ resets = 0
    /\ trouble = FALSE
    /\ extra = 0
    /\ unsynced = FALSE

\* The history of the two sides; the code has no such thing.
Hurt(h) == trouble' = ((trouble \/ h) /\ ~Clean')

Fault == faults < FAULTS_N /\ faults' = faults + 1

\* write() of the whole text or frame; the line has long carried the last one
SendBytes(s) ==
    /\ down = <<>>
    /\ down' = s
    /\ \/ Len(rxq) + Len(s) < RXQ_N /\ UNCHANGED faults
       \/ Len(rxq) + Len(s) >= RXQ_N /\ Fault
    /\ UNCHANGED <<protocol, rx, comm, tx, executed, resets, extra>>

\* "proto" at the start of the program and of a Listen.  It does harm unless
\* it meets an idle console.
SendProto ==
    /\ \/ session = "proto" /\ UNCHANGED ops
       \/ session = "menu" /\ ops < OPS_N /\ ops' = ops + 1
    /\ session' = "sync"
    /\ SendBytes(ProtoLine)
    /\ Hurt(protocol \/ ~Clean)
    /\ UNCHANGED <<sent, unsynced>>

\* A command does harm if the console gets it.
ToConsole == ~protocol \/ comm \in {"console", "enter"}

\* the host's time, 400 or 300 ms after "proto"
SendSync ==
    /\ session = "sync"
    /\ session' = "menu"
    /\ SendBytes(SyncCommand)
    /\ sent' = sent + 1
    /\ Hurt(ToConsole)
    /\ unsynced' = TRUE
    /\ UNCHANGED ops

\* any other choice of the menu
SendCommand ==
    /\ session = "menu" /\ ops < OPS_N
    /\ ops' = ops + 1
    /\ \E c \in MenuCommands : SendBytes(c)
    /\ sent' = sent + 1
    /\ Hurt(ToConsole)
    /\ UNCHANGED <<session, unsynced>>

\* The program ends before the clock is sent, and is started again; started
\* again from the menu it does what a Listen does.
Restart ==
    /\ session = "sync" /\ ops < OPS_N
    /\ session' = "proto"
    /\ ops' = ops + 1
    /\ UNCHANGED <<commVars, sent, faults, resets, trouble, extra, unsynced>>

----------------------------------------------------------------------------
\* The board steps; a byte dropped by a full ring is one lost.  Steps that
\* commute are put in one order: only tx_drain looks at the queues the other
\* tasks fill, so they fill them while it drains; only the parsers look at
\* the ring, so it fills before and while they run; and a pass starts with
\* something in the ring unless nothing is on the line.
Board ==
    /\ \/ /\ comm \in {"drain", "send"}
          /\ extra < OTHERS_N /\ extra' = extra + 1
          /\ OthersNext
       \/ comm \notin {"drain", "send"} /\ UNCHANGED extra /\ RxIsr
       \/ /\ comm = "delay" => rxq # <<>> \/ down = <<>>
          /\ extra' = IF comm = "delay" THEN 0 ELSE extra
          /\ CommNext
    /\ Hurt(down' # down /\ RingFull)
    /\ unsynced' = (unsynced /\ ~(executed' # executed /\ Last(executed') = SyncCommand))
    /\ UNCHANGED <<central, faults, resets>>

\* an overrun of the receiver: HAL_UART_ErrorCallback only starts it again
Lose ==
    /\ Fault
    /\ down # <<>>
    /\ down' = Tail(down)
    /\ UNCHANGED <<protocol, rx, comm, tx, executed, central, resets, extra, unsynced>>
    /\ Hurt(TRUE)

\* the button or the watchdog; bytes on the line then meet the console
ResetBoard ==
    /\ Fault
    /\ resets' = resets + 1
    /\ Reset
    /\ Hurt(TRUE)
    /\ unsynced' = FALSE
    /\ extra' = 0
    /\ UNCHANGED central

Next == SendProto \/ SendSync \/ SendCommand \/ Restart \/ Board \/ Lose \/ ResetBoard

Spec == Init /\ [][Next]_vars

\* The board goes on: the interrupt delivers what arrives and the Comm task,
\* of all tasks the one with the highest priority, runs every 5 ms.
Fairness == WF_vars(Board)

FairSpec == Spec /\ Fairness

\* One session with a board that is done before the Central goes on.
PromptNext == Next /\ ~Restart /\ (session' # session \/ ops' # ops => Quiet)

PromptSpec == Init /\ [][PromptNext]_vars

----------------------------------------------------------------------------
(* Properties *)

\* Types of the state.
TypeOK ==
    /\ CommTypeOK
    /\ session \in {"proto", "sync", "menu"}
    /\ ops \in 0 .. OPS_N /\ sent \in 0 .. ops + 1 /\ faults \in 0 .. FAULTS_N /\ resets \in 0 .. faults
    /\ extra \in 0 .. OTHERS_N
    /\ trouble \in BOOLEAN /\ unsynced \in BOOLEAN

\* The frames a byte sequence is made of, from its start.
Frames[s \in Seq(Byte)] ==
    IF Len(s) < 2 \/ Len(s) < 2 + s[2] THEN <<>>
    ELSE <<SubSeq(s, 1, 2 + s[2])>> \o Frames[SubSeq(s, 3 + s[2], Len(s))]

InStep == ~trouble /\ ~ToConsole

Channel == INSTANCE CommandChannel WITH
    owed <- IF InStep THEN Frames[fr \o Ahead] ELSE <<>>, broken <- trouble

\* In step, every command the Central sends is executed once and in order,
\* wherever the bytes of several commands are: on the line, in the ring, in
\* the frame buffer.  The sides get out of step only by a lost byte, a
\* "proto" that meets anything but an idle console, and a command that meets
\* the console; and they are in step again when nothing is on the way nor
\* half assembled.
ImplementsChannel == Channel!Spec

\* Once in step, the board takes in what it was sent and answers it; in
\* particular no length of a command wraps the byte-wide need, which would
\* leave a frame that is never complete.
Served == ~trouble ~> (trouble \/ (Quiet /\ Clean))

(* What comments say of the program *)

\* "re-sync clock (board may have reset to 2000)": connecting and a Listen set
\* the clock of a board that takes in all it is sent.
ClockSynced == Quiet /\ session = "menu" => ~unsynced
=============================================================================
