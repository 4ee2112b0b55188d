------------------------------ MODULE LncComm ------------------------------
(***************************************************************************)
(* The serial side of the LNC firmware (stm32/.../Core/Src/lnc/lnc_app.c): *)
(* the RX interrupt and its ring, the two parsers of the Comm task (console*)
(* lines and binary frames), the commands, the three TX queues and the     *)
(* order in which the Comm task drains them.                               *)
(*                                                                         *)
(* Received bytes are numbers, since what goes wrong here depends on them: *)
(* the 'r' of "proto" is a length to one parser, a byte of a limit is a    *)
(* letter to the other.  What is sent is abstract: a reply names what it   *)
(* answers, a keep-alive or event frame has no contents.                   *)
(*                                                                         *)
(* Beside some definitions stands a variant with a plausible fault, named  *)
(* for the fault; nothing uses it, and the properties reject it.           *)
(***************************************************************************)
EXTENDS Naturals, Sequences, SequencesExt

CONSTANTS
    RXQ_N,          \* size of the RX ring, which holds one byte less (128)
    LINE_N,         \* size of the console line with its final zero (64)
    FRAME_MAX,      \* the longest binary frame (64)
    TXQ_N,          \* capacity of each TX queue (6)
    Found           \* how many records a range query may find

ASSUME CommAssumption ==
    /\ RXQ_N \in Nat \ {0, 1} /\ LINE_N \in Nat \ {0}
    /\ FRAME_MAX \in 2 .. 253
    /\ TXQ_N \in Nat \ {0} /\ Found \subseteq Nat

VARIABLES
    down,           \* bytes on the line to the board
    protocol,       \* s_protocol
    rxq,            \* the RX ring, from tail to head
    lb, fr,         \* the console line and the binary frame being assembled
    comm,           \* where the Comm task is
    TxQ,            \* frames to send, by class
    chosen,         \* tx_drain: the class commq_next gave
    executed,       \* commands executed so far
    due, answered,  \* replies of this pass of the Comm task: queued, sent
    overtaken       \* frames of a lower class sent while this class waited

rx       == <<rxq, lb, fr>>
tx       == <<TxQ, chosen, due, answered, overtaken>>
commVars == <<down, protocol, rxq, lb, fr, comm, TxQ, chosen, executed, due, answered, overtaken>>

Byte == 0 .. 255

----------------------------------------------------------------------------
(* Bytes and frames *)

CR == 13  LF == 10  BS == 8  DEL == 127  SPACE == 32

Proto == <<112, 114, 111, 116, 111>>

\* [tag][length][value]
Frame(tag, value) == <<tag, Len(value)>> \o value

SetRange == {32, 33}                    \* CMD_SET_TEMP_NORMAL, _WARNING
SetLower == 34 .. 39                    \* CMD_SET_HUM_NORMAL ... BATT_WARNING
SetRtc   == 40                          \* CMD_SET_RTC
GetTime  == 41                          \* CMD_GET_TIME
GetRange == {42, 43}                    \* CMD_GET_DATA_RANGE, _EVENTS_RANGE

\* config_apply_set accepts f
ChangesConfig(f) == \/ f[1] \in SetRange /\ f[2] = 4
                    \/ f[1] \in SetLower /\ f[2] = 2

\* command_handle does something with f
Effective(f) == \/ ChangesConfig(f)
                \/ f[1] = SetRtc /\ f[2] = 4
                \/ f[1] = GetTime
                \/ f[1] \in GetRange /\ f[2] = 8

\* the first word of a console line is "proto"
SaysProto(s) ==
    \E i \in 1 .. Len(s) :
        /\ i + 4 <= Len(s)
        /\ \A j \in 1 .. i - 1 : s[j] = SPACE
        /\ SubSeq(s, i, i + 4) = Proto
        /\ i + 4 = Len(s) \/ s[i + 5] = SPACE

\* need, a uint8_t
Need(f) == (2 + f[2]) % 256

----------------------------------------------------------------------------
Classes == {"KEEPALIVE", "EVENT", "DATA"}
None    == "none"

\* commq_next: keep-alives before events before data
Above(c) == CASE c = "KEEPALIVE" -> {}
              [] c = "EVENT"     -> {"KEEPALIVE"}
              [] c = "DATA"      -> {"KEEPALIVE", "EVENT"}

\* the oldest frames make room
FillNewest(queue, frames) == LET all == queue \o frames IN IF Len(all) <= TXQ_N THEN all ELSE SubSeq(all, Len(all) - TXQ_N + 1, Len(all))

\* tx_enq of several frames in turn: dropped once the queue is full
Fill(queue, frames) == SubSeq(queue \o frames, 1, IF Len(queue \o frames) <= TXQ_N THEN Len(queue \o frames) ELSE TXQ_N)

\* what f makes the Comm task queue: the time, or the records of a range in
\* the order of the day files (run_query's buffer holds more of them than the
\* queue)
Replies(f) ==
    IF f[1] = GetTime THEN { <<"TIME">> }
    ELSE IF f[1] \in GetRange /\ f[2] = 8 THEN { [ i \in 1 .. n |-> i ] : n \in Found }
    ELSE { <<>> }

CommInit ==
    /\ down = <<>>
    /\ protocol = FALSE
    /\ rxq = <<>> /\ lb = <<>> /\ fr = <<>>
    /\ comm = "delay"
    /\ TxQ = [c \in Classes |-> <<>>]
    /\ chosen = None
    /\ executed = <<>>
    /\ due = <<>> /\ answered = <<>>
    /\ overtaken = [c \in Classes |-> 0]

----------------------------------------------------------------------------
(* Reception *)

Waiting == { c \in Classes : TxQ[c] # <<>> }

\* every place of the ring in use
RingFullLate == Len(rxq) = RXQ_N

\* HAL_UART_RxCpltCallback: a full ring drops the byte
RingFull == Len(rxq) = RXQ_N - 1

RxIsr ==
    /\ down # <<>>
    /\ down' = Tail(down)
    /\ rxq' = IF RingFull THEN rxq ELSE Append(rxq, Head(down))
    /\ UNCHANGED <<protocol, lb, fr, comm, tx, executed>>

\* a pass of the Comm task begins: the parser is chosen for all of it
CommWake ==
    /\ comm = "delay"
    /\ comm' = IF protocol THEN "binary" ELSE "console"
    /\ UNCHANGED <<down, protocol, rx, tx, executed>>

\* the parser has emptied the ring
CommDrained ==
    /\ comm \in {"binary", "console"}
    /\ rxq = <<>>
    /\ comm' = "drain"
    /\ UNCHANGED <<down, protocol, rx, tx, executed>>

\* process_console_rx takes one byte: the end of a line executes it, the
\* others edit it.  Every command but "proto" only prints here.
ConsoleByte ==
    LET c == Head(rxq) IN
    /\ comm = "console"
    /\ rxq # <<>>
    /\ rxq' = Tail(rxq)
    /\ \/ c \in {CR, LF} /\ lb' = <<>> /\ comm' = IF SaysProto(lb) THEN "enter" ELSE comm
       \/ c \in {BS, DEL} /\ lb' = (IF lb = <<>> THEN lb ELSE Front(lb)) /\ UNCHANGED comm
       \/ /\ c \notin {CR, LF, BS, DEL}
          /\ lb' = IF c \in 32 .. 126 /\ Len(lb) < LINE_N - 1 THEN Append(lb, c) ELSE lb
          /\ UNCHANGED comm
    /\ UNCHANGED <<down, protocol, fr, tx, executed>>

\* the rest of the ring goes to the binary parser
EnterProtocolAtOnce ==
    /\ comm = "enter"
    /\ protocol' = TRUE
    /\ comm' = "binary"
    /\ UNCHANGED <<down, rx, tx, executed>>

\* "proto" prints its 10 ms of text, while the bytes on the line arrive, and
\* switches modes; the rest of the ring still goes to the console parser.
EnterProtocol ==
    /\ comm = "enter"
    /\ down = <<>>
    /\ protocol' = TRUE
    /\ comm' = "console"
    /\ UNCHANGED <<down, rx, tx, executed>>

----------------------------------------------------------------------------
(* Binary frames and commands *)

\* command_handle and exec_command; run_query takes the card's mutex, but
\* nobody else uses the data queue
Execute(f) ==
    /\ executed' = IF Effective(f) THEN Append(executed, f) ELSE executed
    /\ \E r \in Replies(f) : due' = due \o r /\ TxQ' = [TxQ EXCEPT !["DATA"] = Fill(@, r)]

\* have stays as it is after a frame
BinaryByteWithoutReset ==
    LET next == IF Len(fr) < FRAME_MAX THEN Append(fr, Head(rxq)) ELSE fr IN
    /\ comm = "binary"
    /\ rxq # <<>>
    /\ rxq' = Tail(rxq)
    /\ fr' = next
    /\ IF Len(next) >= 2 /\ Len(next) = Need(next) THEN Execute(next) ELSE UNCHANGED <<executed, due, TxQ>>
    /\ UNCHANGED <<down, protocol, lb, comm, chosen, answered, overtaken>>

\* process_binary_rx takes one byte: the desync guard gives up a frame that
\* would be too long, a complete frame is executed
BinaryByte ==
    LET next == IF Len(fr) < FRAME_MAX THEN Append(fr, Head(rxq)) ELSE fr IN
    /\ comm = "binary"
    /\ rxq # <<>>
    /\ rxq' = Tail(rxq)
    /\ IF Len(next) = 2 /\ Need(next) > FRAME_MAX
       THEN fr' = <<>> /\ UNCHANGED <<executed, due, TxQ>>
       ELSE IF Len(next) >= 2 /\ Len(next) = Need(next)
       THEN fr' = <<>> /\ Execute(next)
       ELSE fr' = next /\ UNCHANGED <<executed, due, TxQ>>
    /\ UNCHANGED <<down, protocol, lb, comm, chosen, answered, overtaken>>

----------------------------------------------------------------------------
(* Transmission *)

\* handle_one_event: in protocol mode the event becomes a frame
ForwardEvent ==
    /\ protocol
    /\ TxQ' = [TxQ EXCEPT !["EVENT"] = Fill(@, <<"EVENT">>)]
    /\ UNCHANGED <<down, protocol, rx, comm, chosen, due, answered, overtaken, executed>>

\* keepalive_once
KeepAlive ==
    /\ protocol
    /\ TxQ' = [TxQ EXCEPT !["KEEPALIVE"] = Fill(@, <<"KEEPALIVE">>)]
    /\ UNCHANGED <<down, protocol, rx, comm, chosen, due, answered, overtaken, executed>>

\* data before events before keep-alives
ChooseLowest ==
    /\ comm = "drain"
    /\ \E c \in Waiting : (\A d \in Waiting : c \notin Above(d)) /\ chosen' = c
    /\ comm' = "send"
    /\ UNCHANGED <<down, protocol, rx, TxQ, due, answered, overtaken, executed>>

\* tx_drain: commq_next over a snapshot of the three queues
Choose ==
    /\ comm = "drain"
    /\ \E c \in Waiting : Above(c) \cap Waiting = {} /\ chosen' = c
    /\ comm' = "send"
    /\ UNCHANGED <<down, protocol, rx, TxQ, due, answered, overtaken, executed>>

\* osMessageQueueGet and transport_send; other queues may have filled since
Send ==
    /\ comm = "send"
    /\ TxQ' = [TxQ EXCEPT ![chosen] = Tail(@)]
    /\ answered' = IF chosen = "DATA" THEN Append(answered, Head(TxQ["DATA"])) ELSE answered
    /\ overtaken' = [ c \in Classes |->
           IF c \in Above(chosen) /\ TxQ[c] # <<>> THEN overtaken[c] + 1
           ELSE IF c = chosen THEN 0 ELSE overtaken[c] ]
    /\ chosen' = None
    /\ comm' = "drain"
    /\ UNCHANGED <<down, protocol, rx, due, executed>>

\* all three queues are empty; osDelay(5)
CommDone ==
    /\ comm = "drain"
    /\ Waiting = {}
    /\ comm' = "delay"
    /\ due' = <<>> /\ answered' = <<>>
    /\ UNCHANGED <<down, protocol, rx, TxQ, chosen, overtaken, executed>>

----------------------------------------------------------------------------
CommNext == CommWake \/ CommDrained \/ ConsoleByte \/ EnterProtocol \/ BinaryByte \/ Choose \/ Send \/ CommDone

OthersNext == ForwardEvent \/ KeepAlive

\* A reset: RAM starts over, what the outside has seen stays.
Reset ==
    /\ protocol' = FALSE
    /\ rxq' = <<>> /\ lb' = <<>> /\ fr' = <<>>
    /\ comm' = "delay"
    /\ TxQ' = [c \in Classes |-> <<>>]
    /\ chosen' = None
    /\ due' = <<>> /\ answered' = <<>>
    /\ overtaken' = [c \in Classes |-> 0]
    /\ UNCHANGED <<down, executed>>

----------------------------------------------------------------------------
(* Properties *)

\* Types of the state, the bounds of ring, line, frame and queues.
CommTypeOK ==
    /\ down \in Seq(Byte)
    /\ protocol \in BOOLEAN
    /\ rxq \in Seq(Byte) /\ Len(rxq) <= RXQ_N - 1
    /\ lb \in Seq(32 .. 126) /\ Len(lb) <= LINE_N - 1
    /\ fr \in Seq(Byte) /\ Len(fr) <= FRAME_MAX
    /\ comm \in {"delay", "console", "enter", "binary", "drain", "send"}
    /\ comm = "send" => chosen \in Classes /\ TxQ[chosen] # <<>>
    /\ \A c \in Classes : Len(TxQ[c]) <= TXQ_N
    /\ chosen \in Classes \cup {None}

\* Of the replies a pass of the Comm task has to give, the Central gets the
\* first ones, in order, as many as the data queue holds: all of a range if
\* it fits, and otherwise its oldest records; nothing follows a dropped one.
AnswersAreOldest ==
    comm = "drain" /\ TxQ["DATA"] = <<>> =>
        answered = SubSeq(due, 1, IF Len(due) <= TXQ_N THEN Len(due) ELSE TXQ_N)

\* A keep-alive or an event in its queue waits for at most one frame of a
\* lower class, the one tx_drain had chosen before.
InversionBounded == \A c \in Classes : overtaken[c] <= 1
=============================================================================
