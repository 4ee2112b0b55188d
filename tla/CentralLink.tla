---------------------------- MODULE CentralLink ----------------------------
(***************************************************************************)
(* The line from the board to the Central Computer: the frames the board   *)
(* builds (records.c, keepalive.c), the bytes on the line, and the Central *)
(* putting frames together again (central/src/Communication.cpp,           *)
(* protocol_util.cpp).  There is no checksum and no start mark: a report   *)
(* is found by its tag, its length and the lengths of its children.        *)
(*                                                                         *)
(* Up to LOST_N times the line loses a byte, and up to CUTS_N times a      *)
(* reset of the board cuts a frame short and puts the console's text after *)
(* it.                                                                     *)
(*                                                                         *)
(* Beside some definitions stands a variant with a plausible fault, named  *)
(* for the fault; nothing uses it, and the properties reject it.           *)
(***************************************************************************)
EXTENDS Naturals, Sequences, SequencesExt, FiniteSets

CONSTANTS
    MAXLEN,         \* the longest value the Central takes for one (48)
    Chunks,         \* how many bytes a read of the port may return
    Reports,        \* what the board may report
    Text,           \* what its console prints
    UP_N,           \* the board starts a frame with at most so many bytes on the line
    REPORTS_N, LOST_N, CUTS_N

ASSUME LinkAssumption ==
    /\ MAXLEN \in 21 .. 253
    /\ Chunks \subseteq Nat \ {0} /\ 1 \in Chunks
    /\ Text \in Seq(0 .. 255)
    /\ REPORTS_N \in Nat /\ LOST_N \in Nat /\ CUTS_N \in Nat /\ UP_N \in Nat

VARIABLES
    sent,           \* the reports the board has sent whole
    up,             \* bytes on the line
    buf,            \* buf_
    got,            \* the reports given to the handler
    lost,           \* how many bytes were lost
    cut             \* the reports a reset cut short

vars == <<sent, up, buf, got, lost, cut>>

Faults == lost + Len(cut)

Byte == 0 .. 255

----------------------------------------------------------------------------
(* Frames *)

\* RPT_KEEPALIVE, RPT_EVENT, RSP_DATA, RSP_TIME
KeepAlive == 1
Event == 2
Data == 3
Time == 4
ReportTags == {KeepAlive, Event, Data, Time}

\* the tags of what a report holds
TAG_TIMESTAMP == 16
TAG_MEASUREMENT == 17
TAG_MODE == 18
TAG_EVENT_SRC == 19
TAG_EVENT_FLAG == 20

Word  == { n \in Nat : n < 65536 }
DWord == { n \in Nat : n \div 65536 \in Word }

\* What the board reports: a snapshot; a transition, a detection or another
\* event, whose unused fields are zero; its time.
Reportable ==
    [tag : {KeepAlive, Data}, ts : DWord, temp : Word, hum : Word, light : Word, batt : Word, mode : Byte]
    \cup [tag : {Event}, ts : DWord, src : {0}, from : Byte, to : Byte, detected : {0}]
    \cup [tag : {Event}, ts : DWord, src : {1}, from : {0}, to : {0}, detected : {0, 1}]
    \cup [tag : {Event}, ts : DWord, src : Byte \ {0, 1}, from : {0}, to : {0}, detected : {0}]
    \cup [tag : {Time}, ts : DWord]

ASSUME ReportsAssumption == Reports \subseteq Reportable

\* The console's text, which begins with a banner, holds no tag of a report and
\* is longer than the value of any.
ASSUME TextAssumption == Len(Text) > MAXLEN /\ \A i \in DOMAIN Text : Text[i] \notin ReportTags

\* bytes_put_u16, bytes_put_u32: the low byte first
U16(n) == <<n % 256, n \div 256>>
U32(n) == U16(n % 65536) \o U16(n \div 65536)

\* bytes_get_u16, bytes_get_u32
AsU16(s) == s[1] + 256 * s[2]
AsU32(s) == AsU16(s) + 65536 * AsU16(SubSeq(s, 3, 4))

\* tlv_write
Tlv(tag, value) == <<tag, Len(value)>> \o value

\* lnc_pack_snapshot
Snapshot(r) ==
    Tlv(TAG_TIMESTAMP, U32(r.ts)) \o Tlv(TAG_MEASUREMENT, U16(r.temp) \o U16(r.hum) \o U16(r.light) \o U16(r.batt)) \o Tlv(TAG_MODE, <<r.mode>>)

\* record_event: what follows the source depends on the source
EventBody(r) ==
    Tlv(TAG_TIMESTAMP, U32(r.ts)) \o Tlv(TAG_EVENT_SRC, <<r.src>>)
        \o (IF r.src = 0 THEN Tlv(TAG_MODE, <<r.from, r.to>>) ELSE <<>>)
        \o (IF r.src = 1 THEN Tlv(TAG_EVENT_FLAG, <<r.detected>>) ELSE <<>>)

Encode(r) ==
    CASE r.tag \in {KeepAlive, Data} -> Tlv(r.tag, Snapshot(r))
      [] r.tag = Event -> Tlv(r.tag, EventBody(r))
      [] r.tag = Time  -> Tlv(r.tag, U32(r.ts))

\* the children fill the value exactly
Filled[v \in Seq(Byte)] ==
    \/ v = <<>>
    \/ Len(v) >= 2 /\ Len(v) >= 2 + v[2] /\ Filled[SubSeq(v, 3 + v[2], Len(v))]

\* childrenOk
ChildrenOk(v) == Filled[v]

\* child: the values of the children with this tag, the first one first
Children[v \in Seq(Byte)] ==
    IF Len(v) < 2 \/ Len(v) < 2 + v[2] THEN <<>>
    ELSE << [tag |-> v[1], value |-> SubSeq(v, 3, 2 + v[2])] >> \o Children[SubSeq(v, 3 + v[2], Len(v))]

Child(v, tag, lengths, default) ==
    LET same  == { i \in DOMAIN Children[v] : Children[v][i].tag = tag }
        first == Children[v][CHOOSE i \in same : \A j \in same : i <= j].value
    IN  IF same # {} /\ Len(first) \in lengths THEN first ELSE default

\* parseReport: what is missing, or has another length, is zero
Parse(tag, v) ==
    LET ts == AsU32(Child(v, TAG_TIMESTAMP, {4}, <<0, 0, 0, 0>>))
        m  == Child(v, TAG_MEASUREMENT, {8}, <<0, 0, 0, 0, 0, 0, 0, 0>>)
        src == Child(v, TAG_EVENT_SRC, 1 .. MAXLEN, <<0>>)[1]
        mm == Child(v, TAG_MODE, {2}, <<0, 0>>)
    IN  CASE tag \in {KeepAlive, Data} ->
                 [tag |-> tag, ts |-> ts, temp |-> AsU16(m), hum |-> AsU16(SubSeq(m, 3, 4)),
                  light |-> AsU16(SubSeq(m, 5, 6)), batt |-> AsU16(SubSeq(m, 7, 8)),
                  mode |-> Child(v, TAG_MODE, 1 .. MAXLEN, <<0>>)[1]]
          [] tag = Event ->
                 [tag |-> tag, ts |-> ts, src |-> src, from |-> mm[1], to |-> mm[2],
                  detected |-> IF src = 1 /\ Child(v, TAG_EVENT_FLAG, 1 .. MAXLEN, <<0>>)[1] # 0 THEN 1 ELSE 0]
          [] tag = Time -> [tag |-> tag, ts |-> IF Len(v) >= 4 THEN AsU32(v) ELSE 0]

----------------------------------------------------------------------------
(* Communication::poll *)

\* no bound on the length
TooLongNever(n) == FALSE

\* no report has a value as long as this
TooLong(n) == n > MAXLEN

\* the extraction loop over the buffer: what is left of it, and the reports
Extract[b \in Seq(Byte)] ==
    LET value   == SubSeq(b, 3, 2 + b[2])
        rest    == SubSeq(b, 3 + b[2], Len(b))
        slide   == Extract[Tail(b)]
        consume == LET x == Extract[rest] IN [x EXCEPT !.reports = <<Parse(b[1], value)>> \o @]
    IN  IF b = <<>> THEN [left |-> b, reports |-> <<>>]
        ELSE IF b[1] \notin ReportTags THEN slide
        ELSE IF Len(b) < 2 THEN [left |-> b, reports |-> <<>>]
        ELSE IF TooLong(b[2]) THEN slide
        ELSE IF Len(b) < 2 + b[2] THEN [left |-> b, reports |-> <<>>]
        ELSE IF b[1] # Time /\ ~ChildrenOk(value) THEN slide
        ELSE consume

Init == sent = <<>> /\ up = <<>> /\ buf = <<>> /\ got = <<>> /\ lost = 0 /\ cut = <<>>

\* transport_send of a frame
Report ==
    /\ Len(sent) < REPORTS_N /\ Len(up) <= UP_N
    /\ \E r \in Reports : sent' = Append(sent, r) /\ up' = up \o Encode(r)
    /\ UNCHANGED <<buf, got, lost, cut>>

\* The board is reset while it sends: the console's text follows.
Cut ==
    /\ Len(cut) < CUTS_N /\ Len(up) <= UP_N
    /\ \E r \in Reports : \E n \in 0 .. Len(Encode(r)) - 1 :
           cut' = Append(cut, r) /\ up' = up \o SubSeq(Encode(r), 1, n) \o Text
    /\ UNCHANGED <<sent, buf, got, lost>>

\* A byte is lost between the UART and the port.
Lose ==
    /\ lost < LOST_N
    /\ up # <<>>
    /\ lost' = lost + 1
    /\ up' = Tail(up)
    /\ UNCHANGED <<sent, buf, got, cut>>

\* what is incomplete at the end of a read is dropped
PollDropsRest ==
    /\ \E k \in Chunks :
           /\ k <= Len(up)
           /\ up' = SubSeq(up, k + 1, Len(up))
           /\ buf' = <<>> /\ got' = got \o Extract[buf \o SubSeq(up, 1, k)].reports
    /\ UNCHANGED <<sent, lost, cut>>

\* poll: what a read gives is added to the buffer, and complete reports taken out
Poll ==
    /\ \E k \in Chunks :
           /\ k <= Len(up)
           /\ up' = SubSeq(up, k + 1, Len(up))
           /\ LET x == Extract[buf \o SubSeq(up, 1, k)] IN
                  buf' = x.left /\ got' = got \o x.reports
    /\ UNCHANGED <<sent, lost, cut>>

Next == Report \/ Cut \/ Lose \/ Poll

Spec == Init /\ [][Next]_vars

----------------------------------------------------------------------------
(* Properties *)

\* Types of the state; what is left in buf_ is the start of one report.
TypeOK ==
    /\ sent \in Seq(Reports) /\ Len(sent) <= REPORTS_N
    /\ up \in Seq(Byte)
    /\ buf \in Seq(Byte)
    /\ buf # <<>> => buf[1] \in ReportTags
    /\ Len(buf) >= 2 => Len(buf) < 2 + buf[2] /\ buf[2] <= MAXLEN
    /\ lost \in 0 .. LOST_N /\ Len(cut) \in 0 .. CUTS_N

\* what the handler gets once everything on the line is read
All == got \o Extract[buf \o up].reports

\* However the reads divide the bytes, the handler gets what was sent, whole,
\* once and in order.
InOrder == Faults = 0 => All = sent

\* A reset that cuts a frame short and has the text of the console after it
\* costs no report sent whole.  What is made of the cut frame comes in one
\* place among the others, and is no more than half as many reports as the
\* frame has bytes: each begins in it.
CutCostsNothing ==
    LET n == Len(All) - Len(sent) IN
    lost = 0 /\ Len(cut) = 1 =>
        /\ 2 * n <= Len(Encode(cut[1]))
        /\ \E i \in 0 .. Len(sent) :
               All = SubSeq(sent, 1, i) \o SubSeq(All, i + 1, i + n) \o SubSeq(sent, i + 1, Len(sent))

\* Read to its end, what is on the line leaves nothing that waits for more.
InStep == Extract[buf \o up].left = <<>>

\* Whatever bytes were lost before and whatever reports that cost: a reset puts
\* the Central back in step, and as long as it is in step and no fault comes,
\* it stays so and hands over what is sent, and nothing else.
StepKept ==
    [][ /\ cut' # cut => InStep'
        /\ InStep /\ lost' = lost /\ cut' = cut =>
               InStep' /\ All' = All \o SubSeq(sent', Len(sent) + 1, Len(sent')) ]_vars
=============================================================================
