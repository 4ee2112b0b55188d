------------------------- MODULE SerialLink_proofs -------------------------
(***************************************************************************)
(* What holds of the serial line, the parsers and the TX queues for every  *)
(* size of the ring, the line, the frames and the queues, every set of     *)
(* commands and every number of records a query finds.                     *)
(***************************************************************************)
EXTENDS SerialLink, SequenceTheorems, WellFoundedInduction, TLAPS

\* What the TX queues hold.
Item == {"KEEPALIVE", "EVENT", "TIME"} \cup Nat

First(s) == SubSeq(s, 1, IF Len(s) <= TXQ_N THEN Len(s) ELSE TXQ_N)

QueueTypes ==
    /\ TxQ \in [Classes -> Seq(Item)]
    /\ due \in Seq(Item)
    /\ answered \in Seq(Item)

\* Who has been overtaken waits still, and nobody overtakes it again: tx_drain
\* looked at the queues above its choice when they were empty.
WaitInv ==
    /\ overtaken \in [Classes -> {0, 1}]
    /\ \A c \in Classes : overtaken[c] = 1 => TxQ[c] # <<>>
    /\ comm = "send" => \A c \in Above(chosen) : overtaken[c] = 0

\* What was sent and what is queued are together the first replies.
AnswerInv ==
    /\ answered \o TxQ["DATA"] = First(due)
    /\ comm \notin {"drain", "send"} => answered = <<>>

BoardInv == CommTypeOK /\ QueueTypes /\ WaitInv /\ AnswerInv

\* A choice of the menu is counted before its command is sent.
SessionInv == session # "menu" => sent <= ops

Inv == TypeOK /\ QueueTypes /\ WaitInv /\ AnswerInv /\ SessionInv

----------------------------------------------------------------------------
(* Sequences *)

\* Filling a queue keeps its bound and what is in it.
LEMMA FillBounded ==
    ASSUME NEW S, NEW q \in Seq(S), NEW r \in Seq(S)
    PROVE  /\ Fill(q, r) \in Seq(S)
           /\ Len(Fill(q, r)) <= TXQ_N
           /\ q # <<>> => Fill(q, r) # <<>>
<1> DEFINE all == q \o r
           n == IF Len(all) <= TXQ_N THEN Len(all) ELSE TXQ_N
<1>1. all \in Seq(S) /\ Len(all) = Len(q) + Len(r) /\ Len(q) \in Nat /\ Len(r) \in Nat
  BY ConcatProperties, LenProperties
<1>2. n \in Nat /\ n <= Len(all) /\ n <= TXQ_N /\ (Len(all) > 0 => n > 0)
  BY <1>1, CommAssumption
<1>3. \A i \in 1 .. n : all[i] \in S
  BY <1>1, <1>2, ElementOfSeq
<1>4. SubSeq(all, 1, n) \in Seq(S) /\ Len(SubSeq(all, 1, n)) = n
  <2> HIDE DEF all, n
  <2> QED
    BY <1>2, <1>3, SubSeqProperties
<1>5. q # <<>> => Len(q) > 0
  BY EmptySeq
<1>6. Len(<<>>) = 0
  BY EmptySeq
<1> QED
  BY <1>1, <1>2, <1>4, <1>5, <1>6 DEF Fill

\* The first of a sequence, when the sequence grows.
LEMMA FirstProperties ==
    ASSUME NEW S, NEW d \in Seq(S)
    PROVE  /\ First(d) \in Seq(S)
           /\ Len(First(d)) = IF Len(d) <= TXQ_N THEN Len(d) ELSE TXQ_N
           /\ \A i \in 1 .. Len(First(d)) : First(d)[i] = d[i]
<1> DEFINE n == IF Len(d) <= TXQ_N THEN Len(d) ELSE TXQ_N
<1>1. Len(d) \in Nat /\ n \in Nat /\ n <= Len(d)
  BY LenProperties, CommAssumption
<1>2. \A i \in 1 .. n : d[i] \in S
  BY <1>1, ElementOfSeq
<1>3. /\ SubSeq(d, 1, n) \in Seq(S)
      /\ Len(SubSeq(d, 1, n)) = n
      /\ \A i \in 1 .. n : SubSeq(d, 1, n)[i] = d[i]
  <2> HIDE DEF n
  <2>1. /\ SubSeq(d, 1, n) \in Seq(S)
        /\ Len(SubSeq(d, 1, n)) = IF 1 <= n THEN n - 1 + 1 ELSE 0
        /\ \A i \in 1 .. n - 1 + 1 : SubSeq(d, 1, n)[i] = d[1 + i - 1]
    BY <1>1, <1>2, SubSeqProperties
  <2> QED
    BY <1>1, <2>1
<1> QED
  BY <1>3 DEF First

\* The first of nothing.
LEMMA FirstOfEmpty == First(<<>>) = <<>>
<1>1. Len(<<>>) = 0
  BY EmptySeq
<1>2. First(<<>>) = SubSeq(<<>>, 1, 0)
  BY <1>1, CommAssumption DEF First
<1> QED
  BY <1>2, SubSeqEmpty

\* Filling up what fits of a sequence gives what fits of the longer one.
LEMMA FirstOfMore ==
    ASSUME NEW S, NEW d \in Seq(S), NEW r \in Seq(S)
    PROVE  Fill(First(d), r) = First(d \o r)
<1> DEFINE q == First(d)
           a == q \o r
           b == d \o r
<1>1. /\ q \in Seq(S) /\ Len(q) = (IF Len(d) <= TXQ_N THEN Len(d) ELSE TXQ_N)
      /\ \A i \in 1 .. Len(q) : q[i] = d[i]
  BY FirstProperties
<1>2. Len(d) \in Nat /\ Len(r) \in Nat /\ Len(q) \in Nat /\ TXQ_N \in Nat \ {0}
  BY <1>1, LenProperties, CommAssumption
<1> HIDE DEF q
<1>3. /\ a \in Seq(S) /\ Len(a) = Len(q) + Len(r)
      /\ \A i \in 1 .. Len(q) + Len(r) : a[i] = IF i <= Len(q) THEN q[i] ELSE r[i - Len(q)]
  BY <1>1, ConcatProperties
<1>4. /\ b \in Seq(S) /\ Len(b) = Len(d) + Len(r)
      /\ \A i \in 1 .. Len(d) + Len(r) : b[i] = IF i <= Len(d) THEN d[i] ELSE r[i - Len(d)]
  BY ConcatProperties
<1> HIDE DEF a, b
<1>5. /\ First(a) \in Seq(S) /\ Len(First(a)) = (IF Len(a) <= TXQ_N THEN Len(a) ELSE TXQ_N)
      /\ \A i \in 1 .. Len(First(a)) : First(a)[i] = a[i]
  BY <1>3, FirstProperties
<1>6. /\ First(b) \in Seq(S) /\ Len(First(b)) = (IF Len(b) <= TXQ_N THEN Len(b) ELSE TXQ_N)
      /\ \A i \in 1 .. Len(First(b)) : First(b)[i] = b[i]
  BY <1>4, FirstProperties
<1>7. Len(First(a)) = Len(First(b))
  BY <1>1, <1>2, <1>3, <1>4, <1>5, <1>6
<1>8. ASSUME NEW i \in 1 .. Len(First(a)) PROVE First(a)[i] = First(b)[i]
  <2>1. i \in 1 .. Len(a) /\ i \in 1 .. Len(b) /\ i <= TXQ_N
    BY <1>2, <1>3, <1>4, <1>5, <1>6, <1>7, <1>8
  <2>2. First(a)[i] = a[i] /\ First(b)[i] = b[i]
    BY <1>5, <1>6, <1>7, <1>8
  <2>3. a[i] = IF i <= Len(q) THEN q[i] ELSE r[i - Len(q)]
    BY <1>3, <2>1
  <2>4. b[i] = IF i <= Len(d) THEN d[i] ELSE r[i - Len(d)]
    BY <1>4, <2>1
  <2>5. CASE i <= Len(q)
    <3>1. i \in 1 .. Len(q) /\ i <= Len(d)
      BY <1>1, <1>2, <2>1, <2>5
    <3> QED
      BY <1>1, <2>2, <2>3, <2>4, <2>5, <3>1
  <2>6. CASE ~(i <= Len(q))
    <3>1. Len(q) = Len(d)
      BY <1>1, <1>2, <2>1, <2>6
    <3> QED
      BY <2>2, <2>3, <2>4, <2>6, <3>1
  <2> QED
    BY <2>5, <2>6
<1>9. First(a) = First(b)
  BY <1>5, <1>6, <1>7, <1>8, SeqEqual
<1> QED
  BY <1>9 DEF a, b, q, First, Fill

\* The oldest frame goes from the queue to the end of what was sent.
LEMMA MoveFirst ==
    ASSUME NEW S, NEW s \in Seq(S), NEW q \in Seq(S), q # <<>>
    PROVE  /\ Append(s, Head(q)) \in Seq(S) /\ Tail(q) \in Seq(S)
           /\ Len(Tail(q)) = Len(q) - 1
           /\ Append(s, Head(q)) \o Tail(q) = s \o q
<1>1. Head(q) \in S /\ Tail(q) \in Seq(S) /\ Len(Tail(q)) = Len(q) - 1
  BY HeadTailProperties
<1>2. Append(s, Head(q)) = s \o <<Head(q)>> /\ Append(s, Head(q)) \in Seq(S)
  BY <1>1, AppendIsConcat, AppendProperties
<1>3. <<Head(q)>> \in Seq(S)
  BY <1>1
<1>4. (s \o <<Head(q)>>) \o Tail(q) = s \o (<<Head(q)>> \o Tail(q))
  BY <1>1, <1>3, ConcatAssociative
<1>5. <<Head(q)>> \o Tail(q) = q
  <2>1. Len(q) \in Nat \ {0}
    BY EmptySeq
  <2>2. 1 \in 1 .. Len(q) /\ Len(q) \in 1 .. Len(q)
    BY <2>1
  <2>3. SubSeq(q, 1, Len(q)) = <<q[1]>> \o SubSeq(q, 1 + 1, Len(q))
    BY <2>2, SubSeqRecursiveFirst
  <2>4. SubSeq(q, 1, Len(q)) = q /\ Tail(q) = SubSeq(q, 2, Len(q)) /\ Head(q) = q[1]
    BY SubSeqFull, TailIsSubSeq
  <2> QED
    BY <2>3, <2>4
<1> QED
  BY <1>1, <1>2, <1>4, <1>5

\* The replies are things a queue may hold.
LEMMA RepliesTyped ==
    ASSUME NEW f, NEW r \in Replies(f)
    PROVE  r \in Seq(Item)
<1>1. CASE r = <<"TIME">> \/ r = <<>>
  <2>1. "TIME" \in Item
    BY DEF Item
  <2>2. Append(<<>>, "TIME") \in Seq(Item) /\ <<>> \in Seq(Item)
    BY <2>1, EmptySeq, AppendProperties
  <2>3. Append(<<>>, "TIME") = <<"TIME">>
    OBVIOUS
  <2> QED
    BY <1>1, <2>2, <2>3
<1>2. ASSUME NEW n \in Found, r = [ i \in 1 .. n |-> i ] PROVE r \in Seq(Item)
  <2>1. n \in Nat
    BY CommAssumption
  <2>2. r \in [1 .. n -> Item]
    BY <1>2, <2>1 DEF Item
  <2> QED
    BY <2>1, <2>2, SeqDef
<1> QED
  BY <1>1, <1>2 DEF Replies

----------------------------------------------------------------------------
(* Steps of the board *)

\* What the other tasks queue disturbs nothing.
LEMMA OthersStep ==
    ASSUME BoardInv, comm \in {"drain", "send"}, OthersNext
    PROVE  BoardInv'
<1>1. PICK c \in {"EVENT", "KEEPALIVE"} :
          /\ TxQ' = [TxQ EXCEPT ![c] = Fill(TxQ[c], <<c>>)]
          /\ UNCHANGED <<down, protocol, rx, comm, chosen, due, answered, overtaken, executed>>
  BY DEF OthersNext, ForwardEvent, KeepAlive
<1>2. TxQ[c] \in Seq(Item) /\ <<c>> \in Seq(Item)
  BY DEF BoardInv, QueueTypes, Classes, Item
<1>3. /\ Fill(TxQ[c], <<c>>) \in Seq(Item)
      /\ Len(Fill(TxQ[c], <<c>>)) <= TXQ_N
      /\ TxQ[c] # <<>> => Fill(TxQ[c], <<c>>) # <<>>
  BY <1>2, FillBounded
<1>4. /\ TxQ' \in [Classes -> Seq(Item)]
      /\ \A d \in Classes : Len(TxQ'[d]) <= TXQ_N /\ (TxQ[d] # <<>> => TxQ'[d] # <<>>)
      /\ TxQ'["DATA"] = TxQ["DATA"]
  BY <1>1, <1>3 DEF BoardInv, QueueTypes, CommTypeOK, Classes
<1>5. CommTypeOK'
  BY <1>1, <1>4 DEF BoardInv, CommTypeOK, rx
<1>6. QueueTypes'
  BY <1>1, <1>4 DEF BoardInv, QueueTypes
<1>7. WaitInv'
  BY <1>1, <1>4 DEF BoardInv, WaitInv
<1>8. AnswerInv'
  BY <1>1, <1>4 DEF BoardInv, AnswerInv, First
<1> QED
  BY <1>5, <1>6, <1>7, <1>8 DEF BoardInv

\* A step that leaves the queues and the passes of the Comm task alone.
LEMMA QueuesStay ==
    ASSUME BoardInv, CommTypeOK', UNCHANGED tx,
           comm' # "send" \/ comm' = comm,
           comm' \in {"drain", "send"} \/ comm \notin {"drain", "send"}
    PROVE  BoardInv'
<1>1. QueueTypes'
  BY DEF BoardInv, QueueTypes, tx
<1>2. WaitInv'
  BY DEF BoardInv, WaitInv, tx
<1>3. AnswerInv'
  BY DEF BoardInv, AnswerInv, First, tx
<1> QED
  BY <1>1, <1>2, <1>3 DEF BoardInv

\* The interrupt touches line and ring only.
LEMMA RxStep ==
    ASSUME BoardInv, RxIsr
    PROVE  BoardInv'
<1>1. down # <<>> /\ down \in Seq(Byte) /\ rxq \in Seq(Byte) /\ Len(rxq) <= RXQ_N - 1
  BY DEF RxIsr, BoardInv, CommTypeOK
<1>2. Head(down) \in Byte /\ Tail(down) \in Seq(Byte)
  BY <1>1, HeadTailProperties
<1>3. rxq' \in Seq(Byte) /\ Len(rxq') <= RXQ_N - 1
  <2>1. CASE RingFull
    BY <1>1, <2>1 DEF RxIsr
  <2>2. CASE ~RingFull
    <3>1. Append(rxq, Head(down)) \in Seq(Byte) /\ Len(Append(rxq, Head(down))) = Len(rxq) + 1
      BY <1>1, <1>2, AppendProperties
    <3>2. Len(rxq) \in Nat /\ RXQ_N \in Nat
      BY <1>1, LenProperties, CommAssumption
    <3> QED
      BY <1>1, <2>2, <3>1, <3>2 DEF RxIsr, RingFull
  <2> QED
    BY <2>1, <2>2
<1>4. CommTypeOK'
  BY <1>2, <1>3 DEF RxIsr, BoardInv, CommTypeOK, tx
<1> QED
  BY <1>4, QueuesStay DEF RxIsr

\* Neither does the beginning of a pass touch the queues,
LEMMA WakeStep ==
    ASSUME BoardInv, CommWake
    PROVE  BoardInv'
<1>1. CommTypeOK'
  BY DEF CommWake, BoardInv, CommTypeOK, rx, tx
<1> QED
  BY <1>1, QueuesStay DEF CommWake

\* nor the end of the ring,
LEMMA DrainedStep ==
    ASSUME BoardInv, CommDrained
    PROVE  BoardInv'
<1>1. CommTypeOK'
  BY DEF CommDrained, BoardInv, CommTypeOK, rx, tx
<1> QED
  BY <1>1, QueuesStay DEF CommDrained

\* nor the change of the parser,
LEMMA EnterStep ==
    ASSUME BoardInv, EnterProtocol
    PROVE  BoardInv'
<1>1. CommTypeOK'
  BY DEF EnterProtocol, BoardInv, CommTypeOK, rx, tx
<1> QED
  BY <1>1, QueuesStay DEF EnterProtocol

\* nor a byte for the console.
LEMMA ConsoleStep ==
    ASSUME BoardInv, ConsoleByte
    PROVE  BoardInv'
<1> DEFINE c == Head(rxq)
<1>1. /\ rxq # <<>> /\ rxq \in Seq(Byte) /\ Len(rxq) <= RXQ_N - 1
      /\ lb \in Seq(32 .. 126) /\ Len(lb) <= LINE_N - 1
      /\ comm = "console" /\ rxq' = Tail(rxq)
      /\ UNCHANGED <<down, protocol, fr, tx, executed>>
  BY DEF ConsoleByte, BoardInv, CommTypeOK
<1>2. Tail(rxq) \in Seq(Byte) /\ Len(Tail(rxq)) = Len(rxq) - 1
  BY <1>1, HeadTailProperties
<1>3. Len(rxq) \in Nat /\ RXQ_N \in Nat /\ Len(lb) \in Nat /\ LINE_N \in Nat \ {0}
  BY <1>1, LenProperties, CommAssumption
<1>4. lb' \in Seq(32 .. 126) /\ Len(lb') <= LINE_N - 1
  <2>1. CASE lb' = <<>>
    BY <1>3, <2>1
  <2>2. CASE lb # <<>> /\ lb' = Front(lb)
    <3>1. Len(lb) \in Nat \ {0}
      BY <1>1, <2>2, EmptySeq
    <3>2. ASSUME NEW i \in 1 .. Len(lb) - 1 PROVE lb[i] \in 32 .. 126
      <4>1. i \in 1 .. Len(lb)
        BY <3>1
      <4> QED
        BY <1>1, <4>1, ElementOfSeq
    <3>3. /\ SubSeq(lb, 1, Len(lb) - 1) \in Seq(32 .. 126)
          /\ Len(SubSeq(lb, 1, Len(lb) - 1)) = IF 1 <= Len(lb) - 1 THEN (Len(lb) - 1) - 1 + 1 ELSE 0
      BY <3>1, <3>2, SubSeqProperties
    <3> QED
      BY <1>1, <1>3, <2>2, <3>1, <3>3 DEF Front
  <2>3. CASE lb' = lb
    BY <1>1, <2>3
  <2>4. CASE c \in 32 .. 126 /\ Len(lb) < LINE_N - 1 /\ lb' = Append(lb, c)
    <3>1. Append(lb, c) \in Seq(32 .. 126) /\ Len(Append(lb, c)) = Len(lb) + 1
      BY <1>1, <2>4, AppendProperties
    <3> QED
      BY <1>3, <2>4, <3>1
  <2> QED
    BY <2>1, <2>2, <2>3, <2>4 DEF ConsoleByte
<1>5. comm' \in {"console", "enter"}
  BY DEF ConsoleByte
<1>6. rxq' \in Seq(Byte) /\ Len(rxq') <= RXQ_N - 1
  BY <1>1, <1>2, <1>3
<1>7. CommTypeOK'
  BY <1>1, <1>4, <1>5, <1>6 DEF BoardInv, CommTypeOK, tx
<1> QED
  BY <1>1, <1>5, <1>7, QueuesStay

\* A complete command queues its replies after those of this pass.
LEMMA BinaryStep ==
    ASSUME BoardInv, BinaryByte
    PROVE  BoardInv'
<1> DEFINE next == IF Len(fr) < FRAME_MAX THEN Append(fr, Head(rxq)) ELSE fr
<1>1. /\ rxq # <<>> /\ rxq \in Seq(Byte) /\ Len(rxq) <= RXQ_N - 1
      /\ fr \in Seq(Byte) /\ Len(fr) <= FRAME_MAX
      /\ comm = "binary" /\ rxq' = Tail(rxq)
      /\ UNCHANGED <<down, protocol, lb, comm, chosen, answered, overtaken>>
      /\ answered = <<>>
  BY DEF BinaryByte, BoardInv, CommTypeOK, AnswerInv
<1>2. Head(rxq) \in Byte /\ Tail(rxq) \in Seq(Byte) /\ Len(Tail(rxq)) = Len(rxq) - 1
  BY <1>1, HeadTailProperties
<1>3. Len(rxq) \in Nat /\ RXQ_N \in Nat /\ Len(fr) \in Nat /\ FRAME_MAX \in Nat
  BY <1>1, LenProperties, CommAssumption
<1>4. next \in Seq(Byte) /\ Len(next) <= FRAME_MAX
  <2>1. Append(fr, Head(rxq)) \in Seq(Byte) /\ Len(Append(fr, Head(rxq))) = Len(fr) + 1
    BY <1>1, <1>2, AppendProperties
  <2> QED
    BY <1>1, <1>3, <2>1
<1>5. fr' \in {<<>>, next}
  BY DEF BinaryByte
<1>6. fr' \in Seq(Byte) /\ Len(fr') <= FRAME_MAX
  <2>1. Len(<<>>) = 0 /\ <<>> \in Seq(Byte)
    BY EmptySeq
  <2> HIDE DEF next
  <2>2. CASE fr' = <<>>
    BY <1>3, <2>1, <2>2
  <2>3. CASE fr' = next
    BY <1>4, <2>3
  <2> QED
    BY <1>5, <2>2, <2>3
<1>7. rxq' \in Seq(Byte) /\ Len(rxq') <= RXQ_N - 1
  BY <1>1, <1>2, <1>3
<1>8. CASE UNCHANGED <<due, TxQ>>
  <2>1. UNCHANGED tx
    BY <1>1, <1>8 DEF tx
  <2>2. CommTypeOK'
    BY <1>1, <1>6, <1>7, <1>8 DEF BoardInv, CommTypeOK
  <2> QED
    BY <1>1, <2>1, <2>2, QueuesStay
<1>9. ASSUME NEW r \in Replies(next), due' = due \o r,
             TxQ' = [TxQ EXCEPT !["DATA"] = Fill(TxQ["DATA"], r)]
      PROVE  BoardInv'
  <2>1. r \in Seq(Item)
    BY <1>9, RepliesTyped
  <2>2. TxQ["DATA"] \in Seq(Item) /\ due \in Seq(Item)
    BY DEF BoardInv, QueueTypes, Classes
  <2>3. /\ Fill(TxQ["DATA"], r) \in Seq(Item)
        /\ Len(Fill(TxQ["DATA"], r)) <= TXQ_N
        /\ TxQ["DATA"] # <<>> => Fill(TxQ["DATA"], r) # <<>>
    BY <2>1, <2>2, FillBounded
  <2>4. /\ TxQ' \in [Classes -> Seq(Item)]
        /\ \A d \in Classes : Len(TxQ'[d]) <= TXQ_N /\ (TxQ[d] # <<>> => TxQ'[d] # <<>>)
        /\ TxQ'["DATA"] = Fill(TxQ["DATA"], r)
    BY <1>9, <2>3 DEF BoardInv, QueueTypes, CommTypeOK, Classes
  <2>5. CommTypeOK'
    BY <1>1, <1>6, <1>7, <2>4 DEF BoardInv, CommTypeOK
  <2>6. QueueTypes'
    <3>1. due \o r \in Seq(Item)
      BY <2>1, <2>2, ConcatProperties
    <3> QED
      BY <1>1, <1>9, <2>4, <3>1 DEF BoardInv, QueueTypes
  <2>7. WaitInv'
    BY <1>1, <2>4 DEF BoardInv, WaitInv
  <2>8. AnswerInv'
    <3>1. TxQ["DATA"] = First(due)
      BY <1>1, <2>2, ConcatEmptySeq DEF BoardInv, AnswerInv
    <3>2. TxQ'["DATA"] = First(due \o r)
      BY <2>1, <2>2, <2>4, <3>1, FirstOfMore
    <3>3. <<>> \o TxQ'["DATA"] = TxQ'["DATA"]
      BY <2>3, <2>4, ConcatEmptySeq
    <3> QED
      BY <1>1, <1>9, <3>2, <3>3 DEF AnswerInv, First
  <2> QED
    BY <2>5, <2>6, <2>7, <2>8 DEF BoardInv
<1> QED
  BY <1>8, <1>9 DEF BinaryByte, Execute

\* The choice is of a class above which nothing waits.
LEMMA ChooseStep ==
    ASSUME BoardInv, Choose
    PROVE  BoardInv'
<1>1. PICK c \in Waiting : Above(c) \cap Waiting = {} /\ chosen' = c
  BY DEF Choose
<1>2. /\ comm = "drain" /\ comm' = "send"
      /\ UNCHANGED <<down, protocol, rxq, lb, fr, TxQ, due, answered, overtaken, executed>>
  BY DEF Choose, rx
<1>3. c \in Classes /\ TxQ[c] # <<>>
  BY DEF Waiting
<1>4. CommTypeOK'
  BY <1>1, <1>2, <1>3 DEF BoardInv, CommTypeOK
<1>5. QueueTypes'
  BY <1>2 DEF BoardInv, QueueTypes
<1>6. \A d \in Above(c) : overtaken[d] = 0
  <2> SUFFICES ASSUME NEW d \in Above(c) PROVE overtaken[d] = 0
    OBVIOUS
  <2>1. d \in Classes
    BY <1>3 DEF Above, Classes
  <2>2. TxQ[d] = <<>>
    BY <1>1, <2>1 DEF Waiting
  <2> QED
    BY <2>1, <2>2 DEF BoardInv, WaitInv
<1>7. WaitInv'
  BY <1>1, <1>2, <1>6 DEF BoardInv, WaitInv
<1>8. AnswerInv'
  BY <1>2 DEF BoardInv, AnswerInv, First
<1> QED
  BY <1>4, <1>5, <1>7, <1>8 DEF BoardInv

\* A frame goes out before the ones above it only if none of them was overtaken.
LEMMA SendStep ==
    ASSUME BoardInv, Send
    PROVE  BoardInv'
<1>1. /\ comm = "send" /\ comm' = "drain" /\ chosen' = None
      /\ TxQ' = [TxQ EXCEPT ![chosen] = Tail(TxQ[chosen])]
      /\ answered' = IF chosen = "DATA" THEN Append(answered, Head(TxQ["DATA"])) ELSE answered
      /\ overtaken' = [ c \in Classes |->
             IF c \in Above(chosen) /\ TxQ[c] # <<>> THEN overtaken[c] + 1
             ELSE IF c = chosen THEN 0 ELSE overtaken[c] ]
      /\ UNCHANGED <<down, protocol, rxq, lb, fr, due, executed>>
  BY DEF Send, rx
<1>2. chosen \in Classes /\ TxQ[chosen] # <<>> /\ TxQ[chosen] \in Seq(Item)
  BY <1>1 DEF BoardInv, CommTypeOK, QueueTypes
<1>3. Tail(TxQ[chosen]) \in Seq(Item) /\ Len(Tail(TxQ[chosen])) = Len(TxQ[chosen]) - 1
  BY <1>2, HeadTailProperties
<1>4. Len(TxQ[chosen]) \in Nat /\ TXQ_N \in Nat /\ Len(TxQ[chosen]) <= TXQ_N
  BY <1>2, LenProperties, CommAssumption DEF BoardInv, CommTypeOK
<1>5. TxQ' \in [Classes -> Seq(Item)]
  BY <1>1, <1>2, <1>3 DEF BoardInv, QueueTypes
<1>6. \A c \in Classes : c # chosen => TxQ'[c] = TxQ[c]
  BY <1>1 DEF BoardInv, QueueTypes
<1>7. TxQ'[chosen] = Tail(TxQ[chosen])
  BY <1>1, <1>2 DEF BoardInv, QueueTypes
<1>8. ASSUME NEW c \in Classes PROVE Len(TxQ'[c]) <= TXQ_N
  <2>1. CASE c = chosen
    <3>1. Len(Tail(TxQ[chosen])) <= TXQ_N
      BY <1>3, <1>4
    <3>2. TxQ'[c] = Tail(TxQ[chosen])
      BY <1>7, <2>1
    <3> QED
      BY <3>1, <3>2
  <2>2. CASE c # chosen
    BY <1>6, <2>2 DEF BoardInv, CommTypeOK
  <2> QED
    BY <2>1, <2>2
<1>9. CommTypeOK'
  BY <1>1, <1>8 DEF BoardInv, CommTypeOK
<1>10. answered \in Seq(Item) /\ due \in Seq(Item)
  BY DEF BoardInv, QueueTypes
<1>11. ASSUME chosen = "DATA" PROVE QueueTypes' /\ AnswerInv'
  <2>1. /\ Append(answered, Head(TxQ["DATA"])) \in Seq(Item)
        /\ Append(answered, Head(TxQ["DATA"])) \o Tail(TxQ["DATA"]) = answered \o TxQ["DATA"]
    BY <1>2, <1>10, <1>11, MoveFirst
  <2>2. QueueTypes'
    BY <1>1, <1>5, <1>10, <1>11, <2>1 DEF QueueTypes
  <2>3. AnswerInv'
    BY <1>1, <1>7, <1>11, <2>1 DEF BoardInv, AnswerInv, First
  <2> QED
    BY <2>2, <2>3
<1>12. ASSUME chosen # "DATA" PROVE QueueTypes' /\ AnswerInv'
  <2>1. TxQ'["DATA"] = TxQ["DATA"]
    BY <1>6, <1>12 DEF Classes
  <2>2. QueueTypes'
    BY <1>1, <1>5, <1>10, <1>12 DEF QueueTypes
  <2>3. AnswerInv'
    BY <1>1, <1>12, <2>1 DEF BoardInv, AnswerInv, First
  <2> QED
    BY <2>2, <2>3
<1>13. WaitInv'
  <2>1. ASSUME NEW c \in Classes
        PROVE  overtaken'[c] \in {0, 1} /\ (overtaken'[c] = 1 => TxQ'[c] # <<>>)
    <3>1. c \in Above(chosen) => c # chosen /\ overtaken[c] = 0
      BY <1>1, <1>2 DEF BoardInv, WaitInv, Above, Classes
    <3>2. overtaken[c] \in {0, 1} /\ (overtaken[c] = 1 => TxQ[c] # <<>>)
      BY DEF BoardInv, WaitInv
    <3>3. overtaken'[c] = IF c \in Above(chosen) /\ TxQ[c] # <<>> THEN overtaken[c] + 1
                          ELSE IF c = chosen THEN 0 ELSE overtaken[c]
      BY <1>1
    <3> QED
      BY <1>6, <3>1, <3>2, <3>3
  <2>2. overtaken' \in [Classes -> {0, 1}]
    <3>1. overtaken' = [c \in Classes |-> overtaken'[c]]
      BY <1>1
    <3> QED
      BY <2>1, <3>1
  <2> QED
    BY <1>1, <2>1, <2>2 DEF WaitInv
<1> QED
  BY <1>9, <1>11, <1>12, <1>13 DEF BoardInv

\* The pass ends with all queues empty.
LEMMA DoneStep ==
    ASSUME BoardInv, CommDone
    PROVE  BoardInv'
<1>1. /\ comm' = "delay" /\ due' = <<>> /\ answered' = <<>>
      /\ UNCHANGED <<down, protocol, rxq, lb, fr, TxQ, chosen, overtaken, executed>>
      /\ TxQ["DATA"] = <<>>
  BY DEF CommDone, rx, Waiting, Classes
<1>2. CommTypeOK'
  BY <1>1 DEF BoardInv, CommTypeOK
<1>3. <<>> \in Seq(Item) /\ Len(<<>>) = 0
  BY EmptySeq
<1>4. QueueTypes'
  BY <1>1, <1>3 DEF BoardInv, QueueTypes
<1>5. WaitInv'
  BY <1>1 DEF BoardInv, WaitInv
<1>6. AnswerInv'
  <2>1. First(<<>>) = <<>>
    BY FirstOfEmpty
  <2>2. <<>> \o <<>> = <<>>
    BY <1>3, ConcatEmptySeq
  <2> QED
    BY <1>1, <2>1, <2>2 DEF AnswerInv, First
<1> QED
  BY <1>2, <1>4, <1>5, <1>6 DEF BoardInv

\* The board at power-up.
Fresh ==
    /\ down \in Seq(Byte) /\ protocol = FALSE
    /\ rxq = <<>> /\ lb = <<>> /\ fr = <<>>
    /\ comm = "delay"
    /\ TxQ = [c \in Classes |-> <<>>] /\ chosen = None
    /\ due = <<>> /\ answered = <<>>
    /\ overtaken = [c \in Classes |-> 0]

\* The queues start empty.
LEMMA FreshInv == Fresh => BoardInv
<1> SUFFICES ASSUME Fresh PROVE BoardInv
  OBVIOUS
<1>1. \A S : <<>> \in Seq(S) /\ Len(<<>>) = 0
  BY EmptySeq
<1>2. CommTypeOK
  <2>1. 0 <= RXQ_N - 1 /\ 0 <= LINE_N - 1 /\ 0 <= FRAME_MAX /\ 0 <= TXQ_N
    BY CommAssumption
  <2>2. \A c \in Classes : Len(TxQ[c]) <= TXQ_N
    BY <1>1, <2>1 DEF Fresh
  <2>3. comm # "send" /\ comm \in {"delay", "console", "enter", "binary", "drain", "send"}
    BY DEF Fresh
  <2> QED
    BY <1>1, <2>1, <2>2, <2>3 DEF Fresh, CommTypeOK
<1>3. QueueTypes
  BY <1>1 DEF Fresh, QueueTypes
<1>4. WaitInv
  BY DEF Fresh, WaitInv
<1>5. AnswerInv
  <2>1. First(<<>>) = <<>>
    BY FirstOfEmpty
  <2>2. <<>> \o <<>> = <<>>
    BY <1>1, ConcatEmptySeq
  <2>3. TxQ["DATA"] = <<>>
    BY DEF Fresh, Classes
  <2> QED
    BY <2>1, <2>2, <2>3 DEF Fresh, AnswerInv
<1> QED
  BY <1>2, <1>3, <1>4, <1>5 DEF BoardInv

\* A reset empties them.
LEMMA ResetInv ==
    ASSUME down' \in Seq(Byte), Reset
    PROVE  BoardInv'
<1>1. Fresh'
  BY DEF Reset, Fresh
<1>2. Fresh' => BoardInv'
  BY FreshInv, PTL
<1> QED
  BY <1>1, <1>2

\* All steps of the board together.
LEMMA BoardStep ==
    ASSUME BoardInv, Board
    PROVE  BoardInv'
<1>1. CASE comm \in {"drain", "send"} /\ OthersNext
  BY <1>1, OthersStep
<1>2. CASE RxIsr
  BY <1>2, RxStep
<1>3. CASE CommNext
  BY <1>3, WakeStep, DrainedStep, ConsoleStep, EnterStep, BinaryStep, ChooseStep, SendStep, DoneStep
     DEF CommNext
<1> QED
  BY <1>1, <1>2, <1>3 DEF Board

\* What only changes the line leaves the board alone.
LEMMA LineStep ==
    ASSUME BoardInv, down' \in Seq(Byte),
           UNCHANGED <<protocol, rxq, lb, fr, comm, TxQ, chosen, due, answered, overtaken>>
    PROVE  BoardInv'
<1>1. CommTypeOK'
  BY DEF BoardInv, CommTypeOK
<1>2. QueueTypes' /\ WaitInv' /\ AnswerInv'
  BY DEF BoardInv, QueueTypes, WaitInv, AnswerInv, First
<1> QED
  BY <1>1, <1>2 DEF BoardInv

----------------------------------------------------------------------------
(* The two sides *)

\* What the Central writes is bytes.
LEMMA SendBytesStep ==
    ASSUME BoardInv, faults \in 0 .. FAULTS_N,
           NEW s \in Commands \cup {ProtoLine}, SendBytes(s)
    PROVE  /\ BoardInv'
           /\ faults' \in 0 .. FAULTS_N /\ faults <= faults'
           /\ UNCHANGED <<resets, extra>>
<1>1. s \in Seq(Byte)
  <2>1. CASE s \in Commands
    BY <2>1, LinkAssumption
  <2>2. CASE s = ProtoLine
    <3>1. Proto \in Seq(Byte) /\ <<CR, LF>> \in Seq(Byte)
      BY DEF Proto, CR, LF, Byte
    <3> QED
      BY <2>2, <3>1, ConcatProperties DEF ProtoLine
  <2> QED
    BY <2>1, <2>2
<1>2. BoardInv'
  BY <1>1, LineStep DEF SendBytes, rx, tx
<1>3. faults' \in 0 .. FAULTS_N /\ faults <= faults'
  BY LinkAssumption DEF SendBytes, Fault
<1> QED
  BY <1>2, <1>3 DEF SendBytes

\* The board is fresh and the menu waits.
LEMMA InitInv == Init => Inv
<1> SUFFICES ASSUME Init PROVE Inv
  OBVIOUS
<1>1. BoardInv
  BY FreshInv, EmptySeq DEF Init, CommInit, Fresh
<1>2. TypeOK
  <2>1. 0 \in 0 .. OPS_N /\ 0 \in 0 .. 0 + 1 /\ 0 \in 0 .. FAULTS_N /\ 0 \in 0 .. 0 /\ 0 \in 0 .. OTHERS_N
    BY LinkAssumption
  <2> QED
    BY <1>1, <2>1 DEF Init, TypeOK, BoardInv
<1>3. SessionInv
  BY DEF Init, SessionInv
<1> QED
  BY <1>1, <1>2, <1>3 DEF Inv, BoardInv

\* All steps of both sides together.
LEMMA NextInv == Inv /\ [Next]_vars => Inv'
<1> SUFFICES ASSUME Inv, [Next]_vars PROVE Inv'
  OBVIOUS
<1>b. BoardInv
  BY DEF Inv, TypeOK, BoardInv
<1>t. /\ session \in {"proto", "sync", "menu"}
      /\ ops \in 0 .. OPS_N /\ sent \in 0 .. ops + 1
      /\ faults \in 0 .. FAULTS_N /\ resets \in 0 .. faults
      /\ extra \in 0 .. OTHERS_N /\ trouble \in BOOLEAN /\ unsynced \in BOOLEAN
      /\ session # "menu" => sent <= ops
  BY DEF Inv, TypeOK, SessionInv
<1>n. OPS_N \in Nat /\ FAULTS_N \in Nat /\ OTHERS_N \in Nat
  BY LinkAssumption
<1>h. \A h : Hurt(h) => trouble' \in BOOLEAN
  BY DEF Hurt
<1>1. CASE SendProto
  <2>1. SendBytes(ProtoLine) /\ session' = "sync" /\ UNCHANGED <<sent, unsynced>>
    BY <1>1 DEF SendProto
  <2>2. BoardInv' /\ faults' \in 0 .. FAULTS_N /\ faults <= faults' /\ UNCHANGED <<resets, extra>>
    BY <1>b, <1>t, <2>1, SendBytesStep
  <2>3. /\ ops' \in 0 .. OPS_N
        /\ sent' \in 0 .. ops' + 1 /\ sent' <= ops'
        /\ resets' \in 0 .. faults'
    <3>1. (ops' = ops /\ sent <= ops) \/ (ops < OPS_N /\ ops' = ops + 1)
      BY <1>1, <1>t DEF SendProto
    <3> QED
      BY <1>t, <1>n, <2>1, <2>2, <3>1
  <2>4. trouble' \in BOOLEAN
    BY <1>1, <1>h DEF SendProto
  <2>5. TypeOK' /\ SessionInv'
    BY <1>t, <1>n, <2>1, <2>2, <2>3, <2>4 DEF TypeOK, SessionInv, BoardInv
  <2> QED
    BY <2>2, <2>5 DEF Inv, BoardInv
<1>2. CASE SendSync
  <2>1. SendBytes(SyncCommand) /\ session = "sync" /\ session' = "menu" /\ sent' = sent + 1
        /\ unsynced' = TRUE /\ UNCHANGED ops
    BY <1>2 DEF SendSync
  <2>2. BoardInv' /\ faults' \in 0 .. FAULTS_N /\ faults <= faults' /\ UNCHANGED <<resets, extra>>
    BY <1>b, <1>t, <2>1, SendBytesStep DEF Commands
  <2>3. trouble' \in BOOLEAN
    BY <1>2, <1>h DEF SendSync
  <2>4. TypeOK' /\ SessionInv'
    BY <1>t, <1>n, <2>1, <2>2, <2>3 DEF TypeOK, SessionInv, BoardInv
  <2> QED
    BY <2>2, <2>4 DEF Inv, BoardInv
<1>3. CASE SendCommand
  <2>1. PICK c \in MenuCommands : SendBytes(c)
    BY <1>3 DEF SendCommand
  <2>2. session = "menu" /\ ops < OPS_N /\ ops' = ops + 1 /\ sent' = sent + 1
        /\ UNCHANGED <<session, unsynced>>
    BY <1>3 DEF SendCommand
  <2>3. BoardInv' /\ faults' \in 0 .. FAULTS_N /\ faults <= faults' /\ UNCHANGED <<resets, extra>>
    BY <1>b, <1>t, <2>1, SendBytesStep DEF Commands
  <2>4. trouble' \in BOOLEAN
    BY <1>3, <1>h DEF SendCommand
  <2>5. TypeOK' /\ SessionInv'
    BY <1>t, <1>n, <2>2, <2>3, <2>4 DEF TypeOK, SessionInv, BoardInv
  <2> QED
    BY <2>3, <2>5 DEF Inv, BoardInv
<1>4. CASE Restart
  <2>1. BoardInv'
    BY <1>4, <1>b, LineStep DEF Restart, commVars, BoardInv, CommTypeOK
  <2>2. TypeOK' /\ SessionInv'
    BY <1>4, <1>t, <1>n, <2>1 DEF Restart, TypeOK, SessionInv, BoardInv
  <2> QED
    BY <2>1, <2>2 DEF Inv, BoardInv
<1>5. CASE Board
  <2>1. BoardInv'
    BY <1>5, <1>b, BoardStep
  <2>2. UNCHANGED <<session, ops, sent, faults, resets>> /\ unsynced' \in BOOLEAN
    BY <1>5 DEF Board, central
  <2>3. extra' \in 0 .. OTHERS_N
    <3>1. CASE extra < OTHERS_N /\ extra' = extra + 1
      BY <1>t, <1>n, <3>1
    <3>2. CASE extra' = extra
      BY <1>t, <3>2
    <3>3. CASE extra' = 0
      BY <1>t, <1>n, <3>3
    <3> QED
      BY <1>5, <3>1, <3>2, <3>3 DEF Board
  <2>4. trouble' \in BOOLEAN
    BY <1>5, <1>h DEF Board
  <2>5. TypeOK' /\ SessionInv'
    BY <1>t, <2>1, <2>2, <2>3, <2>4 DEF TypeOK, SessionInv, BoardInv
  <2> QED
    BY <2>1, <2>5 DEF Inv, BoardInv
<1>6. CASE Lose
  <2>1. down # <<>> /\ down' = Tail(down) /\ down \in Seq(Byte)
    BY <1>6, <1>b DEF Lose, BoardInv, CommTypeOK
  <2>2. BoardInv'
    BY <1>6, <1>b, <2>1, HeadTailProperties, LineStep DEF Lose, rx, tx
  <2>3. faults' \in 0 .. FAULTS_N /\ faults <= faults'
    BY <1>6, <1>t, <1>n DEF Lose, Fault
  <2>4. trouble' \in BOOLEAN
    BY <1>6, <1>h DEF Lose
  <2>5. TypeOK' /\ SessionInv'
    BY <1>6, <1>t, <1>n, <2>2, <2>3, <2>4 DEF Lose, central, TypeOK, SessionInv, BoardInv
  <2> QED
    BY <2>2, <2>5 DEF Inv, BoardInv
<1>7. CASE ResetBoard
  <2>1. down \in Seq(Byte) /\ Reset
    BY <1>7, <1>b DEF ResetBoard, BoardInv, CommTypeOK
  <2>2. BoardInv'
    <3>1. down' \in Seq(Byte)
      BY <2>1 DEF Reset
    <3> QED
      BY <2>1, <3>1, ResetInv
  <2>3. faults' \in 0 .. FAULTS_N /\ resets' \in 0 .. faults'
    BY <1>7, <1>t, <1>n DEF ResetBoard, Fault
  <2>4. trouble' \in BOOLEAN
    BY <1>7, <1>h DEF ResetBoard
  <2>5. extra' = 0 /\ 0 \in 0 .. OTHERS_N
    BY <1>7, <1>n DEF ResetBoard
  <2>6. TypeOK' /\ SessionInv'
    BY <1>7, <1>t, <1>n, <2>2, <2>3, <2>4, <2>5 DEF ResetBoard, central, TypeOK, SessionInv, BoardInv
  <2> QED
    BY <2>2, <2>6 DEF Inv, BoardInv
<1>8. CASE UNCHANGED vars
  <2>1. BoardInv'
    BY <1>8, <1>b, LineStep DEF vars, commVars, BoardInv, CommTypeOK
  <2>2. TypeOK' /\ SessionInv'
    BY <1>8, <1>t, <2>1 DEF vars, TypeOK, SessionInv, BoardInv
  <2> QED
    BY <2>1, <2>2 DEF Inv, BoardInv
<1> QED
  BY <1>1, <1>2, <1>3, <1>4, <1>5, <1>6, <1>7, <1>8 DEF Next

----------------------------------------------------------------------------
\* The invariant, for every reachable state.
LEMMA Invariance == Spec => []Inv
BY InitInv, NextInv, PTL DEF Spec

\* Types of the state, in all behaviours: in particular the ring, the line,
\* the frame buffer and the queues never hold more than they have room for,
\* and tx_drain takes from no empty queue.
THEOREM TypeInvariant == Spec => []TypeOK
<1>1. Inv => TypeOK
  BY DEF Inv
<1> QED
  BY Invariance, <1>1, PTL

\* For every capacity of the queues and whatever the other tasks add between
\* the steps of tx_drain, a frame waits for at most one of a lower class.
THEOREM OneOvertakes == Spec => []InversionBounded
<1>1. Inv => InversionBounded
  BY DEF Inv, WaitInv, InversionBounded
<1> QED
  BY Invariance, <1>1, PTL

\* For every capacity of the data queue and every number of records found, the
\* Central gets the first replies of a pass, in order, as many as fit.
THEOREM OldestAnswered == Spec => []AnswersAreOldest
<1>1. Inv => AnswersAreOldest
  <2> SUFFICES ASSUME Inv, TxQ["DATA"] = <<>> PROVE answered = First(due)
    BY DEF AnswersAreOldest, First
  <2>1. answered \o <<>> = answered
    BY ConcatEmptySeq DEF Inv, QueueTypes
  <2> QED
    BY <2>1 DEF Inv, AnswerInv
<1> QED
  BY Invariance, <1>1, PTL

----------------------------------------------------------------------------
----------------------------------------------------------------------------
(* Induction over a measure and functions defined by recursion on it, with *)
(* sets and functions in place of operators: a property is the set of      *)
(* values that have it, the right side of a recursive definition is a      *)
(* function of the function being defined and of its argument.             *)

\* Every nonempty set of naturals has a least element.
LEMMA LeastNat ==
    ASSUME NEW T \in SUBSET Nat, T # {}
    PROVE  \E n \in T : \A m \in T : n <= m
<1> DEFINE R == OpToRel(<, Nat)
<1>1. IsWellFoundedOn(R, Nat)
  BY NatLessThanWellFounded
<1>2. \A x, y \in Nat : x < y => <<x, y>> \in R
  BY DEF OpToRel
<1> HIDE DEF R
<1>3. PICK x \in T : \A y \in T : ~ (<<y, x>> \in R)
  BY <1>1, WFMin
<1>4. ASSUME NEW y \in T PROVE x <= y
  <2>1. y \in Nat /\ x \in Nat /\ ~ (<<y, x>> \in R)
    BY <1>3
  <2> QED
    BY <1>2, <2>1
<1> QED
  BY <1>4

\* Induction, with the set of numbers that have the property.
LEMMA SetInduction ==
    ASSUME NEW N \in SUBSET Nat, 0 \in N, \A n \in Nat : n \in N => n + 1 \in N
    PROVE  N = Nat
<1> SUFFICES ASSUME N # Nat PROVE FALSE
  OBVIOUS
<1>1. PICK n \in Nat \ N : \A k \in Nat \ N : n <= k
  BY LeastNat
<1>2. n - 1 \in Nat /\ n - 1 \notin N => FALSE
  BY <1>1
<1>3. n # 0
  BY <1>1
<1>4. n - 1 \in Nat /\ (n - 1) + 1 = n
  BY <1>3
<1> QED
  BY <1>1, <1>2, <1>4

\* What every element has once all smaller ones have it, all elements have.
LEMMA MeasureInduction ==
    ASSUME NEW S, NEW m \in [S -> Nat], NEW P \in SUBSET S,
           \A x \in S : (\A y \in S : m[y] < m[x] => y \in P) => x \in P
    PROVE  P = S
<1> SUFFICES ASSUME P # S PROVE FALSE
  OBVIOUS
<1> DEFINE T == { m[x] : x \in S \ P }
<1>1. T \in SUBSET Nat /\ T # {}
  OBVIOUS
<1>2. PICK n \in T : \A k \in T : n <= k
  BY <1>1, LeastNat
<1>3. PICK x \in S \ P : n = m[x]
  OBVIOUS
<1>4. ASSUME NEW y \in S, m[y] < m[x] PROVE y \in P
  <2>1. y \notin P => m[x] <= m[y]
    BY <1>2, <1>3
  <2>2. m[x] \in Nat /\ m[y] \in Nat
    OBVIOUS
  <2> QED
    BY <1>4, <2>1, <2>2
<1> QED
  BY <1>3, <1>4

\* D makes of a function on S another one, whose value for x depends on the
\* values for smaller elements only.
Descends(D, S, T, m) ==
    /\ T # {}
    /\ m \in [S -> Nat]
    /\ D \in [[S -> T] -> [S -> T]]
    /\ \A g, h \in [S -> T] : \A x \in S :
           (\A y \in S : m[y] < m[x] => g[y] = h[y]) => D[g][x] = D[h][x]

\* A definition by recursion on a measure defines a function.
LEMMA MeasureRecursion ==
    ASSUME NEW D, NEW S, NEW T, NEW m, Descends(D, S, T, m)
    PROVE  \E f \in [S -> T] : f = D[f]
<1>a. /\ T # {}
      /\ m \in [S -> Nat]
      /\ D \in [[S -> T] -> [S -> T]]
      /\ \A g, h \in [S -> T] : \A x \in S :
             (\A y \in S : m[y] < m[x] => g[y] = h[y]) => D[g][x] = D[h][x]
  BY DEF Descends
<1> USE <1>a
<1> DEFINE G(n) == { g \in [S -> T] : \A x \in S : m[x] < n => g[x] = D[g][x] }
<1>m. \A x \in S : m[x] \in Nat
  OBVIOUS
<1>d. \A g \in [S -> T] : \A x \in S : D[g][x] \in T
  OBVIOUS
<1>1. \A n \in Nat : G(n) # {}
  <2> DEFINE N == { n \in Nat : G(n) # {} }
  <2>1. 0 \in N
    <3>1. PICK t : t \in T
      OBVIOUS
    <3>2. [x \in S |-> t] \in G(0)
      BY <1>m, <3>1
    <3> QED
      BY <3>2
  <2>2. ASSUME NEW n \in Nat, n \in N PROVE n + 1 \in N
    <3>1. PICK g \in [S -> T] : \A x \in S : m[x] < n => g[x] = D[g][x]
      BY <2>2
    <3> DEFINE h == [x \in S |-> D[g][x]]
    <3>2. h \in [S -> T]
      BY <1>d
    <3>3. \A x \in S : m[x] < n => h[x] = g[x]
      BY <3>1
    <3>4. ASSUME NEW x \in S, m[x] < n + 1 PROVE h[x] = D[h][x]
      <4>1. \A y \in S : m[y] < m[x] => m[y] < n
        BY <1>m, <3>4
      <4>2. \A y \in S : m[y] < m[x] => h[y] = g[y]
        BY <3>3, <4>1
      <4> QED
        BY <3>2, <4>2
    <3>5. h \in G(n + 1)
      BY <3>2, <3>4
    <3>6. n + 1 \in Nat
      OBVIOUS
    <3> HIDE DEF G, h
    <3> QED
      BY <3>5, <3>6
  <2>3. N = Nat
    <3>1. N \in SUBSET Nat
      OBVIOUS
    <3> HIDE DEF N
    <3> QED
      BY <2>1, <2>2, <3>1, SetInduction
  <2> QED
    BY <2>3
<1>2. ASSUME NEW a \in Nat, NEW b \in Nat, NEW g \in G(a), NEW h \in G(b)
      PROVE  \A x \in S : m[x] < a /\ m[x] < b => g[x] = h[x]
  <2> DEFINE P == { x \in S : m[x] < a /\ m[x] < b => g[x] = h[x] }
  <2>1. ASSUME NEW x \in S, \A y \in S : m[y] < m[x] => y \in P PROVE x \in P
    <3> SUFFICES ASSUME m[x] < a, m[x] < b PROVE g[x] = h[x]
      OBVIOUS
    <3>1. ASSUME NEW y \in S, m[y] < m[x] PROVE g[y] = h[y]
      <4>1. m[y] < a /\ m[y] < b
        BY <1>m, <3>1
      <4> QED
        BY <2>1, <3>1, <4>1
    <3>2. D[g][x] = D[h][x]
      BY <3>1
    <3> QED
      BY <3>2
  <2>2. P \in SUBSET S
    OBVIOUS
  <2> HIDE DEF P
  <2>3. \A x \in S : (\A y \in S : m[y] < m[x] => y \in P) => x \in P
    BY <2>1
  <2>4. P = S
    BY <2>2, <2>3, MeasureInduction
  <2> QED
    BY <2>4 DEF P
<1> DEFINE upto(n) == CHOOSE g : g \in G(n)
           f == [x \in S |-> upto(m[x] + 1)[x]]
<1>3. \A n \in Nat : upto(n) \in G(n)
  BY <1>1
<1>4. \A n \in Nat : /\ upto(n) \in [S -> T]
                    /\ \A x \in S : m[x] < n => upto(n)[x] = D[upto(n)][x]
  BY <1>3
<1>5. ASSUME NEW a \in Nat, NEW b \in Nat, NEW x \in S, m[x] < a, m[x] < b
      PROVE  upto(a)[x] = upto(b)[x]
  <2>1. upto(a) \in G(a) /\ upto(b) \in G(b)
    BY <1>3
  <2> HIDE DEF G, upto
  <2> QED
    BY <1>2, <1>5, <2>1
<1> HIDE DEF G, upto
<1>6. f \in [S -> T]
  <2> SUFFICES ASSUME NEW x \in S PROVE upto(m[x] + 1)[x] \in T
    OBVIOUS
  <2>1. m[x] + 1 \in Nat
    BY <1>m
  <2> QED
    BY <1>4, <2>1
<1>7. ASSUME NEW x \in S PROVE f[x] = D[f][x]
  <2> DEFINE g == upto(m[x] + 1)
  <2>1. m[x] \in Nat /\ m[x] + 1 \in Nat /\ m[x] < m[x] + 1
    BY <1>m
  <2>2. g \in [S -> T] /\ g[x] = D[g][x]
    BY <1>4, <2>1
  <2>3. ASSUME NEW y \in S, m[y] < m[x] PROVE f[y] = g[y]
    <3>1. m[y] + 1 \in Nat /\ m[y] < m[y] + 1 /\ m[y] < m[x] + 1
      BY <1>m, <2>1, <2>3
    <3> QED
      BY <1>5, <2>1, <3>1
  <2>4. f[x] = g[x]
    OBVIOUS
  <2> HIDE DEF f, g
  <2>5. D[f][x] = D[g][x]
    BY <1>6, <2>2, <2>3
  <2> QED
    BY <2>2, <2>4, <2>5
<1> HIDE DEF f
<1>8. D[f] \in [S -> T]
  BY <1>6
<1>9. f = D[f]
  BY <1>6, <1>7, <1>8
<1> QED
  BY <1>6, <1>9

----------------------------------------------------------------------------
(* The frames of a byte sequence *)

Bytes == Seq(Byte)

\* s starts with a whole frame.
Fits(s) == ~(Len(s) < 2 \/ Len(s) < 2 + s[2])

FrameOf(s) == SubSeq(s, 1, 2 + s[2])
After(s)   == SubSeq(s, 3 + s[2], Len(s))

\* The recursion over the frames, with f for what remains.
FramesStep(f, s) == IF Fits(s) THEN <<FrameOf(s)>> \o f[After(s)] ELSE <<>>

\* The first frame and what follows it.
LEMMA FitsParts ==
    ASSUME NEW s \in Bytes, Fits(s)
    PROVE  /\ s[2] \in Nat /\ Len(s) \in Nat /\ 2 + s[2] <= Len(s)
           /\ FrameOf(s) \in Bytes
           /\ After(s) \in Bytes /\ Len(After(s)) < Len(s)
<1>1. Len(s) \in Nat /\ ~(Len(s) < 2) /\ ~(Len(s) < 2 + s[2])
  BY LenProperties DEF Fits, Bytes
<1>2. \A i \in 1 .. Len(s) : s[i] \in Byte
  BY ElementOfSeq DEF Bytes
<1>3. s[2] \in Nat
  <2>1. 2 \in 1 .. Len(s)
    BY <1>1
  <2>2. s[2] \in Byte
    BY <1>2, <2>1
  <2> QED
    BY <2>2 DEF Byte
<1>4. \A i \in 1 .. 2 + s[2] : s[i] \in Byte
  BY <1>1, <1>2, <1>3
<1>5. \A i \in 3 + s[2] .. Len(s) : s[i] \in Byte
  BY <1>1, <1>2, <1>3
<1>6. FrameOf(s) \in Bytes
  BY <1>3, <1>4, SubSeqProperties DEF FrameOf, Bytes
<1>7. /\ After(s) \in Bytes
      /\ Len(After(s)) = IF 3 + s[2] <= Len(s) THEN Len(s) - (3 + s[2]) + 1 ELSE 0
  BY <1>1, <1>3, <1>5, SubSeqProperties DEF After, Bytes
<1> QED
  BY <1>1, <1>3, <1>6, <1>7

\* What a sequence has once all shorter ones have it, all sequences have.
LEMMA BytesInduction ==
    ASSUME NEW P \in SUBSET Bytes,
           \A s \in Bytes : (\A r \in Bytes : Len(r) < Len(s) => r \in P) => s \in P
    PROVE  P = Bytes
<1> DEFINE m == [s \in Bytes |-> Len(s)]
<1>1. m \in [Bytes -> Nat]
  BY LenProperties DEF Bytes
<1>2. \A s \in Bytes : (\A r \in Bytes : m[r] < m[s] => r \in P) => s \in P
  OBVIOUS
<1> HIDE DEF m
<1> QED
  BY <1>1, <1>2, MeasureInduction

\* Frames is what its definition says.
LEMMA FramesEquation ==
    /\ Frames \in [Bytes -> Seq(Bytes)]
    /\ \A s \in Bytes : Frames[s] = FramesStep(Frames, s)
<1> DEFINE D == [f \in [Bytes -> Seq(Bytes)] |-> [s \in Bytes |-> FramesStep(f, s)]]
           m == [s \in Bytes |-> Len(s)]
<1>1. m \in [Bytes -> Nat]
  BY LenProperties DEF Bytes
<1>2. ASSUME NEW f \in [Bytes -> Seq(Bytes)], NEW s \in Bytes
      PROVE  FramesStep(f, s) \in Seq(Bytes)
  <2>1. CASE Fits(s)
    <3>1. f[After(s)] \in Seq(Bytes) /\ FrameOf(s) \in Bytes
      BY <2>1, FitsParts
    <3>2. <<FrameOf(s)>> \in Seq(Bytes)
      BY <3>1
    <3>3. <<FrameOf(s)>> \o f[After(s)] \in Seq(Bytes)
      BY <3>1, <3>2, ConcatProperties
    <3> QED
      BY <2>1, <3>3 DEF FramesStep
  <2>2. CASE ~Fits(s)
    BY <2>2, EmptySeq DEF FramesStep
  <2> QED
    BY <2>1, <2>2
<1>3. ASSUME NEW g, NEW h, NEW s \in Bytes, \A r \in Bytes : Len(r) < Len(s) => g[r] = h[r]
      PROVE  FramesStep(g, s) = FramesStep(h, s)
  <2>1. CASE Fits(s)
    <3>1. g[After(s)] = h[After(s)]
      BY <1>3, <2>1, FitsParts
    <3> QED
      BY <3>1, Zenon DEF FramesStep
  <2>2. CASE ~Fits(s)
    BY <2>2, Zenon DEF FramesStep
  <2> QED
    BY <2>1, <2>2
<1>4. D \in [[Bytes -> Seq(Bytes)] -> [Bytes -> Seq(Bytes)]]
  BY <1>2
<1>5. \A g, h \in [Bytes -> Seq(Bytes)] : \A x \in Bytes :
          (\A y \in Bytes : m[y] < m[x] => g[y] = h[y]) => D[g][x] = D[h][x]
  BY <1>3
<1>6. Seq(Bytes) # {}
  BY EmptySeq
<1>7. \E f \in [Bytes -> Seq(Bytes)] : f = D[f]
  <2> HIDE DEF D, m
  <2>1. Descends(D, Bytes, Seq(Bytes), m)
    BY <1>1, <1>4, <1>5, <1>6 DEF Descends
  <2> QED
    BY <2>1, MeasureRecursion
<1>8. PICK f \in [Bytes -> Seq(Bytes)] : f = [s \in Bytes |-> FramesStep(f, s)]
  BY <1>7
<1> DEFINE Cut(g, s) == IF Len(s) < 2 \/ Len(s) < 2 + s[2] THEN <<>>
                        ELSE <<SubSeq(s, 1, 2 + s[2])>> \o g[SubSeq(s, 3 + s[2], Len(s))]
<1>9. Frames = CHOOSE g : g = [s \in Bytes |-> Cut(g, s)]
  BY Zenon DEF Frames, Bytes
<1>10. \A g : \A s \in Bytes : Cut(g, s) = FramesStep(g, s)
  BY Zenon DEF FramesStep, Fits, FrameOf, After
<1> HIDE DEF Cut
<1>11. \A g : [s \in Bytes |-> Cut(g, s)] = [s \in Bytes |-> FramesStep(g, s)]
  BY <1>10, Zenon
<1>12. Frames = CHOOSE g : g = [s \in Bytes |-> FramesStep(g, s)]
  BY <1>9, <1>11, Zenon
<1>13. Frames = [s \in Bytes |-> FramesStep(Frames, s)]
  BY <1>8, <1>12
<1>14. Frames \in [Bytes -> Seq(Bytes)]
  <2> DEFINE P == { s \in Bytes : Frames[s] \in Seq(Bytes) }
  <2>1. ASSUME NEW s \in Bytes, \A r \in Bytes : Len(r) < Len(s) => r \in P
        PROVE  s \in P
    <3>1. FramesStep(Frames, s) \in Seq(Bytes)
      <4>1. CASE Fits(s)
        <5>1. After(s) \in Bytes /\ Len(After(s)) < Len(s) /\ FrameOf(s) \in Bytes
          BY <4>1, FitsParts
        <5>2. Frames[After(s)] \in Seq(Bytes)
          BY <2>1, <5>1
        <5>3. <<FrameOf(s)>> \in Seq(Bytes)
          BY <5>1
        <5>4. <<FrameOf(s)>> \o Frames[After(s)] \in Seq(Bytes)
          BY <5>2, <5>3, ConcatProperties
        <5> QED
          BY <4>1, <5>4 DEF FramesStep
      <4>2. CASE ~Fits(s)
        BY <4>2, EmptySeq DEF FramesStep
      <4> QED
        BY <4>1, <4>2
    <3>2. Frames[s] = FramesStep(Frames, s)
      BY <1>13
    <3> QED
      BY <3>1, <3>2
  <2>2. P \in SUBSET Bytes
    OBVIOUS
  <2> HIDE DEF P
  <2>3. \A s \in Bytes : (\A r \in Bytes : Len(r) < Len(s) => r \in P) => s \in P
    BY <2>1
  <2>4. P = Bytes
    BY <2>2, <2>3, BytesInduction
  <2>5. \A s \in Bytes : Frames[s] \in Seq(Bytes)
    BY <2>4 DEF P
  <2> QED
    BY <1>13, <2>5
<1> QED
  BY <1>13, <1>14

\* Two bytes and a payload within FRAME_MAX make a sum a byte holds.
LEMMA ShortFrame ==
    ASSUME NEW n \in Nat, NEW k \in 2 .. 253, n <= k
    PROVE  n % 256 = n
<1>1. n \in 0 .. 255
  OBVIOUS
<1>2. \A i \in 0 .. 255 : i % 256 = i
  OBVIOUS
<1> QED
  BY <1>1, <1>2

\* It does not matter how the three are put together.
Regroups(a, b, c) == (a \o b) \o c = a \o (b \o c)

\* Buffers are put together in any grouping.
LEMMA BytesRegroup ==
    ASSUME NEW a \in Bytes, NEW b \in Bytes, NEW c \in Bytes
    PROVE  Regroups(a, b, c)
BY ConcatAssociative DEF Bytes, Regroups

\* The frames the Central sends.
LEMMA CommandBytes ==
    ASSUME NEW c \in Commands
    PROVE  /\ c \in Bytes /\ c # <<>>
           /\ Len(c) \in Nat /\ Len(c) >= 2 /\ c[2] \in Nat /\ Len(c) = 2 + c[2]
           /\ Len(c) <= FRAME_MAX /\ FRAME_MAX \in 2 .. 253
           /\ Effective(c)
<1>1. c \in Seq(Byte) /\ Len(c) >= 2 /\ c = Frame(c[1], SubSeq(c, 3, Len(c))) /\ Effective(c) /\ Len(c) <= FRAME_MAX
  BY LinkAssumption
<1>2. Len(c) \in Nat /\ c # <<>>
  BY <1>1, LenProperties, EmptySeq
<1>3. \A i \in 3 .. Len(c) : c[i] \in Byte
  BY <1>1, <1>2, ElementOfSeq
<1>4. /\ SubSeq(c, 3, Len(c)) \in Seq(Byte)
      /\ Len(SubSeq(c, 3, Len(c))) = IF 3 <= Len(c) THEN Len(c) - 3 + 1 ELSE 0
  BY <1>2, <1>3, SubSeqProperties
<1> DEFINE v == SubSeq(c, 3, Len(c))
           n == Len(v)
<1>5. c = <<c[1], n>> \o v
  BY <1>1 DEF Frame
<1>6. n = Len(c) - 2
  <2>1. Len(c) \in Nat /\ Len(c) >= 2
    BY <1>1, <1>2
  <2>2. n = IF 3 <= Len(c) THEN Len(c) - 3 + 1 ELSE 0
    BY <1>4
  <2> HIDE DEF n
  <2> QED
    BY <2>1, <2>2
<1>7. c[1] \in Byte /\ c[2] \in Byte
  <2>1. 1 \in 1 .. Len(c) /\ 2 \in 1 .. Len(c)
    BY <1>1, <1>2
  <2> QED
    BY <1>1, <2>1, ElementOfSeq
<1>8. c[2] = n
  <2>1. n \in Nat /\ n \in Nat \cup Byte /\ c[1] \in Nat \cup Byte
    BY <1>2, <1>1, <1>6, <1>7
  <2>2. v \in Seq(Nat \cup Byte)
    <3>1. \A i \in 3 .. Len(c) : c[i] \in Nat \cup Byte
      BY <1>3
    <3> QED
      BY <1>2, <3>1, SubSeqProperties
  <2> HIDE DEF n, v
  <2>3. <<c[1], n>> \in Seq(Nat \cup Byte) /\ Len(<<c[1], n>>) = 2 /\ <<c[1], n>>[2] = n
    BY <2>1
  <2>4. Len(v) \in Nat
    BY <2>2, LenProperties
  <2>5. 2 \in 1 .. Len(<<c[1], n>>) + Len(v) /\ 2 <= Len(<<c[1], n>>)
    BY <2>3, <2>4
  <2>6. (<<c[1], n>> \o v)[2] = <<c[1], n>>[2]
    BY <2>2, <2>3, <2>5, ConcatProperties
  <2> QED
    BY <1>5, <2>3, <2>6
<1> QED
  BY <1>1, <1>2, <1>6, <1>7, <1>8, CommAssumption DEF Bytes, Byte

\* Too short for a frame.
LEMMA NoFrames ==
    ASSUME NEW s \in Bytes, Len(s) < 2
    PROVE  Frames[s] = <<>>
BY FramesEquation DEF FramesStep, Fits

\* A command, then anything.
LEMMA FirstFrame ==
    ASSUME NEW c \in Commands, NEW t \in Bytes
    PROVE  /\ c \o t \in Bytes /\ Len(c \o t) = Len(c) + Len(t)
           /\ \A i \in 1 .. Len(c) : (c \o t)[i] = c[i]
           /\ Frames[c \o t] = <<c>> \o Frames[t]
<1> DEFINE s == c \o t
<1>1. c \in Bytes /\ Len(c) \in Nat /\ Len(c) >= 2 /\ c[2] \in Nat /\ Len(c) = 2 + c[2]
  BY CommandBytes
<1>2. Len(t) \in Nat
  BY LenProperties DEF Bytes
<1>3. /\ s \in Bytes /\ Len(s) = Len(c) + Len(t)
      /\ \A i \in 1 .. Len(c) + Len(t) : s[i] = IF i <= Len(c) THEN c[i] ELSE t[i - Len(c)]
  BY <1>1, ConcatProperties DEF Bytes
<1>4. SubSeq(s, 1, Len(c)) = c
  <2>1. 1 \in 1 .. Len(c) /\ Len(c) \in 1 .. Len(c)
    BY <1>1
  <2>2. SubSeq(s, 1, Len(c)) = SubSeq(c, 1, Len(c))
    BY <1>1, <2>1, SubSeqOfConcat1 DEF Bytes
  <2> QED
    BY <1>1, <2>2, SubSeqFull DEF Bytes
<1>5. SubSeq(s, Len(c) + 1, Len(c) + Len(t)) = t
  <2>1. CASE t = <<>>
    <3>1. Len(t) = 0
      BY <2>1, EmptySeq
    <3> HIDE DEF s
    <3>2. Len(c) + Len(t) < Len(c) + 1 /\ Len(c) + 1 \in Int /\ Len(c) + Len(t) \in Int
      BY <1>1, <3>1
    <3> QED
      BY <2>1, <3>2, SubSeqEmpty
  <2>2. CASE t # <<>>
    <3>1. Len(t) >= 1
      BY <1>2, <2>2, EmptySeq DEF Bytes
    <3> DEFINE m == Len(c) + 1
               n == Len(c) + Len(t)
    <3>2. m \in Len(c) + 1 .. Len(c) + Len(t) /\ n \in Len(c) + 1 .. Len(c) + Len(t)
      BY <1>1, <1>2, <3>1
    <3>3. m - Len(c) = 1 /\ n - Len(c) = Len(t)
      BY <1>1, <1>2
    <3>4. SubSeq(s, m, n) = SubSeq(t, m - Len(c), n - Len(c))
      <4>1. c \in Seq(Byte) /\ t \in Seq(Byte)
        BY <1>1 DEF Bytes
      <4> HIDE DEF m, n
      <4> QED
        BY <3>2, <4>1, SubSeqOfConcat2
    <3> QED
      BY <3>3, <3>4, SubSeqFull DEF Bytes
  <2> QED
    BY <2>1, <2>2
<1> HIDE DEF s
<1>6. \A i \in 1 .. Len(c) : s[i] = c[i]
  <2> SUFFICES ASSUME NEW i \in 1 .. Len(c) PROVE s[i] = c[i]
    OBVIOUS
  <2>1. i \in 1 .. Len(c) + Len(t) /\ i <= Len(c)
    BY <1>1, <1>2
  <2> QED
    BY <1>3, <2>1
<1>7. s[2] = c[2]
  BY <1>1, <1>6
<1>8. Fits(s) /\ 2 + s[2] = Len(c) /\ 3 + s[2] = Len(c) + 1
  <2>1. Len(c) + Len(t) >= 2 + c[2] /\ 3 + c[2] = Len(c) + 1 /\ Len(c) + Len(t) >= 2 /\ Len(c) + Len(t) \in Nat
    BY <1>1, <1>2
  <2>2. ~(Len(s) < 2) /\ ~(Len(s) < 2 + s[2])
    <3>1. Len(s) = Len(c) + Len(t)
      BY <1>3
    <3>2. c[2] \in Nat
      BY <1>1
    <3> QED
      BY <1>7, <2>1, <3>1, <3>2
  <2> QED
    BY <1>1, <1>7, <2>1, <2>2 DEF Fits
<1>9. FrameOf(s) = c /\ After(s) = t
  BY <1>3, <1>4, <1>5, <1>8 DEF FrameOf, After
<1>10. Frames[s] = <<c>> \o Frames[t]
  BY <1>3, <1>8, <1>9, FramesEquation DEF FramesStep
<1> QED
  BY <1>3, <1>6, <1>10 DEF s

\* What consists of whole commands: the smallest set that is closed under
\* putting a command in front.
Closed(P) == <<>> \in P /\ \A c \in Commands, t \in P : c \o t \in P

Streams == { s \in Bytes : \A P \in SUBSET Bytes : Closed(P) => s \in P }

\* Streams is closed itself.
LEMMA StreamsClosed ==
    /\ Streams \subseteq Bytes
    /\ <<>> \in Streams
    /\ \A c \in Commands, t \in Streams : c \o t \in Streams
<1>1. <<>> \in Bytes
  BY EmptySeq DEF Bytes
<1>2. ASSUME NEW c \in Commands, NEW t \in Streams PROVE c \o t \in Streams
  <2>1. c \o t \in Bytes
    BY FirstFrame DEF Streams
  <2>2. ASSUME NEW P \in SUBSET Bytes, Closed(P) PROVE c \o t \in P
    BY <2>2 DEF Streams, Closed
  <2> QED
    BY <2>1, <2>2 DEF Streams
<1> QED
  BY <1>1, <1>2 DEF Streams, Closed

\* A stream is empty or starts with a command.
LEMMA StreamSplit ==
    ASSUME NEW s \in Streams, s # <<>>
    PROVE  \E c \in Commands, t \in Streams : s = c \o t
<1> DEFINE P == { r \in Streams : r = <<>> \/ \E c \in Commands, t \in Streams : r = c \o t }
<1>1. P \in SUBSET Bytes
  BY StreamsClosed
<1>2. Closed(P)
  BY StreamsClosed DEF Closed
<1>3. s \in P
  <2> HIDE DEF P
  <2> QED
    BY <1>1, <1>2 DEF Streams
<1> QED
  BY <1>3

\* A command more at the end is owed after all others.
LEMMA StreamMore ==
    ASSUME NEW s \in Streams, NEW c \in Commands
    PROVE  s \o c \in Streams /\ Frames[s \o c] = Append(Frames[s], c)
<1> DEFINE P == { r \in Streams : r \o c \in Streams /\ Frames[r \o c] = Append(Frames[r], c) }
<1>1. P \in SUBSET Bytes
  BY StreamsClosed
<1>2. c \in Bytes /\ <<>> \in Bytes /\ Frames[<<>>] = <<>>
  <2>1. <<>> \in Bytes /\ Len(<<>>) < 2
    BY EmptySeq DEF Bytes
  <2> QED
    BY <2>1, NoFrames, CommandBytes
<1>3. <<>> \in P
  <2>1. <<>> \o c = c /\ c \o <<>> = c
    BY <1>2, ConcatEmptySeq DEF Bytes
  <2>2. c \in Streams
    <3>1. c \o <<>> \in Streams
      BY StreamsClosed
    <3> QED
      BY <2>1, <3>1
  <2>3. Frames[c] = <<c>>
    <3>1. Frames[c \o <<>>] = <<c>> \o Frames[<<>>]
      BY <1>2, FirstFrame
    <3>2. <<c>> \in Seq(Bytes)
      BY <1>2
    <3>3. <<c>> \o <<>> = <<c>>
      BY <3>2, ConcatEmptySeq
    <3> QED
      BY <1>2, <2>1, <3>1, <3>3
  <2>4. Append(<<>>, c) = <<c>>
    OBVIOUS
  <2> QED
    BY <1>2, <2>1, <2>2, <2>3, <2>4, StreamsClosed
<1>4. ASSUME NEW d \in Commands, NEW t \in P PROVE d \o t \in P
  <2>1. t \in Streams /\ t \o c \in Streams /\ Frames[t \o c] = Append(Frames[t], c)
    OBVIOUS
  <2>2. t \in Bytes /\ t \o c \in Bytes /\ d \in Bytes
    BY <2>1, StreamsClosed, CommandBytes
  <2>3. (d \o t) \o c = d \o (t \o c)
    <3>1. Regroups(d, t, c)
      BY <1>2, <2>2, BytesRegroup, CommandBytes, Zenon
    <3> QED
      BY <3>1 DEF Regroups
  <2>4. d \o t \in Streams /\ d \o (t \o c) \in Streams
    BY <2>1, StreamsClosed
  <2>5. Frames[d \o (t \o c)] = <<d>> \o Append(Frames[t], c)
    BY <2>1, <2>2, FirstFrame
  <2>6. <<d>> \o Append(Frames[t], c) = Append(<<d>> \o Frames[t], c)
    <3>1. Frames[t] \in Seq(Bytes) /\ <<d>> \in Seq(Bytes) /\ <<c>> \in Seq(Bytes)
      BY <1>2, <2>2, FramesEquation
    <3>2. <<d>> \o Frames[t] \in Seq(Bytes)
      BY <3>1, ConcatProperties
    <3>3. /\ Append(Frames[t], c) = Frames[t] \o <<c>>
          /\ Append(<<d>> \o Frames[t], c) = (<<d>> \o Frames[t]) \o <<c>>
      BY <1>2, <3>1, <3>2, AppendIsConcat
    <3> QED
      BY <3>1, <3>3, ConcatAssociative
  <2>7. Frames[d \o t] = <<d>> \o Frames[t]
    BY <2>2, FirstFrame
  <2> QED
    BY <2>3, <2>4, <2>5, <2>6, <2>7
<1>5. s \in P
  <2> HIDE DEF P
  <2>1. Closed(P)
    BY <1>3, <1>4 DEF Closed
  <2> QED
    BY <1>1, <2>1 DEF Streams
<1> QED
  BY <1>5

\* In a stream, the next byte continues the first command.
LEMMA NextByte ==
    ASSUME NEW f \in Bytes, NEW q \in Bytes, NEW d \in Bytes, q # <<>>,
           f \o (q \o d) \in Streams,
           Len(f) < 2 \/ Len(f) < 2 + f[2]
    PROVE  \E c \in Commands, t \in Streams :
               /\ f \o (q \o d) = c \o t
               /\ Len(f) < Len(c)
               /\ \A i \in 1 .. Len(f) + 1 : Append(f, Head(q))[i] = c[i]
               /\ Append(f, Head(q)) \o (Tail(q) \o d) = f \o (q \o d)
               /\ Len(f) + 1 = Len(c) => Append(f, Head(q)) = c /\ Tail(q) \o d = t
<1> DEFINE next == Append(f, Head(q))
           rest == Tail(q) \o d
           all  == f \o (q \o d)
<1> USE DEF Bytes
<1>1. /\ Head(q) \in Byte /\ Tail(q) \in Seq(Byte)
      /\ next \in Seq(Byte) /\ next \o Tail(q) = f \o q
  BY HeadTailProperties, MoveFirst
<1>2. next \in Seq(Byte) /\ Len(next) = Len(f) + 1 /\ \A i \in 1 .. Len(f) : next[i] = f[i]
  BY <1>1, AppendProperties
<1>3. rest \in Seq(Byte) /\ q \o d \in Seq(Byte) /\ all \in Seq(Byte) /\ f \o q \in Seq(Byte)
  BY <1>1, ConcatProperties
<1>4. next \o rest = all
  <2>1. next \o rest = (next \o Tail(q)) \o d
    <3>1. next \in Seq(Byte) /\ Tail(q) \in Seq(Byte) /\ d \in Seq(Byte)
      BY <1>1
    <3> HIDE DEF next
    <3>2. Regroups(next, Tail(q), d)
      BY <3>1, BytesRegroup, Zenon
    <3> QED
      BY <3>2 DEF Regroups
  <2>2. (f \o q) \o d = all
    <3>1. Regroups(f, q, d)
      BY BytesRegroup, Zenon
    <3> QED
      BY <3>1 DEF Regroups
  <2> HIDE DEF next, rest, all
  <2> QED
    BY <1>1, <2>1, <2>2
<1>5. all # <<>>
  <2>1. q \o d # <<>>
    BY ConcatEqualIffEmpty
  <2> QED
    BY <1>3, <2>1, ConcatEqualIffEmpty
<1> HIDE DEF next, rest, all
<1>6. all \in Streams
  BY DEF all
<1>7. PICK c \in Commands, t \in Streams : all = c \o t
  BY <1>5, <1>6, StreamSplit
<1>8. t \in Seq(Byte) /\ c \in Seq(Byte)
  BY StreamsClosed, CommandBytes
<1>9. Len(c) \in Nat /\ Len(c) >= 2 /\ Len(c) = 2 + c[2] /\ c[2] \in Nat
  BY CommandBytes
<1>10. Len(f) \in Nat /\ Len(next) = Len(f) + 1 /\ Len(rest) \in Nat
  BY <1>2, <1>3, LenProperties
<1>11. \A i \in 1 .. Len(next) : next[i] = all[i]
  <2>1. \A i \in 1 .. Len(next) + Len(rest) : (next \o rest)[i] = IF i <= Len(next) THEN next[i] ELSE rest[i - Len(next)]
    BY <1>2, <1>3, ConcatProperties
  <2> SUFFICES ASSUME NEW i \in 1 .. Len(next) PROVE next[i] = all[i]
    OBVIOUS
  <2>2. i \in 1 .. Len(next) + Len(rest) /\ i <= Len(next)
    BY <1>10
  <2> QED
    BY <1>4, <2>1, <2>2
<1>12. \A i \in 1 .. Len(c) : all[i] = c[i]
  BY <1>7, <1>8, FirstFrame
<1>13. Len(f) < Len(c)
  <2> SUFFICES ASSUME Len(c) <= Len(f) PROVE FALSE
    BY <1>9, <1>10
  <2>1. 2 \in 1 .. Len(f) /\ 2 \in 1 .. Len(next) /\ 2 \in 1 .. Len(c)
    BY <1>9, <1>10
  <2>2. f[2] = c[2]
    BY <1>2, <1>11, <1>12, <2>1
  <2>3. ~(Len(f) < 2) /\ ~(Len(f) < 2 + c[2])
    BY <1>9, <1>10
  <2> QED
    BY <2>2, <2>3
<1>14. \A i \in 1 .. Len(f) + 1 : next[i] = c[i]
  <2> SUFFICES ASSUME NEW i \in 1 .. Len(f) + 1 PROVE next[i] = c[i]
    OBVIOUS
  <2>1. i \in 1 .. Len(next) /\ i \in 1 .. Len(c)
    BY <1>9, <1>10, <1>13
  <2> QED
    BY <1>11, <1>12, <2>1
<1>15. ASSUME Len(f) + 1 = Len(c) PROVE next = c /\ rest = t
  <2>1. next = c
    BY <1>2, <1>8, <1>10, <1>14, <1>15, SeqEqual
  <2>2. c \o rest = c \o t
    BY <1>4, <1>7, <2>1
  <2>3. rest = t
    BY <1>3, <1>8, <2>2, ConcatSimplifications
  <2> QED
    BY <2>1, <2>3
<1>16. /\ all = c \o t
       /\ Len(f) < Len(c)
       /\ \A i \in 1 .. Len(f) + 1 : next[i] = c[i]
       /\ next \o rest = all
       /\ Len(f) + 1 = Len(c) => next = c /\ rest = t
  BY <1>4, <1>7, <1>13, <1>14, <1>15
<1> QED
  BY <1>16 DEF all, next, rest

----------------------------------------------------------------------------
(* In step and out of step *)

\* The commands owed.
Owed == IF InStep THEN Frames[fr \o Ahead] ELSE <<>>

\* The frame buffer is in use in protocol mode only.
LabelInv ==
    /\ ToConsole => fr = <<>>
    /\ comm = "binary" => protocol

\* A board about to leave the console has read what it was sent.
LeavingInv == ~trouble /\ protocol /\ comm \in {"console", "enter"} => down = <<>>

\* In step, what the board has still to execute is whole commands, of which
\* the first may have been taken in by a part.
StreamInv ==
    InStep => fr \o Ahead \in Streams /\ (Len(fr) < 2 \/ Len(fr) < 2 + fr[2])

ChannelInv == LabelInv /\ LeavingInv /\ StreamInv /\ executed \in Seq(Bytes)

\* What a step is to CommandChannel.
Stutters == UNCHANGED <<sent, executed, trouble, resets>> /\ Owed' = Owed
Submits  == /\ ~trouble /\ sent' = sent + 1
            /\ \E c \in Commands : Owed' = Append(Owed, c)
            /\ UNCHANGED <<executed, trouble, resets>>
Executes == /\ ~trouble /\ Owed # <<>>
            /\ executed' = Append(executed, Head(Owed))
            /\ Owed' = Tail(Owed)
            /\ UNCHANGED <<sent, trouble, resets>>
Breaks   == /\ trouble \/ trouble'
            /\ trouble' \in BOOLEAN
            /\ sent' \in {sent, sent + 1}
            /\ Owed' = <<>>
            /\ \/ UNCHANGED executed
               \/ Len(executed') = Len(executed) + 1 /\ SubSeq(executed', 1, Len(executed)) = executed
            /\ UNCHANGED resets
Restarts == /\ Owed' = <<>>
            /\ trouble' \in BOOLEAN
            /\ resets' = resets + 1
            /\ UNCHANGED <<sent, executed>>

ChannelStep == Stutters \/ Submits \/ Executes \/ Breaks \/ Restarts

\* Each of these is a step of the channel or a stutter.
LEMMA StepMapped == ChannelStep => [Channel!Next]_(Channel!vars)
BY DEF ChannelStep, Stutters, Submits, Executes, Breaks, Restarts, Owed,
       Channel!Next, Channel!vars, Channel!Submit, Channel!Execute, Channel!Break, Channel!BoardReset

\* Out of step nothing is owed, nor when nothing is on the way.
LEMMA AtRest == CommTypeOK /\ (trouble \/ Clean) => Owed = <<>> /\ LeavingInv /\ StreamInv
<1> SUFFICES ASSUME CommTypeOK, trouble \/ Clean PROVE Owed = <<>> /\ LeavingInv /\ StreamInv
  OBVIOUS
<1>1. CASE trouble
  BY <1>1 DEF Owed, InStep, LeavingInv, StreamInv
<1>2. CASE Clean
  <2>1. Len(<<>>) = 0 /\ <<>> \in Bytes
    BY EmptySeq DEF Bytes
  <2>2. fr = <<>> /\ Ahead = <<>> /\ <<>> \o <<>> = <<>>
    BY <1>2, <2>1, ConcatEmptySeq DEF Clean, Bytes
  <2>3. down = <<>>
    BY <2>2, ConcatEqualIffEmpty DEF Ahead, CommTypeOK
  <2>4. Frames[<<>>] = <<>>
    BY <2>1, NoFrames
  <2>5. fr \o Ahead = <<>>
    BY <2>2
  <2> QED
    BY <2>1, <2>2, <2>3, <2>4, <2>5, StreamsClosed DEF Owed, LeavingInv, StreamInv
<1> QED
  BY <1>1, <1>2

\* The same after a step.
LEMMA AtRestNext ==
    ASSUME CommTypeOK', trouble' \/ Clean'
    PROVE  Owed' = <<>> /\ LeavingInv' /\ StreamInv'
<1>1. (CommTypeOK /\ (trouble \/ Clean) => Owed = <<>> /\ LeavingInv /\ StreamInv)'
  BY AtRest, PTL
<1> QED
  BY <1>1

\* A step the channel does not see.
LEMMA LooksSame ==
    ASSUME StreamInv, ~trouble, ~trouble', fr' = fr, Ahead' = Ahead, ToConsole' <=> ToConsole
    PROVE  StreamInv' /\ Owed' = Owed
BY DEF StreamInv, InStep, Owed

\* Labels and what was executed, in every step.
LEMMA LabelStep ==
    ASSUME Inv, LabelInv, executed \in Seq(Bytes), [Next]_vars
    PROVE  /\ LabelInv'
           /\ executed' \in Seq(Bytes)
           /\ \/ UNCHANGED executed
              \/ Len(executed') = Len(executed) + 1 /\ SubSeq(executed', 1, Len(executed)) = executed
<1>1. ASSUME UNCHANGED <<protocol, fr, comm, executed>> PROVE LabelInv' /\ UNCHANGED executed
  BY <1>1 DEF LabelInv, ToConsole
<1>2. CASE SendProto \/ SendSync \/ SendCommand \/ Restart \/ Lose \/ UNCHANGED vars
  BY <1>1, <1>2 DEF SendProto, SendSync, SendCommand, SendBytes, Restart, Lose, vars, commVars, rx
<1>3. CASE ResetBoard
  BY <1>3 DEF ResetBoard, Reset, LabelInv, ToConsole
<1>4. CASE Board
  <2>1. CASE OthersNext \/ RxIsr
    BY <1>1, <2>1 DEF OthersNext, ForwardEvent, KeepAlive, RxIsr, rx
  <2>2. CASE CommWake \/ CommDrained \/ ConsoleByte \/ EnterProtocol
    BY <2>2 DEF CommWake, CommDrained, ConsoleByte, EnterProtocol, rx, LabelInv, ToConsole
  <2>3. CASE Choose \/ Send \/ CommDone
    BY <2>3 DEF Choose, Send, CommDone, rx, LabelInv, ToConsole
  <2>4. CASE BinaryByte
    <3> DEFINE next == IF Len(fr) < FRAME_MAX THEN Append(fr, Head(rxq)) ELSE fr
    <3>1. comm = "binary" /\ UNCHANGED <<protocol, comm>>
      BY <2>4 DEF BinaryByte
    <3>2. LabelInv'
      BY <3>1 DEF LabelInv, ToConsole
    <3>3. next \in Bytes
      <4>1. rxq \in Seq(Byte) /\ rxq # <<>> /\ fr \in Seq(Byte)
        BY <2>4 DEF BinaryByte, Inv, TypeOK, CommTypeOK
      <4>2. Head(rxq) \in Byte
        BY <4>1, HeadTailProperties
      <4> QED
        BY <4>1, <4>2, AppendProperties DEF Bytes
    <3>4. UNCHANGED executed \/ executed' = Append(executed, next)
      BY <2>4 DEF BinaryByte, Execute
    <3> HIDE DEF next
    <3>5. CASE executed' = Append(executed, next)
      <4>1. /\ executed' \in Seq(Bytes) /\ Len(executed') = Len(executed) + 1
            /\ \A i \in 1 .. Len(executed) : executed'[i] = executed[i]
            /\ Len(executed) \in Nat
        BY <3>3, <3>5, AppendProperties, LenProperties
      <4>2. \A i \in 1 .. Len(executed) : executed'[i] \in Bytes
        <5>1. \A i \in 1 .. Len(executed) : executed[i] \in Bytes
          BY ElementOfSeq
        <5> QED
          BY <4>1, <5>1
      <4>3. /\ SubSeq(executed', 1, Len(executed)) \in Seq(Bytes)
            /\ Len(SubSeq(executed', 1, Len(executed))) = Len(executed)
            /\ \A i \in 1 .. Len(executed) : SubSeq(executed', 1, Len(executed))[i] = executed'[i]
        <5> DEFINE n == Len(executed)
        <5>1. /\ SubSeq(executed', 1, n) \in Seq(Bytes)
              /\ Len(SubSeq(executed', 1, n)) = IF 1 <= n THEN n - 1 + 1 ELSE 0
              /\ \A i \in 1 .. n - 1 + 1 : SubSeq(executed', 1, n)[i] = executed'[1 + i - 1]
          <6>1. n \in Int /\ 1 \in Int
            BY <4>1
          <6>2. \A i \in 1 .. n : executed'[i] \in Bytes
            BY <4>2
          <6> HIDE DEF n
          <6> QED
            BY <6>1, <6>2, SubSeqProperties
        <5>2. n \in Nat
          BY <4>1
        <5> HIDE DEF n
        <5>3. \A i \in 1 .. n : SubSeq(executed', 1, n)[i] = executed'[i]
          <6> SUFFICES ASSUME NEW i \in 1 .. n PROVE SubSeq(executed', 1, n)[i] = executed'[i]
            OBVIOUS
          <6>1. i \in 1 .. n - 1 + 1 /\ 1 + i - 1 = i
            BY <5>2
          <6> QED
            BY <5>1, <6>1
        <5> QED
          BY <5>1, <5>2, <5>3 DEF n
      <4>4. SubSeq(executed', 1, Len(executed)) = executed
        BY <4>1, <4>3, SeqEqual
      <4> QED
        BY <3>2, <4>1, <4>4
    <3> QED
      BY <3>2, <3>4, <3>5
  <2> QED
    BY <1>4, <2>1, <2>2, <2>3, <2>4 DEF Board, CommNext
<1> QED
  BY <1>2, <1>3, <1>4 DEF Next

\* A command that meets a board in step is owed from now on.
LEMMA CommandStep ==
    ASSUME Inv, Inv', ChannelInv, NEW c \in Commands, SendBytes(c), Hurt(ToConsole),
           sent' = sent + 1, UNCHANGED executed
    PROVE  LeavingInv' /\ StreamInv' /\ ChannelStep
<1>1. /\ down = <<>> /\ down' = c
      /\ UNCHANGED <<protocol, rxq, fr, comm, resets>>
  BY DEF SendBytes, rx
<1>2. /\ CommTypeOK /\ CommTypeOK' /\ trouble \in BOOLEAN /\ trouble' \in BOOLEAN
  BY DEF Inv, TypeOK
<1>3. /\ rxq \in Seq(Byte) /\ fr \in Seq(Byte) /\ c \in Seq(Byte) /\ c # <<>>
      /\ <<>> \in Seq(Byte)
  BY <1>2, CommandBytes, EmptySeq DEF CommTypeOK, Bytes
<1>4. Ahead' = rxq \o c /\ Ahead = rxq
  BY <1>1, <1>3, ConcatEmptySeq DEF Ahead
<1>5. ~Clean'
  BY <1>3, <1>4, ConcatEqualIffEmpty DEF Clean
<1>6. trouble' = (trouble \/ ToConsole)
  BY <1>2, <1>5 DEF Hurt, ToConsole
<1>7. CASE trouble'
  <2>1. Owed' = <<>> /\ LeavingInv' /\ StreamInv'
    BY <1>2, <1>7, AtRestNext
  <2>2. Breaks
    BY <1>1, <1>2, <1>7, <2>1 DEF Breaks
  <2> QED
    BY <2>1, <2>2 DEF ChannelStep
<1>8. CASE ~trouble'
  <2>1. ~trouble /\ InStep /\ InStep'
    BY <1>1, <1>6, <1>8 DEF InStep, ToConsole
  <2>2. fr \o Ahead \in Streams /\ (Len(fr) < 2 \/ Len(fr) < 2 + fr[2])
    BY <2>1 DEF ChannelInv, StreamInv
  <2>3. fr' \o Ahead' = (fr \o Ahead) \o c
    <3>1. fr \o (rxq \o c) = (fr \o rxq) \o c
      <4>1. rxq \in Bytes /\ fr \in Bytes /\ c \in Bytes
        BY <1>3 DEF Bytes
      <4>2. Regroups(fr, rxq, c)
        BY <4>1, BytesRegroup, Zenon
      <4> QED
        BY <4>2 DEF Regroups
    <3> QED
      BY <1>1, <1>4, <3>1
  <2>4. /\ (fr \o Ahead) \o c \in Streams
        /\ Frames[(fr \o Ahead) \o c] = Append(Frames[fr \o Ahead], c)
    BY <2>2, StreamMore
  <2>5. StreamInv'
    BY <1>1, <2>2, <2>3, <2>4 DEF StreamInv
  <2>6. LeavingInv'
    BY <2>1 DEF LeavingInv, InStep, ToConsole
  <2>7. Owed' = Append(Owed, c)
    BY <2>1, <2>3, <2>4 DEF Owed
  <2>8. trouble' = trouble
    BY <1>2, <1>8, <2>1, Zenon
  <2>9. Submits
    BY <1>1, <2>1, <2>7, <2>8 DEF Submits
  <2> QED
    BY <2>5, <2>6, <2>9 DEF ChannelStep
<1> QED
  BY <1>7, <1>8

\* "proto" that does no harm meets an idle console.
LEMMA ProtoStep ==
    ASSUME Inv, Inv', ChannelInv, SendProto
    PROVE  LeavingInv' /\ StreamInv' /\ ChannelStep
<1>1. /\ down' = ProtoLine
      /\ Hurt(protocol \/ ~Clean)
      /\ UNCHANGED <<protocol, rxq, fr, comm, executed, resets, sent>>
  BY DEF SendProto, SendBytes, rx
<1>2. /\ CommTypeOK /\ CommTypeOK' /\ trouble \in BOOLEAN /\ trouble' \in BOOLEAN /\ protocol \in BOOLEAN
  BY DEF Inv, TypeOK, CommTypeOK
<1>3. ~Clean'
  <2>1. rxq' \in Seq(Byte) /\ down' \in Seq(Byte)
    BY <1>2 DEF CommTypeOK
  <2>2. down' # <<>>
    <3>1. Proto \in Seq(Byte) /\ <<CR, LF>> \in Seq(Byte) /\ Proto # <<>>
      BY DEF Proto, CR, LF, Byte
    <3>2. Proto \o <<CR, LF>> # <<>>
      BY <3>1, ConcatEqualIffEmpty
    <3> QED
      BY <1>1, <3>2 DEF ProtoLine
  <2>3. rxq' \o down' # <<>>
    BY <2>1, <2>2, ConcatEqualIffEmpty
  <2> QED
    BY <2>3 DEF Clean, Ahead
<1>4. CASE trouble'
  <2>1. Owed' = <<>> /\ LeavingInv' /\ StreamInv'
    BY <1>2, <1>4, AtRestNext
  <2>2. Breaks
    BY <1>1, <1>2, <1>4, <2>1 DEF Breaks
  <2> QED
    BY <2>1, <2>2 DEF ChannelStep
<1>5. CASE ~trouble'
  <2>1. ~trouble /\ ~protocol /\ ~protocol'
    BY <1>1, <1>2, <1>3, <1>5 DEF Hurt
  <2>2. Owed = <<>> /\ Owed' = <<>> /\ LeavingInv' /\ StreamInv'
    BY <2>1 DEF Owed, InStep, ToConsole, LeavingInv, StreamInv
  <2>3. trouble' = trouble
    BY <1>2, <1>5, <2>1, Zenon
  <2>4. Stutters
    BY <1>1, <2>2, <2>3 DEF Stutters
  <2> QED
    BY <2>2, <2>4 DEF ChannelStep
<1> QED
  BY <1>4, <1>5

\* In step, a byte is the next one of a command, and the last one executes it.
LEMMA ByteInStep ==
    ASSUME Inv, ChannelInv, InStep, BinaryByte, trouble' = trouble,
           UNCHANGED <<sent, resets>>
    PROVE  StreamInv' /\ (Stutters \/ Executes)
<1> DEFINE next == IF Len(fr) < FRAME_MAX THEN Append(fr, Head(rxq)) ELSE fr
<1>1. /\ rxq # <<>> /\ rxq' = Tail(rxq)
      /\ UNCHANGED <<down, protocol, comm>>
      /\ IF Len(next) = 2 /\ Need(next) > FRAME_MAX
         THEN fr' = <<>> /\ UNCHANGED <<executed, due, TxQ>>
         ELSE IF Len(next) >= 2 /\ Len(next) = Need(next)
         THEN fr' = <<>> /\ Execute(next)
         ELSE fr' = next /\ UNCHANGED <<executed, due, TxQ>>
  BY DEF BinaryByte
<1>2. rxq \in Bytes /\ down \in Bytes /\ fr \in Bytes /\ Len(fr) \in Nat
  BY LenProperties DEF Inv, TypeOK, CommTypeOK, Bytes
<1>3. fr \o (rxq \o down) \in Streams /\ (Len(fr) < 2 \/ Len(fr) < 2 + fr[2])
  BY DEF ChannelInv, StreamInv, Ahead
<1>4. PICK c \in Commands, t \in Streams :
          /\ fr \o (rxq \o down) = c \o t
          /\ Len(fr) < Len(c)
          /\ \A i \in 1 .. Len(fr) + 1 : Append(fr, Head(rxq))[i] = c[i]
          /\ Append(fr, Head(rxq)) \o (Tail(rxq) \o down) = fr \o (rxq \o down)
          /\ Len(fr) + 1 = Len(c) => Append(fr, Head(rxq)) = c /\ Tail(rxq) \o down = t
  BY <1>1, <1>2, <1>3, NextByte
<1>5. /\ c \in Bytes /\ Len(c) \in Nat /\ Len(c) >= 2 /\ c[2] \in Nat /\ Len(c) = 2 + c[2]
      /\ Len(c) <= FRAME_MAX /\ FRAME_MAX \in 2 .. 253 /\ Effective(c)
  BY CommandBytes
<1>6. next = Append(fr, Head(rxq))
  BY <1>2, <1>4, <1>5
<1>7. Len(next) = Len(fr) + 1 /\ next # <<>>
  <2>1. Head(rxq) \in Byte
    BY <1>1, <1>2, HeadTailProperties DEF Bytes
  <2>2. Len(Append(fr, Head(rxq))) = Len(fr) + 1
    BY <1>2, <2>1, AppendProperties DEF Bytes
  <2> QED
    BY <1>6, <2>2, AppendProperties
<1> HIDE DEF next
<1>8. InStep' /\ Ahead' = Tail(rxq) \o down
  BY <1>1 DEF InStep, ToConsole, Ahead
<1>9. Owed = Frames[fr \o (rxq \o down)]
  BY DEF Owed, Ahead
<1>10. Len(fr) + 1 >= 2 => next[2] = c[2] /\ Need(next) = Len(c)
  <2> SUFFICES ASSUME Len(fr) + 1 >= 2 PROVE next[2] = c[2] /\ Need(next) = Len(c)
    OBVIOUS
  <2>1. 2 \in 1 .. Len(fr) + 1
    BY <1>2
  <2>2. next[2] = c[2]
    BY <1>4, <1>6, <2>1
  <2>3. (2 + c[2]) % 256 = Len(c)
    <3>1. Len(c) % 256 = Len(c)
      BY <1>5, ShortFrame
    <3>2. 2 + c[2] = Len(c)
      BY <1>5
    <3> QED
      BY <3>1, <3>2
  <2> QED
    BY <2>2, <2>3 DEF Need
<1>11. CASE Len(fr) + 1 = Len(c)
  <2>1. next = c /\ Tail(rxq) \o down = t
    BY <1>4, <1>6, <1>11
  <2>2. fr' = <<>> /\ Execute(next)
    <3>1. ~(Len(next) = 2 /\ Need(next) > FRAME_MAX) /\ Len(next) >= 2 /\ Len(next) = Need(next)
      BY <1>2, <1>5, <1>7, <1>10, <1>11
    <3> QED
      BY <1>1, <3>1
  <2>3. executed' = Append(executed, c)
    BY <1>5, <2>1, <2>2 DEF Execute
  <2>4. t \in Bytes /\ t \in Seq(Byte)
    BY StreamsClosed DEF Bytes
  <2>5. fr' \o Ahead' = t
    BY <1>8, <2>1, <2>2, <2>4, ConcatEmptySeq
  <2>6. Len(fr') < 2
    BY <2>2, EmptySeq
  <2>7. StreamInv'
    BY <2>5, <2>6 DEF StreamInv
  <2>8. Owed' = Frames[t]
    BY <1>8, <2>5 DEF Owed
  <2>9. Owed = <<c>> \o Frames[t]
    BY <1>4, <1>9, <2>4, FirstFrame
  <2>10. Frames[t] \in Seq(Bytes)
    BY <2>4, FramesEquation
  <2>11. Owed # <<>> /\ Head(Owed) = c /\ Tail(Owed) = Frames[t]
    <3> DEFINE T == Frames[t]
               o == <<c>> \o T
    <3>1. T \in Seq(Bytes) /\ <<c>> \in Seq(Bytes) /\ <<c>> # <<>>
      BY <1>5, <2>10
    <3> HIDE DEF T
    <3>2. o \in Seq(Bytes) /\ o # <<>>
      BY <3>1, ConcatProperties, ConcatEqualIffEmpty
    <3>4. /\ Len(o) = 1 + Len(T) /\ Len(T) \in Nat
          /\ \A i \in 1 .. 1 + Len(T) : o[i] = IF i <= 1 THEN c ELSE T[i - 1]
      <4>1. Len(<<c>>) = 1 /\ <<c>>[1] = c
        OBVIOUS
      <4>2. Len(o) = Len(<<c>>) + Len(T) /\ Len(T) \in Nat
            /\ \A i \in 1 .. Len(<<c>>) + Len(T) : o[i] = IF i <= Len(<<c>>) THEN <<c>>[i] ELSE T[i - Len(<<c>>)]
        BY <3>1, ConcatProperties, LenProperties
      <4> HIDE DEF o
      <4>3. ASSUME NEW i \in 1 .. 1 + Len(T) PROVE o[i] = IF i <= 1 THEN c ELSE T[i - 1]
        <5>1. i \in 1 .. Len(<<c>>) + Len(T) /\ (i <= 1 => i = 1)
          BY <4>1, <4>2
        <5> QED
          BY <4>1, <4>2, <5>1
      <4> QED
        BY <4>1, <4>2, <4>3
    <3> HIDE DEF o
    <3>5. Head(o) = c
      <4>1. 1 \in 1 .. 1 + Len(T) /\ 1 <= 1
        BY <3>4
      <4>2. o[1] = c
        BY <3>4, <4>1
      <4> QED
        BY <3>2, <4>2
    <3>6. Tail(o) = T
      <4>1. /\ Tail(o) \in Seq(Bytes) /\ Len(Tail(o)) = Len(T)
            /\ \A i \in 1 .. Len(T) : Tail(o)[i] = o[i + 1]
        BY <3>2, <3>4, HeadTailProperties
      <4>2. ASSUME NEW i \in 1 .. Len(T) PROVE Tail(o)[i] = T[i]
        <5>1. i + 1 \in 1 .. 1 + Len(T) /\ ~(i + 1 <= 1) /\ (i + 1) - 1 = i
          BY <3>4
        <5> QED
          BY <3>4, <4>1, <5>1
      <4> QED
        BY <3>1, <4>1, <4>2, SeqEqual
    <3> QED
      BY <2>9, <3>2, <3>5, <3>6 DEF o, T
  <2>12. Executes
    BY <2>3, <2>8, <2>11 DEF Executes, InStep
  <2> QED
    BY <2>7, <2>12
<1>12. CASE Len(fr) + 1 # Len(c)
  <2>1. Len(fr) + 1 < Len(c)
    BY <1>2, <1>4, <1>5, <1>12
  <2>2. fr' = next /\ UNCHANGED executed
    <3>1. ~(Len(next) = 2 /\ Need(next) > FRAME_MAX) /\ ~(Len(next) >= 2 /\ Len(next) = Need(next))
      BY <1>2, <1>5, <1>7, <1>10, <2>1
    <3> QED
      BY <1>1, <3>1
  <2>3. fr' \o Ahead' = fr \o (rxq \o down)
    BY <1>4, <1>6, <1>8, <2>2
  <2>4. Len(fr') < 2 \/ Len(fr') < 2 + fr'[2]
    BY <1>2, <1>5, <1>7, <1>10, <2>1, <2>2
  <2>5. StreamInv'
    BY <1>3, <2>3, <2>4 DEF StreamInv
  <2>6. Owed' = Owed
    BY <1>8, <1>9, <2>3 DEF Owed
  <2>7. Stutters
    BY <2>2, <2>6 DEF Stutters
  <2> QED
    BY <2>5, <2>7
<1> QED
  BY <1>11, <1>12

\* The board's own steps.
LEMMA BoardMapped ==
    ASSUME Inv, Inv', ChannelInv, Board,
           \/ UNCHANGED executed
           \/ Len(executed') = Len(executed) + 1 /\ SubSeq(executed', 1, Len(executed)) = executed
    PROVE  LeavingInv' /\ StreamInv' /\ ChannelStep
<1>1. /\ UNCHANGED <<sent, resets>>
      /\ Hurt(down' # down /\ RingFull)
  BY DEF Board, central
<1>2. /\ CommTypeOK /\ CommTypeOK' /\ trouble \in BOOLEAN /\ trouble' \in BOOLEAN
  BY DEF Inv, TypeOK
<1>3. /\ rxq \in Seq(Byte) /\ down \in Seq(Byte) /\ fr \in Seq(Byte) /\ protocol \in BOOLEAN
  BY <1>2 DEF CommTypeOK
<1>4. CASE trouble \/ trouble'
  <2>1. trouble' \/ Clean'
    BY <1>1, <1>4 DEF Hurt
  <2>2. Owed' = <<>> /\ LeavingInv' /\ StreamInv'
    BY <1>2, <2>1, AtRestNext
  <2>3. Breaks
    BY <1>1, <1>2, <1>4, <2>2 DEF Breaks
  <2> QED
    BY <2>2, <2>3 DEF ChannelStep
<1>5. CASE ~trouble /\ ~trouble'
  <2>0. trouble' = trouble
    BY <1>2, <1>5, Zenon
  <2>s. StreamInv /\ LeavingInv /\ LabelInv
    BY DEF ChannelInv
  <2>a. ASSUME fr' = fr, Ahead' = Ahead, ToConsole' <=> ToConsole, UNCHANGED executed, LeavingInv'
        PROVE  LeavingInv' /\ StreamInv' /\ ChannelStep
    <3>1. StreamInv' /\ Owed' = Owed
      BY <1>5, <2>s, <2>a, LooksSame
    <3>2. Stutters
      BY <1>1, <2>0, <2>a, <3>1 DEF Stutters
    <3> QED
      BY <2>a, <3>1, <3>2 DEF ChannelStep
  <2>1. CASE OthersNext
    <3>1. UNCHANGED <<down, protocol, rxq, fr, comm, executed>>
      BY <2>1 DEF OthersNext, ForwardEvent, KeepAlive, rx
    <3>2. Ahead' = Ahead /\ (ToConsole' <=> ToConsole)
      BY <3>1 DEF Ahead, ToConsole
    <3>3. LeavingInv'
      BY <2>0, <2>s, <3>1 DEF LeavingInv
    <3> QED
      BY <2>a, <3>1, <3>2, <3>3
  <2>2. CASE RxIsr
    <3>1. /\ down # <<>> /\ down' = Tail(down)
          /\ rxq' = IF RingFull THEN rxq ELSE Append(rxq, Head(down))
          /\ UNCHANGED <<protocol, fr, comm, executed>>
      BY <2>2 DEF RxIsr, rx
    <3>2. Len(Tail(down)) = Len(down) - 1 /\ Len(down) \in Nat
      BY <1>3, <3>1, HeadTailProperties, LenProperties
    <3>3. down' # down
      <4>1. Len(down) - 1 # Len(down)
        BY <3>2
      <4>2. Len(down') = Len(down) - 1
        BY <3>1, <3>2
      <4> QED
        BY <4>1, <4>2
    <3>4. ~RingFull
      <4> SUFFICES ASSUME RingFull PROVE FALSE
        OBVIOUS
      <4>1. Clean'
        BY <1>1, <1>5, <3>3 DEF Hurt
      <4>2. rxq' = <<>>
        BY <1>2, <4>1, ConcatEqualIffEmpty DEF Clean, Ahead, CommTypeOK
      <4>3. Len(rxq) = 0
        BY <3>1, <4>2, EmptySeq
      <4> QED
        BY <4>3, CommAssumption DEF RingFull
    <3>5. Append(rxq, Head(down)) \o Tail(down) = rxq \o down
      BY <1>3, <3>1, MoveFirst
    <3>6. Ahead' = Ahead
      BY <3>1, <3>4, <3>5 DEF Ahead
    <3>7. LeavingInv'
      BY <2>0, <2>s, <3>1 DEF LeavingInv
    <3>8. ToConsole' <=> ToConsole
      BY <3>1 DEF ToConsole
    <3> QED
      BY <2>a, <3>1, <3>6, <3>7, <3>8
  <2>3. CASE CommWake
    <3>1. /\ comm = "delay" /\ comm' = IF protocol THEN "binary" ELSE "console"
          /\ UNCHANGED <<down, protocol, rxq, fr, executed>>
      BY <2>3 DEF CommWake, rx
    <3>2. Ahead' = Ahead /\ (ToConsole' <=> ToConsole)
      BY <3>1 DEF Ahead, ToConsole
    <3>3. LeavingInv'
      BY <3>1 DEF LeavingInv
    <3> QED
      BY <2>a, <3>1, <3>2, <3>3
  <2>4. CASE CommDrained
    <3>1. /\ comm \in {"binary", "console"} /\ rxq = <<>> /\ comm' = "drain"
          /\ UNCHANGED <<down, protocol, rxq, fr, executed>>
      BY <2>4 DEF CommDrained, rx
    <3>2. LeavingInv'
      BY <3>1 DEF LeavingInv
    <3>3. CASE comm = "console" /\ protocol
      <4>1. fr = <<>> /\ down = <<>>
        BY <1>5, <2>s, <3>3 DEF LabelInv, ToConsole, LeavingInv
      <4>2. <<>> \o <<>> = <<>>
        BY <1>3, <4>1, ConcatEmptySeq
      <4>3. fr' \o Ahead' = <<>> /\ fr' = <<>>
        BY <3>1, <4>1, <4>2 DEF Ahead
      <4>4. Frames[<<>>] = <<>> /\ Len(<<>>) = 0
        <5>1. <<>> \in Bytes /\ Len(<<>>) = 0
          BY EmptySeq DEF Bytes
        <5>2. Len(<<>>) < 2
          BY <5>1
        <5> QED
          BY <5>1, <5>2, NoFrames
      <4>5. StreamInv'
        BY <4>3, <4>4, StreamsClosed DEF StreamInv
      <4>6. Owed = <<>> /\ Owed' = <<>>
        BY <3>3, <4>3, <4>4 DEF Owed, InStep, ToConsole
      <4>7. Stutters
        BY <1>1, <2>0, <3>1, <4>6 DEF Stutters
      <4> QED
        BY <3>2, <4>5, <4>7 DEF ChannelStep
    <3>4. CASE ~(comm = "console" /\ protocol)
      <4>1. Ahead' = Ahead /\ (ToConsole' <=> ToConsole)
        BY <2>s, <3>1, <3>4 DEF Ahead, ToConsole, LabelInv
      <4> QED
        BY <2>a, <3>1, <3>2, <4>1
    <3> QED
      BY <3>3, <3>4
  <2>5. CASE ConsoleByte \/ EnterProtocol
    <3>1. /\ comm \in {"console", "enter"} /\ comm' \in {"console", "enter"}
          /\ UNCHANGED <<down, fr, executed>>
      BY <2>5 DEF ConsoleByte, EnterProtocol, rx
    <3>2. Owed = <<>> /\ Owed' = <<>> /\ StreamInv'
      BY <3>1 DEF Owed, InStep, ToConsole, StreamInv
    <3>3. LeavingInv'
      <4>1. CASE ConsoleByte
        <5>1. UNCHANGED protocol
          BY <4>1 DEF ConsoleByte
        <5> QED
          BY <2>0, <2>s, <3>1, <5>1 DEF LeavingInv
      <4>2. CASE EnterProtocol
        BY <3>1, <4>2 DEF EnterProtocol, LeavingInv
      <4> QED
        BY <2>5, <4>1, <4>2
    <3>4. Stutters
      BY <1>1, <2>0, <3>1, <3>2 DEF Stutters
    <3> QED
      BY <3>2, <3>3, <3>4 DEF ChannelStep
  <2>6. CASE BinaryByte
    <3>1. comm = "binary" /\ comm' = comm
      BY <2>6 DEF BinaryByte
    <3>2. InStep
      BY <1>5, <2>s, <3>1 DEF InStep, ToConsole, LabelInv
    <3>3. StreamInv' /\ (Stutters \/ Executes)
      BY <1>1, <2>0, <2>6, <3>2, ByteInStep
    <3>4. LeavingInv'
      BY <3>1 DEF LeavingInv
    <3> QED
      BY <3>3, <3>4 DEF ChannelStep
  <2>7. CASE Choose \/ Send \/ CommDone
    <3>1. /\ comm \in {"drain", "send"} /\ comm' \in {"drain", "send", "delay"}
          /\ UNCHANGED <<down, protocol, rxq, fr, executed>>
      BY <2>7 DEF Choose, Send, CommDone, rx
    <3>2. Ahead' = Ahead /\ (ToConsole' <=> ToConsole)
      BY <3>1 DEF Ahead, ToConsole
    <3>3. LeavingInv'
      BY <3>1 DEF LeavingInv
    <3> QED
      BY <2>a, <3>1, <3>2, <3>3
  <2> QED
    BY <2>1, <2>2, <2>3, <2>4, <2>5, <2>6, <2>7 DEF Board, CommNext
<1> QED
  BY <1>4, <1>5

\* A lost byte is the end of order, unless the console would have got it and
\* it was the last.
LEMMA LoseMapped ==
    ASSUME Inv, Inv', ChannelInv, Lose
    PROVE  LeavingInv' /\ StreamInv' /\ ChannelStep
<1>1. /\ down # <<>> /\ down' = Tail(down)
      /\ UNCHANGED <<protocol, rxq, fr, comm, executed, sent, resets>>
      /\ Hurt(TRUE)
  BY DEF Lose, rx, central
<1>2. /\ CommTypeOK /\ CommTypeOK' /\ trouble \in BOOLEAN /\ trouble' \in BOOLEAN
  BY DEF Inv, TypeOK
<1>3. trouble' \/ Clean'
  BY <1>1 DEF Hurt
<1>4. Owed' = <<>> /\ LeavingInv' /\ StreamInv'
  BY <1>2, <1>3, AtRestNext
<1>5. CASE trouble \/ trouble'
  <2>1. Breaks
    BY <1>1, <1>2, <1>4, <1>5 DEF Breaks
  <2> QED
    BY <1>4, <2>1 DEF ChannelStep
<1>6. CASE ~trouble /\ ~trouble'
  <2>1. trouble' = trouble
    BY <1>2, <1>6, Zenon
  <2>2. Clean'
    BY <1>3, <1>6
  <2>3. rxq = <<>> /\ Tail(down) = <<>> /\ fr = <<>>
    <3>1. rxq' \o down' = <<>> /\ fr' = <<>>
      BY <2>2 DEF Clean, Ahead
    <3>2. rxq' \in Seq(Byte) /\ down' \in Seq(Byte)
      BY <1>2 DEF CommTypeOK
    <3>3. rxq' = <<>> /\ down' = <<>>
      BY <3>1, <3>2, ConcatEqualIffEmpty
    <3> QED
      BY <1>1, <3>1, <3>3
  <2>4. down \in Seq(Byte) /\ Len(down) < 2
    <3>1. down \in Seq(Byte)
      BY <1>2 DEF CommTypeOK
    <3>2. Len(Tail(down)) = Len(down) - 1 /\ Len(down) \in Nat
      BY <1>1, <3>1, HeadTailProperties, LenProperties
    <3>3. Len(Tail(down)) = 0
      BY <2>3, EmptySeq
    <3>4. Len(down) - 1 = 0
      BY <3>2, <3>3
    <3>5. Len(down) < 2
      BY <3>2, <3>4
    <3> QED
      BY <3>1, <3>5
  <2>5. fr \o Ahead = down
    BY <2>3, <2>4, ConcatEmptySeq DEF Ahead
  <2>6. Frames[down] = <<>>
    BY <2>4, NoFrames DEF Bytes
  <2>7. Owed = <<>>
    BY <2>5, <2>6 DEF Owed
  <2>8. Stutters
    BY <1>1, <1>4, <2>1, <2>7 DEF Stutters
  <2> QED
    BY <1>4, <2>8 DEF ChannelStep
<1> QED
  BY <1>5, <1>6

\* The invariant and the mapping of every step, together.
LEMMA ChannelNext ==
    ASSUME Inv, Inv', ChannelInv, [Next]_vars
    PROVE  ChannelInv' /\ ChannelStep
<1>1. /\ LabelInv' /\ executed' \in Seq(Bytes)
      /\ \/ UNCHANGED executed
         \/ Len(executed') = Len(executed) + 1 /\ SubSeq(executed', 1, Len(executed)) = executed
  BY LabelStep DEF ChannelInv
<1> SUFFICES LeavingInv' /\ StreamInv' /\ ChannelStep
  BY <1>1 DEF ChannelInv
<1>2. CASE SendProto
  BY <1>2, ProtoStep
<1>3. CASE SendSync
  <2>1. SyncCommand \in Commands /\ SendBytes(SyncCommand) /\ Hurt(ToConsole) /\ sent' = sent + 1
    BY <1>3 DEF SendSync, Commands
  <2>2. UNCHANGED executed
    BY <2>1 DEF SendBytes
  <2> QED
    BY <2>1, <2>2, CommandStep
<1>4. CASE SendCommand
  <2>1. PICK c \in MenuCommands : SendBytes(c)
    BY <1>4 DEF SendCommand
  <2>2. c \in Commands /\ Hurt(ToConsole) /\ sent' = sent + 1
    BY <1>4 DEF SendCommand, Commands
  <2>3. UNCHANGED executed
    BY <2>1 DEF SendBytes
  <2> QED
    BY <2>1, <2>2, <2>3, CommandStep
<1>5. CASE Restart \/ UNCHANGED vars
  <2>1. UNCHANGED <<down, protocol, rxq, fr, comm, executed, sent, resets, trouble>>
    BY <1>5 DEF Restart, vars, commVars
  <2>2. Ahead' = Ahead /\ (ToConsole' <=> ToConsole)
    BY <2>1 DEF Ahead, ToConsole
  <2>3. LeavingInv' /\ StreamInv' /\ Owed' = Owed
    BY <2>1, <2>2 DEF ChannelInv, LeavingInv, StreamInv, InStep, Owed
  <2>4. Stutters
    BY <2>1, <2>3 DEF Stutters
  <2> QED
    BY <2>3, <2>4 DEF ChannelStep
<1>6. CASE Board
  BY <1>1, <1>6, BoardMapped
<1>7. CASE Lose
  BY <1>7, LoseMapped
<1>8. CASE ResetBoard
  <2>1. protocol' = FALSE /\ UNCHANGED <<sent, executed>> /\ resets' = resets + 1 /\ Hurt(TRUE)
    BY <1>8 DEF ResetBoard, Reset, central
  <2>2. CommTypeOK' /\ trouble' \in BOOLEAN
    BY DEF Inv, TypeOK
  <2>3. trouble' \/ Clean'
    BY <2>1 DEF Hurt
  <2>4. Owed' = <<>> /\ LeavingInv' /\ StreamInv'
    BY <2>2, <2>3, AtRestNext
  <2>5. Restarts
    BY <2>1, <2>2, <2>4 DEF Restarts
  <2> QED
    BY <2>4, <2>5 DEF ChannelStep
<1> QED
  BY <1>2, <1>3, <1>4, <1>5, <1>6, <1>7, <1>8 DEF Next

\* The sides start with nothing on the way.
LEMMA ChannelInit == Init /\ Inv => ChannelInv /\ Channel!Init
<1> SUFFICES ASSUME Init, Inv PROVE ChannelInv /\ Channel!Init
  OBVIOUS
<1>1. /\ protocol = FALSE /\ fr = <<>> /\ comm = "delay" /\ executed = <<>>
      /\ sent = 0 /\ trouble = FALSE /\ resets = 0
  BY DEF Init, CommInit
<1>2. ~InStep
  BY <1>1 DEF InStep, ToConsole
<1>3. ChannelInv
  BY <1>1, <1>2, EmptySeq DEF ChannelInv, LabelInv, LeavingInv, StreamInv
<1>4. Channel!Init
  BY <1>1, <1>2 DEF Channel!Init
<1> QED
  BY <1>3, <1>4

\* At any time, in step, what is on the line, in the ring and in the frame
\* buffer is whole commands; the text of "proto" and what follows it never
\* shares the line with one.
THEOREM ChannelInvariant == Spec => []ChannelInv
<1>1. Init => ChannelInv
  BY InitInv, ChannelInit
<1>2. Inv /\ Inv' /\ ChannelInv /\ [Next]_vars => ChannelInv'
  BY ChannelNext
<1> QED
  BY <1>1, <1>2, Invariance, PTL DEF Spec

\* In step, the ring, the parsers, the frame buffer and the Comm task amount to
\* a channel that executes every command once and in order, for every size of
\* the buffers, every set of commands the board can execute, and every mix of
\* lost bytes, overruns and resets; out of step nothing is owed.
THEOREM ChannelImplemented == Spec => ImplementsChannel
<1>1. Init => Channel!Init
  BY InitInv, ChannelInit
<1>2. Inv /\ Inv' /\ ChannelInv /\ [Next]_vars => [Channel!Next]_(Channel!vars)
  BY ChannelNext, StepMapped
<1> QED
  BY <1>1, <1>2, Invariance, ChannelInvariant, PTL DEF Spec, ImplementsChannel, Channel!Spec

\* In step, when the ring and the line are empty, no command is half taken in
\* and none is owed: the parser never waits for bytes nobody will send, which
\* a length that wraps the byte-wide need, or a byte too many or too few in
\* the frame buffer, would make it do.
THEOREM NothingHalfTaken == Spec => [](InStep /\ Ahead = <<>> => fr = <<>> /\ Owed = <<>>)
<1>1. ASSUME Inv, ChannelInv, InStep, Ahead = <<>> PROVE fr = <<>> /\ Owed = <<>>
  <2>1. fr \in Bytes /\ fr \o <<>> = fr
    BY <1>1, ConcatEmptySeq DEF Inv, TypeOK, CommTypeOK, Bytes
  <2>2. fr \in Streams /\ (Len(fr) < 2 \/ Len(fr) < 2 + fr[2])
    BY <1>1, <2>1 DEF ChannelInv, StreamInv
  <2>3. ASSUME fr # <<>> PROVE FALSE
    <3>1. PICK c \in Commands, t \in Streams : fr = c \o t
      BY <2>2, <2>3, StreamSplit
    <3>2. t \in Bytes
      BY StreamsClosed
    <3>3. Len(fr) = Len(c) + Len(t) /\ (\A i \in 1 .. Len(c) : fr[i] = c[i])
      BY <3>1, <3>2, FirstFrame
    <3>4. Len(c) \in Nat /\ Len(c) >= 2 /\ c[2] \in Nat /\ Len(c) = 2 + c[2] /\ Len(t) \in Nat
      BY <3>2, CommandBytes, LenProperties DEF Bytes
    <3>5. fr[2] = c[2]
      <4>1. 2 \in 1 .. Len(c)
        BY <3>4
      <4> QED
        BY <3>3, <4>1
    <3>6. Len(fr) = Len(c) + Len(t)
      BY <3>3
    <3>7. Len(fr) >= Len(c)
      BY <3>4, <3>6
    <3>8. Len(fr) >= 2 /\ ~(Len(fr) < 2)
      BY <3>4, <3>7
    <3>9. Len(fr) < 2 + c[2]
      BY <2>2, <3>5, <3>8
    <3> QED
      BY <3>4, <3>7, <3>9, <3>6
  <2>4. <<>> \in Bytes /\ Len(<<>>) = 0
    BY EmptySeq DEF Bytes
  <2>5. Frames[<<>>] = <<>>
    BY <2>4, NoFrames
  <2>6. fr = <<>>
    BY <2>3
  <2> QED
    BY <1>1, <2>1, <2>5, <2>6 DEF Owed
<1>2. Inv /\ ChannelInv => (InStep /\ Ahead = <<>> => fr = <<>> /\ Owed = <<>>)
  BY <1>1
<1> QED
  BY <1>2, Invariance, ChannelInvariant, PTL

\* The books balance: as long as the sides are in step and the board is not
\* reset, each step adds as much to what was sent as to what was executed and
\* what is still owed together.  No command is executed twice or forgotten.
THEOREM CommandsConserved ==
    Spec => [][~trouble /\ ~trouble' /\ resets' = resets =>
                   sent' - sent = (Len(executed') - Len(executed)) + (Len(Owed') - Len(Owed))]_vars
<1>1. ASSUME Inv, Inv', ChannelInv, ChannelInv', [Next]_vars, ~trouble, ~trouble', resets' = resets
      PROVE  sent' - sent = (Len(executed') - Len(executed)) + (Len(Owed') - Len(Owed))
  <2>1. ChannelStep
    BY <1>1, ChannelNext
  <2>2. /\ sent \in Nat /\ resets \in Nat
        /\ executed \in Seq(Bytes) /\ Len(executed) \in Nat
    BY <1>1, LenProperties DEF ChannelInv, Inv, TypeOK
  <2>3. Owed \in Seq(Bytes) /\ Len(Owed) \in Nat
    <3>1. fr \o Ahead \in Bytes
      BY <1>1, ConcatProperties DEF Inv, TypeOK, CommTypeOK, Bytes, Ahead
    <3>2. Frames[fr \o Ahead] \in Seq(Bytes)
      BY <3>1, FramesEquation
    <3>3. Owed \in Seq(Bytes)
      BY <3>2, EmptySeq DEF Owed
    <3> QED
      BY <3>3, LenProperties
  <2>4. CASE Stutters
    BY <2>2, <2>3, <2>4 DEF Stutters
  <2>5. CASE Submits
    <3>1. PICK c \in Commands : Owed' = Append(Owed, c)
      BY <2>5 DEF Submits
    <3>2. c \in Bytes
      BY CommandBytes
    <3>3. Len(Append(Owed, c)) = Len(Owed) + 1
      BY <2>3, <3>2, AppendProperties
    <3>4. sent' = sent + 1 /\ executed' = executed /\ Len(Owed') = Len(Owed) + 1
      BY <2>5, <3>1, <3>3 DEF Submits
    <3> QED
      BY <2>2, <2>3, <3>4
  <2>6. CASE Executes
    <3>1. /\ Owed # <<>> /\ sent' = sent
          /\ executed' = Append(executed, Head(Owed)) /\ Owed' = Tail(Owed)
      BY <2>6 DEF Executes
    <3>2. Head(Owed) \in Bytes /\ Len(Tail(Owed)) = Len(Owed) - 1
      BY <2>3, <3>1, HeadTailProperties
    <3>3. Len(Append(executed, Head(Owed))) = Len(executed) + 1
      BY <2>2, <3>2, AppendProperties
    <3>4. Len(executed') = Len(executed) + 1 /\ Len(Owed') = Len(Owed) - 1
      BY <3>1, <3>2, <3>3
    <3> QED
      BY <2>2, <2>3, <3>1, <3>4
  <2>7. ~Breaks /\ ~Restarts
    BY <1>1, <2>2 DEF Breaks, Restarts
  <2> QED
    BY <2>1, <2>4, <2>5, <2>6, <2>7 DEF ChannelStep
<1>2. Inv /\ Inv' /\ ChannelInv /\ ChannelInv' /\ [Next]_vars =>
          [~trouble /\ ~trouble' /\ resets' = resets =>
               sent' - sent = (Len(executed') - Len(executed)) + (Len(Owed') - Len(Owed))]_vars
  BY <1>1
<1> QED
  BY <1>2, Invariance, ChannelInvariant, PTL DEF Spec
============================================================================
