---------------------------- MODULE UartRingProofs ----------------------------
(***************************************************************************)
(* Theorems of UartRing, for every size of the ring and of the FIFO and any *)
(* number of bytes: the ring refines LossyRing, and what uart_read() returns *)
(* is the oldest byte, later on the line than all bytes read before.        *)
(***************************************************************************)
EXTENDS UartRing, TLAPS

RingFacts == INSTANCE RingWindowProofs WITH Items <- Bytes

(* Advancing an index stays in the ring. *)
LEMMA AdvanceInRing ==
  ASSUME NEW i \in 0 .. Size - 1
  PROVE  Advance(i) \in 0 .. Size - 1
BY SizeAssumption DEF Advance

(* Taking the head of a FIFO and adding a byte to it keep it a FIFO of bytes. *)
LEMMA FifoType ==
  ASSUME NEW s \in Seq(Bytes), NEW b \in Bytes
  PROVE  /\ Append(s, b) \in Seq(Bytes) /\ Len(Append(s, b)) = Len(s) + 1
         /\ s # <<>> => /\ Head(s) \in Bytes /\ Tail(s) \in Seq(Bytes)
                        /\ Len(Tail(s)) = Len(s) - 1
OBVIOUS

(* Every step keeps the types; the handler only stores while the FIFO holds a byte. *)
LEMMA TypeStep ==
  ASSUME TypeOK, [Next]_vars
  PROVE  TypeOK'
<1>1. CASE Arrive
  <2>1. sent' \in Bytes
    BY <1>1, MaxBytesAssumption DEF Arrive, TypeOK, Bytes
  <2>2. fifo' \in Seq(Bytes) /\ Len(fifo') <= FifoDepth /\ (fifo # <<>> => fifo' # <<>>)
    <3>1. CASE Len(fifo) < FifoDepth
      <4>1. fifo' = Append(fifo, sent')
        BY <1>1, <3>1 DEF Arrive
      <4> QED
        BY <2>1, <3>1, <4>1, FifoDepthAssumption DEF TypeOK
    <3>2. CASE ~(Len(fifo) < FifoDepth)
      BY <1>1, <3>2 DEF Arrive, TypeOK
    <3> QED
      BY <3>1, <3>2
  <2> QED
    BY <1>1, <2>1, <2>2 DEF Arrive, TypeOK, irq, ring, main
<1>2. CASE Pend \/ Interrupt \/ IsrTest \/ IsrAck
  BY <1>2 DEF Pend, Interrupt, IsrTest, IsrAck, TypeOK, irq, ring, main
<1>3. CASE IsrStore
  <2>1. fifo # <<>>
    BY <1>3 DEF IsrStore, TypeOK
  <2>2. Head(fifo) \in Bytes /\ Tail(fifo) \in Seq(Bytes) /\ Len(Tail(fifo)) <= FifoDepth
    BY <2>1, FifoDepthAssumption DEF TypeOK
  <2> QED
    BY <1>3, <2>2, AdvanceInRing DEF IsrStore, TypeOK, main
<1>4. CASE ReadTest \/ ReadCopy \/ ReadAdvance
  BY <1>4, AdvanceInRing DEF ReadTest, ReadCopy, ReadAdvance, Copied, TypeOK, irq, ring
<1>5. CASE WriteMask \/ WriteByte
  BY <1>5 DEF WriteMask, WriteByte, SavedMask, TypeOK, ring
<1>6. CASE UNCHANGED vars
  BY <1>6 DEF vars, irq, ring, main, TypeOK
<1> QED
  BY <1>1, <1>2, <1>3, <1>4, <1>5, <1>6 DEF Next, IsrStep, MainStep

(* Every variable keeps its type; the handler only stores while the FIFO holds a byte. *)
THEOREM TypeCorrect == Spec => []TypeOK
<1>1. Init => TypeOK
  <2> SUFFICES ASSUME Init PROVE TypeOK
    OBVIOUS
  <2>1. 0 \in Bytes /\ 0 \in 0 .. Size - 1
    BY SizeAssumption, MaxBytesAssumption DEF Bytes
  <2>2. fifo = <<>> /\ fifo \in Seq(Bytes) /\ Len(fifo) <= FifoDepth
    BY FifoDepthAssumption DEF Init
  <2>3. rx_buf \in [0 .. Size - 1 -> Bytes]
    BY <2>1 DEF Init
  <2>4. ip \in BOOLEAN /\ im \in BOOLEAN /\ oldmask \in BOOLEAN /\ lost \in BOOLEAN
    BY DEF Init
  <2> QED
    BY <2>1, <2>2, <2>3, <2>4 DEF Init, TypeOK
<1>2. TypeOK /\ [Next]_vars => TypeOK'
  BY TypeStep
<1> QED
  BY <1>1, <1>2, PTL DEF Spec

-----------------------------------------------------------------------------
(* What each step does to the bytes that are not taken. *)

(* The operators of the ring are those of RingWindow. *)
LEMMA SameRing ==
  /\ Unread = RingFacts!Window(rx_buf, rx_produce, Taken)
  /\ \A i : Advance(i) = RingFacts!Successor(i)
BY DEF Unread, Ring!Window, RingFacts!Window, RingFacts!Successor, Advance

(* Taken is a slot of the ring, and it is the slot of rx_consume or the next. *)
LEMMA TakenType ==
  ASSUME TypeOK
  PROVE  Taken \in 0 .. Size - 1
BY AdvanceInRing DEF TypeOK, Taken

(* The bytes that are not taken are a sequence. *)
LEMMA UnreadType ==
  ASSUME TypeOK
  PROVE  Unread \in Seq(Bytes)
BY SameRing, TakenType, SizeAssumption, RingFacts!WindowSeq DEF TypeOK

(* There are none when the next slot to fill is the next one to read. *)
LEMMA NothingBetween ==
  ASSUME NEW buf, NEW p \in 0 .. Size - 1
  PROVE  Ring!Window(buf, p, p) = <<>>
BY SizeAssumption, RingFacts!RingLength DEF Ring!Window

(* The handler appends a byte, or makes the full ring look empty. *)
LEMMA StorePuts ==
  ASSUME TypeOK, IsrStore
  PROVE  /\ Unread' = IF Len(Unread) + 1 = Size THEN <<>> ELSE Append(Unread, Head(fifo))
         /\ Head(fifo) \in Bytes
<1>1. fifo # <<>> /\ Head(fifo) \in Bytes
  BY DEF IsrStore, TypeOK
<1>2. /\ rx_buf' = [rx_buf EXCEPT ![rx_produce] = Head(fifo)]
      /\ rx_produce' = Advance(rx_produce) /\ UNCHANGED <<rx_consume, pc>>
  BY DEF IsrStore, main
<1>3. Taken' = Taken
  BY <1>2 DEF Taken
<1>4. Unread' = RingFacts!Window([rx_buf EXCEPT ![rx_produce] = Head(fifo)],
                                 RingFacts!Successor(rx_produce), Taken)
  BY <1>2, <1>3, SameRing DEF Unread, Ring!Window, RingFacts!Window
<1>5. /\ rx_buf \in [0 .. Size - 1 -> Bytes] /\ rx_produce \in 0 .. Size - 1
  BY DEF TypeOK
<1> QED
  BY <1>1, <1>4, <1>5, TakenType, SameRing, SizeAssumption, RingFacts!WindowPut

(* uart_read() takes the oldest byte when it finds the ring not empty. *)
LEMMA TestTakes ==
  ASSUME TypeOK, ReadTest
  PROVE  /\ Unread # <<>> /\ Unread' = Tail(Unread)
         /\ Unread \in Seq(Bytes) /\ Head(Unread) = rx_buf[rx_consume]
<1>1. /\ pc = "idle" /\ pc' = "copy" /\ UNCHANGED <<rx_buf, rx_produce, rx_consume>>
      /\ rx_produce # rx_consume
  BY DEF ReadTest, ring
<1>2. Taken = rx_consume /\ Taken' = RingFacts!Successor(rx_consume)
  BY <1>1, SameRing DEF Taken
<1>3. Unread' = RingFacts!Window(rx_buf, rx_produce, RingFacts!Successor(rx_consume))
  BY <1>1, <1>2 DEF Unread, Ring!Window, RingFacts!Window
<1>4. Unread = RingFacts!Window(rx_buf, rx_produce, rx_consume)
  BY <1>2, SameRing
<1>5. /\ rx_buf \in [0 .. Size - 1 -> Bytes]
      /\ rx_produce \in 0 .. Size - 1 /\ rx_consume \in 0 .. Size - 1
  BY DEF TypeOK
<1>6. Unread # <<>> /\ Unread' = Tail(Unread)
  BY <1>1, <1>3, <1>4, <1>5, SizeAssumption, RingFacts!WindowGet
<1>7. Unread \in Seq(Bytes) /\ Head(Unread) = rx_buf[rx_consume]
  <2>1. /\ Unread \in Seq(Bytes)
        /\ Len(Unread) = (rx_produce - rx_consume) % Size
        /\ \A i \in 1 .. (rx_produce - rx_consume) % Size :
              Unread[i] = rx_buf[(rx_consume + i - 1) % Size]
    BY <1>4, <1>5, SizeAssumption, RingFacts!WindowSeq
  <2>2. Len(Unread) \in Nat \ {0} /\ Head(Unread) = Unread[1]
    BY <1>6, <2>1
  <2>3. Unread[1] = rx_buf[(rx_consume + 1 - 1) % Size]
    BY <2>1, <2>2
  <2>4. (rx_consume + 1 - 1) % Size = rx_consume
    BY <1>5, SizeAssumption
  <2> QED
    BY <2>1, <2>2, <2>3, <2>4
<1> QED
  BY <1>6, <1>7

(* Nothing else touches them: not even the end of uart_read(). *)
LEMMA OthersKeep ==
  ASSUME \/ Arrive \/ Pend \/ Interrupt \/ IsrTest \/ IsrAck
         \/ ReadCopy \/ ReadAdvance \/ WriteMask \/ WriteByte \/ UNCHANGED vars
  PROVE  UNCHANGED Unread
<1>1. UNCHANGED <<rx_buf, rx_produce>>
  BY DEF Arrive, Pend, Interrupt, IsrTest, IsrAck, ReadCopy, ReadAdvance, WriteMask, WriteByte, vars, ring
<1>2. Taken' = Taken
  <2>1. CASE ReadCopy
    BY <2>1 DEF ReadCopy, Taken, ring
  <2>2. CASE ReadAdvance
    BY <2>2 DEF ReadAdvance, Taken
  <2>3. CASE WriteMask \/ WriteByte
    BY <2>3 DEF WriteMask, WriteByte, Taken, ring
  <2>4. CASE Arrive \/ Pend \/ Interrupt \/ IsrTest \/ IsrAck \/ UNCHANGED vars
    BY <2>4 DEF Arrive, Pend, Interrupt, IsrTest, IsrAck, vars, ring, main, Taken
  <2> QED
    BY <2>1, <2>2, <2>3, <2>4
<1> QED
  BY <1>1, <1>2 DEF Unread, Ring!Window

-----------------------------------------------------------------------------
(* The receive ring implements LossyRing, with a byte taken at the first step of
   uart_read(), whatever the handler does before the last one. *)
THEOREM RingRefines == Spec => RingIsQueue
<1>1. Init => RxRing!Init
  BY SizeAssumption, RingFacts!RingLength DEF Init, RxRing!Init, Unread, Ring!Window, Taken
<1>2. TypeOK /\ [Next]_vars => [RxRing!Next]_Unread
  <2> SUFFICES ASSUME TypeOK, [Next]_vars PROVE RxRing!Next \/ UNCHANGED Unread
    OBVIOUS
  <2>1. CASE IsrStore
    BY <2>1, StorePuts DEF RxRing!Next, RxRing!Put
  <2>2. CASE ReadTest
    BY <2>2, TestTakes DEF RxRing!Next, RxRing!Get
  <2> QED
    BY <2>1, <2>2, OthersKeep, Zenon DEF Next, IsrStep, MainStep
<1> QED
  BY <1>1, <1>2, TypeCorrect, PTL DEF Spec, RingIsQueue, RxRing!Spec

-----------------------------------------------------------------------------
(* The byte uart_read() returns. *)

(* While uart_read() is about to copy, its slot still holds the oldest byte, unless
   the ring overflowed: a store into that slot is the one that overflows it. *)
HeadInv ==
  /\ pc = "copy" /\ ~lost => rx_buf[rx_consume] = head
  /\ ReadsOldest

(* uart_read() returns the byte that was the oldest when it found the ring not empty,
   unless the ring overflowed in the middle of the call. *)
THEOREM ReturnsOldest == Spec => []ReadsOldest
<1>1. Init => HeadInv
  BY DEF Init, HeadInv, ReadsOldest
<1>2. TypeOK /\ HeadInv /\ [Next]_vars => HeadInv'
  <2> SUFFICES ASSUME TypeOK, HeadInv, [Next]_vars PROVE HeadInv'
    OBVIOUS
  <2>1. CASE IsrStore
    <3>1. CASE pc = "copy" /\ rx_produce = rx_consume
      <4>1. Advance(rx_produce) = Taken
        BY <3>1 DEF Taken
      <4>2. lost' /\ pc' = "copy"
        BY <2>1, <3>1, <4>1 DEF IsrStore, main
      <4> QED
        BY <4>2 DEF HeadInv, ReadsOldest
    <3>2. CASE pc = "copy" /\ rx_produce # rx_consume
      <4>1. rx_buf'[rx_consume'] = rx_buf[rx_consume]
        BY <2>1, <3>2 DEF IsrStore, TypeOK
      <4>2. /\ (lost => lost') /\ pc' = "copy" /\ head' = head
        BY <2>1, <3>2 DEF IsrStore, main
      <4> QED
        BY <3>2, <4>1, <4>2 DEF HeadInv, ReadsOldest
    <3>3. CASE pc # "copy"
      <4>1. (lost => lost') /\ pc' = pc /\ c' = c /\ head' = head
        BY <2>1 DEF IsrStore, main
      <4> QED
        BY <3>3, <4>1 DEF HeadInv, ReadsOldest
    <3> QED
      BY <3>1, <3>2, <3>3
  <2>2. CASE ReadTest
    BY <2>2 DEF ReadTest, HeadInv, ReadsOldest, ring
  <2>3. CASE ReadCopy
    BY <2>3 DEF ReadCopy, Copied, HeadInv, ReadsOldest, ring
  <2>4. CASE ReadAdvance \/ WriteMask \/ WriteByte
    BY <2>4 DEF ReadAdvance, WriteMask, WriteByte, HeadInv, ReadsOldest
  <2>5. CASE Arrive \/ Pend \/ Interrupt \/ IsrTest \/ IsrAck \/ UNCHANGED vars
    BY <2>5 DEF Arrive, Pend, Interrupt, IsrTest, IsrAck, vars, ring, main, HeadInv, ReadsOldest
  <2> QED
    BY <2>1, <2>2, <2>3, <2>4, <2>5 DEF Next, IsrStep, MainStep
<1> QED
  BY <1>1, <1>2, TypeCorrect, PTL DEF Spec, HeadInv

-----------------------------------------------------------------------------
(* The order of the bytes. *)

(* The numbers in s rise, above lo and not above hi. *)
Rising(s, lo, hi) ==
  \A i \in 1 .. Len(s) : /\ lo < s[i] /\ s[i] <= hi
                         /\ \A j \in 1 .. Len(s) : i < j => s[i] < s[j]

Below(s, t) == \A i \in 1 .. Len(s), j \in 1 .. Len(t) : s[i] < t[j]

(* The byte uart_read() will return, and otherwise the last it did. *)
Floor == IF pc = "copy" THEN rx_buf[rx_consume] ELSE c

(* The byte in the hands of uart_read(), the ring and the FIFO hold, in this order,
   ever later bytes of the line. *)
OrderInv ==
  /\ Rising(Unread, Floor, sent)
  /\ Rising(fifo, Floor, sent)
  /\ Below(Unread, fifo)
  /\ Floor <= sent
  /\ pc = "copy" => c < rx_buf[rx_consume]

(* Numbers that do not exceed a bound stay below any larger one. *)
LEMMA RisingWithin ==
  ASSUME NEW s \in Seq(Bytes), NEW lo \in Bytes, NEW hi \in Bytes, Rising(s, lo, hi),
         NEW top \in Bytes, hi < top
  PROVE  Rising(s, lo, top) /\ \A i \in 1 .. Len(s) : s[i] < top
<1>1. \A i \in 1 .. Len(s) : s[i] \in Bytes
  OBVIOUS
<1>2. \A i \in 1 .. Len(s) : s[i] < top
  BY <1>1 DEF Rising, Bytes
<1> QED
  BY <1>1, <1>2 DEF Rising, Bytes

(* Taking the first of rising numbers leaves numbers above it. *)
LEMMA RisingTail ==
  ASSUME NEW s \in Seq(Bytes), s # <<>>, NEW lo \in Bytes, NEW hi \in Bytes, Rising(s, lo, hi)
  PROVE  /\ Rising(Tail(s), Head(s), hi) /\ Rising(Tail(s), lo, hi)
         /\ lo < Head(s) /\ Head(s) <= hi /\ Head(s) \in Bytes
<1>1. /\ Len(s) \in Nat \ {0} /\ Head(s) = s[1] /\ Len(Tail(s)) = Len(s) - 1
      /\ \A i \in 1 .. Len(s) - 1 : Tail(s)[i] = s[i + 1]
      /\ \A i \in 1 .. Len(s) : s[i] \in Bytes
  OBVIOUS
<1>2. lo < s[1] /\ s[1] <= hi /\ \A i \in 1 .. Len(s) - 1 : s[1] < s[i + 1]
  BY <1>1 DEF Rising
<1>3. \A i \in 1 .. Len(s) - 1 :
         /\ lo < s[i + 1] /\ s[i + 1] <= hi
         /\ \A j \in 1 .. Len(s) - 1 : i < j => s[i + 1] < s[j + 1]
  BY <1>1 DEF Rising
<1> QED
  BY <1>1, <1>2, <1>3 DEF Rising

(* Adding a number above all others keeps them rising. *)
LEMMA RisingAppend ==
  ASSUME NEW s \in Seq(Bytes), NEW lo \in Bytes, NEW hi \in Bytes, Rising(s, lo, hi),
         NEW v \in Bytes, NEW top \in Bytes, lo < v, v <= top, hi <= top,
         \A i \in 1 .. Len(s) : s[i] < v
  PROVE  Rising(Append(s, v), lo, top)
<1>1. /\ Len(s) \in Nat /\ Len(Append(s, v)) = Len(s) + 1 /\ Append(s, v)[Len(s) + 1] = v
      /\ \A i \in 1 .. Len(s) : Append(s, v)[i] = s[i] /\ s[i] \in Bytes
  OBVIOUS
<1>2. \A i \in 1 .. Len(s) : /\ lo < s[i] /\ s[i] <= top
                             /\ \A j \in 1 .. Len(s) : i < j => s[i] < s[j]
  BY <1>1 DEF Rising, Bytes
<1> QED
  BY <1>1, <1>2 DEF Rising

(* Each kind of step keeps the bytes in order. *)
LEMMA OrderStep ==
  ASSUME TypeOK, OrderInv, [Next]_vars
  PROVE  OrderInv'
<1>t. /\ Unread \in Seq(Bytes) /\ fifo \in Seq(Bytes) /\ Floor \in Bytes /\ sent \in Bytes
      /\ Bytes \subseteq Int
  BY UnreadType DEF TypeOK, Floor, Bytes
<1>1. CASE Arrive
  <2>1. UNCHANGED <<Unread, Floor>> /\ (pc' = "copy" => c' < rx_buf'[rx_consume'])
    BY <1>1, OthersKeep DEF Arrive, Floor, ring, main, OrderInv
  <2>2. sent' = sent + 1 /\ sent' \in Bytes /\ sent < sent' /\ sent <= sent'
    BY <1>1, <1>t, MaxBytesAssumption DEF Arrive, Bytes
  <2>3. Rising(Unread, Floor, sent') /\ Rising(fifo, Floor, sent') /\ Floor <= sent'
    BY <1>t, <2>2, RisingWithin DEF OrderInv, Bytes
  <2>4. CASE Len(fifo) < FifoDepth
    <3>1. fifo' = Append(fifo, sent')
      BY <1>1, <2>4 DEF Arrive
    <3>2. /\ \A i \in 1 .. Len(fifo) : fifo[i] < sent'
          /\ \A i \in 1 .. Len(Unread) : Unread[i] < sent'
      BY <1>t, <2>2, RisingWithin DEF OrderInv
    <3>3. Rising(fifo', Floor, sent')
      <4>1. Floor < sent' /\ sent' <= sent'
        BY <1>t, <2>2 DEF OrderInv, Bytes
      <4> QED
        BY <1>t, <2>2, <2>3, <3>1, <3>2, <4>1, RisingAppend
    <3>4. Below(Unread, fifo')
      BY <1>t, <2>2, <3>1, <3>2 DEF OrderInv, Below
    <3> QED
      BY <2>1, <2>3, <3>3, <3>4 DEF OrderInv
  <2>5. CASE ~(Len(fifo) < FifoDepth)
    <3>1. fifo' = fifo
      BY <1>1, <2>5 DEF Arrive
    <3> QED
      BY <2>1, <2>3, <3>1 DEF OrderInv
  <2> QED
    BY <2>4, <2>5
<1>2. CASE IsrStore
  <2> DEFINE v == Head(fifo)
  <2>1. /\ fifo # <<>> /\ fifo' = Tail(fifo) /\ UNCHANGED <<sent, pc, c, rx_consume>>
        /\ rx_buf' = [rx_buf EXCEPT ![rx_produce] = v]
        /\ rx_produce' = Advance(rx_produce)
    BY <1>2 DEF IsrStore, TypeOK, main
  <2>2. /\ Rising(fifo', v, sent) /\ Rising(fifo', Floor, sent)
        /\ Floor < v /\ v <= sent /\ v \in Bytes
    BY <1>t, <2>1, RisingTail DEF OrderInv
  <2>3. CASE pc = "copy" /\ rx_produce = rx_consume
    <3>1. Floor' = v
      BY <2>1, <2>3 DEF Floor, TypeOK
    <3>2. Unread' = <<>>
      <4>1. rx_produce' = Taken'
        BY <2>1, <2>3 DEF Taken
      <4>2. rx_produce' \in 0 .. Size - 1
        BY TypeStep DEF TypeOK
      <4>3. Unread' = Ring!Window(rx_buf', rx_produce', rx_produce')
        BY <4>1 DEF Unread, Ring!Window
      <4> QED
        BY <4>2, <4>3, NothingBetween
    <3>3. c' < rx_buf'[rx_consume']
      BY <1>t, <2>1, <2>2, <2>3 DEF OrderInv, Floor, TypeOK, Bytes
    <3> QED
      BY <2>1, <2>2, <3>1, <3>2, <3>3 DEF OrderInv, Rising, Below
  <2>4. CASE ~(pc = "copy" /\ rx_produce = rx_consume)
    <3>1. Floor' = Floor /\ (pc' = "copy" => c' < rx_buf'[rx_consume'])
      BY <2>1, <2>4 DEF Floor, OrderInv, TypeOK
    <3>2. CASE Unread' = <<>>
      BY <1>t, <2>1, <2>2, <3>1, <3>2 DEF OrderInv, Rising, Below
    <3>3. CASE Unread' = Append(Unread, v)
      <4>1. \A i \in 1 .. Len(Unread) : Unread[i] < v
        BY <1>t, <2>1 DEF OrderInv, Below
      <4>2. Rising(Unread', Floor, sent)
        <5>1. sent <= sent
          BY <1>t
        <5> QED
          BY <1>t, <2>2, <3>3, <4>1, <5>1, RisingAppend DEF OrderInv
      <4>3. Below(Unread', fifo')
        <5>1. /\ \A i \in 1 .. Len(fifo') : v < fifo'[i]
              /\ \A i \in 1 .. Len(Unread), j \in 1 .. Len(fifo') : Unread[i] < fifo'[j]
          BY <1>t, <2>1, <2>2 DEF OrderInv, Below, Rising
        <5> QED
          BY <1>t, <2>2, <3>3, <5>1 DEF Below
      <4> QED
        BY <2>1, <2>2, <3>1, <4>2, <4>3 DEF OrderInv
    <3> QED
      BY <1>2, <3>2, <3>3, StorePuts
  <2> QED
    BY <2>3, <2>4
<1>3. CASE ReadTest
  <2>1. /\ pc = "idle" /\ pc' = "copy" /\ UNCHANGED <<sent, fifo, c, rx_buf, rx_consume>>
    BY <1>3 DEF ReadTest, ring
  <2>2. /\ Unread # <<>> /\ Unread' = Tail(Unread) /\ Floor' = Head(Unread)
    BY <1>3, <2>1, TestTakes DEF Floor
  <2>3. /\ Rising(Unread', Floor', sent) /\ Floor < Floor' /\ Floor' <= sent
    BY <1>t, <2>2, RisingTail DEF OrderInv
  <2>4. Below(Unread', fifo) /\ \A i \in 1 .. Len(fifo) : Floor' < fifo[i]
    BY <1>t, <2>2 DEF OrderInv, Below
  <2>5. Rising(fifo, Floor', sent)
    BY <2>4 DEF OrderInv, Rising
  <2>6. c' < rx_buf'[rx_consume']
    BY <2>1, <2>3 DEF Floor
  <2> QED
    BY <2>1, <2>3, <2>4, <2>5, <2>6 DEF OrderInv
<1>4. CASE \/ Pend \/ Interrupt \/ IsrTest \/ IsrAck
           \/ ReadCopy \/ ReadAdvance \/ WriteMask \/ WriteByte \/ UNCHANGED vars
  <2>1. UNCHANGED Unread
    BY <1>4, OthersKeep
  <2>2. UNCHANGED <<sent, fifo>>
    BY <1>4 DEF Pend, Interrupt, IsrTest, IsrAck, ReadCopy, ReadAdvance, WriteMask, WriteByte, vars
  <2>3. UNCHANGED Floor /\ (pc' = "copy" => UNCHANGED <<pc, c, rx_buf, rx_consume>>)
    <3>1. CASE Pend \/ Interrupt \/ IsrTest \/ IsrAck \/ UNCHANGED vars
      BY <3>1 DEF Pend, Interrupt, IsrTest, IsrAck, vars, ring, main, Floor
    <3>2. CASE ReadCopy \/ ReadAdvance
      BY <3>2 DEF ReadCopy, ReadAdvance, Copied, ring, Floor
    <3>3. CASE WriteMask \/ WriteByte
      BY <3>3 DEF WriteMask, WriteByte, ring, Floor
    <3> QED
      BY <1>4, <3>1, <3>2, <3>3
  <2> QED
    BY <2>1, <2>2, <2>3 DEF OrderInv
<1> QED
  BY <1>1, <1>2, <1>3, <1>4, Zenon DEF Next, IsrStep, MainStep

(* The bytes read are in the order of the line, and none is read twice: not even when
   the ring or the FIFO overflows, nor when that happens in the middle of a read. *)
THEOREM ReadInOrder == Spec => InOrder
<1>1. Init => OrderInv
  <2> SUFFICES ASSUME Init PROVE OrderInv
    OBVIOUS
  <2>1. Unread = <<>> /\ fifo = <<>>
    BY NothingBetween, SizeAssumption DEF Init, Taken, Unread
  <2> QED
    BY <2>1 DEF Init, OrderInv, Rising, Below, Floor
<1>2. TypeOK /\ OrderInv /\ [Next]_vars => OrderInv'
  BY OrderStep
<1>3. OrderInv /\ [Next]_vars => [pc = "copy" /\ pc' = "advance" => c' > c]_vars
  <2> SUFFICES ASSUME OrderInv, Next, pc = "copy", pc' = "advance" PROVE c' > c
    OBVIOUS
  <2>1. ReadCopy
    BY DEF Next, IsrStep, MainStep, Arrive, Pend, Interrupt, IsrTest, IsrStore, IsrAck,
           ReadTest, ReadAdvance, WriteMask, WriteByte, main
  <2> QED
    BY <2>1 DEF ReadCopy, Copied, OrderInv
<1> QED
  BY <1>1, <1>2, <1>3, TypeCorrect, PTL DEF Spec, InOrder
===============================================================================
