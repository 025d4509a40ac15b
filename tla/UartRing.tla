------------------------------- MODULE UartRing -------------------------------
(***************************************************************************)
(* The receive side of the UART driver (firmware/uart.c): uart_isr() fills  *)
(* a ring buffer that uart_read() empties, with no lock between them.  The  *)
(* handler runs to its end before the main loop goes on, but it may come    *)
(* between any two steps of uart_read(), and uart_write() keeps it out.     *)
(*                                                                         *)
(* A byte is represented by its number on the line, so that two bytes are   *)
(* never mistaken for each other; what they carry does not matter here.     *)
(***************************************************************************)
EXTENDS Integers, Sequences

CONSTANTS
  Size,       \* UART_RINGBUFFER_SIZE_RX
  FifoDepth,  \* bytes the receiver FIFO of the UART holds
  MaxBytes    \* bound: bytes on the line

ASSUME SizeAssumption == Size \in Nat \ {0, 1}
ASSUME FifoDepthAssumption == FifoDepth \in Nat \ {0}
ASSUME MaxBytesAssumption == MaxBytes \in Nat

VARIABLES
  sent,       \* the number of bytes the line has carried
  fifo,       \* the receiver FIFO of the UART
  ip, im,     \* IRQ_UART in the pending register and in the mask of the processor
  isr,        \* where uart_isr() is, "off" outside
  rx_buf, rx_produce, rx_consume,
  pc,         \* where the main loop is, "idle" outside of uart.c
  c,          \* the byte uart_read() copied last
  oldmask,    \* the mask uart_write() will restore
  head,       \* history: the oldest byte when uart_read() found the ring not empty
  lost        \* history: the ring lost its content since then

irq  == <<ip, im, isr>>
ring == <<rx_buf, rx_produce, rx_consume>>
main == <<pc, c, oldmask>>
vars == <<sent, fifo, irq, ring, main, head, lost>>

Bytes == 0 .. MaxBytes

Advance_Unmasked(i) == i + 1
Advance(i) == (i + 1) % Size

(* The slot of the next byte that is not taken: uart_read() frees the one it reads at
   its end, but the byte in it is spoken for since its beginning. *)
Taken == IF pc \in {"copy", "advance"} THEN Advance(rx_consume) ELSE rx_consume

-----------------------------------------------------------------------------
(* The line and the interrupt register of the processor. *)

(* A byte that finds the FIFO full is gone. *)
Arrive ==
  /\ sent < MaxBytes /\ sent' = sent + 1
  /\ fifo' = IF Len(fifo) < FifoDepth THEN Append(fifo, sent') ELSE fifo
  /\ UNCHANGED <<irq, ring, main, head, lost>>

(* The interrupt line is a level: it stays asserted while the FIFO holds a byte. *)
Pend ==
  /\ fifo # <<>> /\ ~ip /\ ip' = TRUE
  /\ UNCHANGED <<sent, fifo, im, isr, ring, main, head, lost>>

Interrupt ==
  /\ ip /\ im /\ isr = "off" /\ isr' = "test"
  /\ UNCHANGED <<sent, fifo, ip, im, ring, main, head, lost>>

-----------------------------------------------------------------------------
(* uart_isr() *)

IsrTest ==
  /\ isr = "test" /\ isr' = IF fifo # <<>> THEN "store" ELSE "ack"
  /\ UNCHANGED <<sent, fifo, ip, im, ring, main, head, lost>>

IsrStore ==
  /\ isr = "store" /\ isr' = "test"
  /\ rx_buf' = [rx_buf EXCEPT ![rx_produce] = Head(fifo)] /\ fifo' = Tail(fifo)
  /\ rx_produce' = Advance(rx_produce)
  /\ lost' = (lost \/ Advance(rx_produce) = Taken)   \* a full ring shows empty
  /\ UNCHANGED <<sent, ip, im, rx_consume, main, head>>

IsrAck ==
  /\ isr = "ack" /\ isr' = "off" /\ ip' = FALSE
  /\ UNCHANGED <<sent, fifo, im, ring, main, head, lost>>

IsrStep == IsrTest \/ IsrStore \/ IsrAck

-----------------------------------------------------------------------------
(* uart_read(), entered when get_pkg() calls it: it spins while the ring is empty,
   copies the byte and frees the slot. *)

ReadTest_Unchecked ==
  /\ isr = "off" /\ pc = "idle"
  /\ pc' = "copy" /\ head' = rx_buf[rx_consume] /\ lost' = FALSE
  /\ UNCHANGED <<sent, fifo, irq, ring, c, oldmask>>

ReadTest ==
  /\ isr = "off" /\ pc = "idle" /\ rx_consume # rx_produce
  /\ pc' = "copy" /\ head' = rx_buf[rx_consume] /\ lost' = FALSE
  /\ UNCHANGED <<sent, fifo, irq, ring, c, oldmask>>

Copied_Next == rx_buf[Advance(rx_consume)]
Copied == rx_buf[rx_consume]

ReadCopy ==
  /\ isr = "off" /\ pc = "copy" /\ pc' = "advance"
  /\ c' = Copied
  /\ UNCHANGED <<sent, fifo, irq, ring, oldmask, head, lost>>

ReadAdvance ==
  /\ isr = "off" /\ pc = "advance" /\ pc' = "idle"
  /\ rx_consume' = Advance(rx_consume)
  /\ UNCHANGED <<sent, fifo, irq, rx_buf, rx_produce, c, oldmask, head, lost>>

(* uart_write(): the mask is saved and cleared, and restored once the transmitter
   took the byte. *)
SavedMask_Late == FALSE
SavedMask == im

WriteMask ==
  /\ isr = "off" /\ pc = "idle" /\ pc' = "write"
  /\ oldmask' = SavedMask /\ im' = FALSE
  /\ UNCHANGED <<sent, fifo, ip, isr, ring, c, head, lost>>

WriteByte ==
  /\ isr = "off" /\ pc = "write" /\ pc' = "idle"
  /\ im' = oldmask
  /\ UNCHANGED <<sent, fifo, ip, isr, ring, c, oldmask, head, lost>>

MainStep == ReadTest \/ ReadCopy \/ ReadAdvance \/ WriteMask \/ WriteByte

-----------------------------------------------------------------------------
(* After uart_init(). *)
Init ==
  /\ sent = 0 /\ fifo = <<>> /\ ip = FALSE /\ im = TRUE /\ isr = "off"
  /\ rx_buf = [i \in 0 .. Size - 1 |-> 0] /\ rx_produce = 0 /\ rx_consume = 0
  /\ pc = "idle" /\ c = 0 /\ oldmask = TRUE /\ head = 0 /\ lost = FALSE

Next == Arrive \/ Pend \/ Interrupt \/ IsrStep \/ MainStep

Spec == Init /\ [][Next]_vars

(* The processor runs and takes a pending interrupt whenever the mask allows it; the
   transmitter takes a byte in the end.  The line owes nothing, and the main loop
   does not have to read. *)
Fairness ==
  /\ WF_vars(Pend) /\ SF_vars(Interrupt) /\ WF_vars(IsrStep) /\ WF_vars(WriteByte)

FairSpec == Spec /\ Fairness

-----------------------------------------------------------------------------
TypeOK ==
  /\ sent \in Bytes /\ fifo \in Seq(Bytes) /\ Len(fifo) <= FifoDepth
  /\ ip \in BOOLEAN /\ im \in BOOLEAN /\ isr \in {"off", "test", "store", "ack"}
  /\ isr = "store" => fifo # <<>>
  /\ rx_buf \in [0 .. Size - 1 -> Bytes]
  /\ rx_produce \in 0 .. Size - 1 /\ rx_consume \in 0 .. Size - 1
  /\ pc \in {"idle", "copy", "advance", "write"} /\ c \in Bytes /\ oldmask \in BOOLEAN
  /\ head \in Bytes /\ lost \in BOOLEAN

(* The ring is the lossy queue: a byte is taken when uart_read() finds the ring not
   empty, and although the handler may store any number of bytes before the slot
   is freed, it never stores over a byte that is still counted. *)
Ring == INSTANCE RingWindow WITH Items <- Bytes

Unread == Ring!Window(rx_buf, rx_produce, Taken)

RxRing == INSTANCE LossyRing WITH Items <- Bytes, q <- Unread

RingIsQueue == RxRing!Spec

(* uart_read() returns the byte that was the oldest when it found the ring not empty,
   unless the ring overflowed in the middle of the call. *)
ReadsOldest == pc = "advance" /\ ~lost => c = head

(* The bytes read are in the order of the line, and none is read twice: not even when
   the ring or the FIFO overflows, nor when that happens in the middle of a read. *)
InOrder == [][pc = "copy" /\ pc' = "advance" => c' > c]_vars

(* No byte is forgotten in the FIFO: neither one that comes between the last test of
   the handler and its acknowledgement, nor one that comes while uart_write() has
   the interrupt masked. *)
NoByteForgotten == (fifo # <<>>) ~> (isr = "store")
===============================================================================
