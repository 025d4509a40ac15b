------------------------------ MODULE LossyRing ------------------------------
(***************************************************************************)
(* What the two ring buffers of the firmware promise, and no more.  Neither *)
(* the result ring of main.c (ret_buf) nor the receive ring of uart.c       *)
(* (rx_buf) tests for "full" before it stores, and both take equal indices  *)
(* to mean "empty".  A ring of Size slots is therefore a FIFO queue that    *)
(* holds at most Size-1 items, and the item that would make it hold Size    *)
(* does not overwrite one of them: it makes the whole content disappear.    *)
(***************************************************************************)
EXTENDS Naturals, Sequences

CONSTANTS
  Size,   \* number of slots of the ring
  Items   \* what may be stored

VARIABLE q  \* the items stored and not yet taken, oldest first

Init == q = <<>>

(* Store an item; the Size-th one loses all of them. *)
Put(v) == q' = IF Len(q) + 1 = Size THEN <<>> ELSE Append(q, v)

(* Take the oldest item. *)
Get == q # <<>> /\ q' = Tail(q)

Next == (\E v \in Items : Put(v)) \/ Get

Spec == Init /\ [][Next]_q
==============================================================================
