------------------------------ MODULE RingWindow ------------------------------
(***************************************************************************)
(* What lies between the two indices of a ring buffer, oldest first: the    *)
(* refinement mapping of both rings of the firmware to LossyRing.           *)
(***************************************************************************)
EXTENDS Integers, Sequences

CONSTANTS
  Size,   \* number of slots of the ring
  Items   \* what a slot holds

(* The slot after slot i. *)
Successor(i) == (i + 1) % Size

(* The items from slot c up to slot p, exclusive. *)
Window(buf, p, c) == [i \in 1 .. (p - c) % Size |-> buf[(c + i - 1) % Size]]
===============================================================================
