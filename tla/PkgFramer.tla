------------------------------- MODULE PkgFramer -------------------------------
(***************************************************************************)
(* get_pkg() of firmware/main.c: it searches the bytes of the receive ring  *)
(* for the header 'A' 'V', collects the package that follows and tests its  *)
(* checksum.  What it has seen is kept in static variables, so a package    *)
(* may be spread over any number of calls.                                  *)
(*                                                                         *)
(* Bytes get lost one by one on the line and in the FIFO of the UART, get   *)
(* damaged, or vanish all at once when the ring fills up (LossyRing, which  *)
(* UartRing implements).  A byte knows, for the properties only, which      *)
(* package it belongs to and where; the code sees its value.  Bytes that    *)
(* are neither 'A' nor 'V' are all alike.  The checksum is taken to match   *)
(* exactly when the bytes it covers are those of one package.               *)
(***************************************************************************)
EXTENDS Integers, Sequences

CONSTANTS
  Size,       \* UART_RINGBUFFER_SIZE_RX
  Count,      \* AVA2_P_COUNT
  HeadLen,    \* bytes before the data: two of the header, TYPE, IDX and CNT
  Payloads,   \* the data and checksums the host sends
  MaxPkgs,    \* bound: packages the host sends
  MaxFaults   \* bound: bytes lost or damaged before the ring

Values == {"A", "V", "x"}
Pkgs == 1 .. MaxPkgs
Data == HeadLen + 1 .. Count      \* the bytes from data to the end of the package

ASSUME SizeAssumption == Size \in Nat \ {0, 1}
ASSUME PackageAssumption ==
  HeadLen \in Nat /\ HeadLen >= 2 /\ Count \in Nat /\ Count > HeadLen
ASSUME PayloadAssumption == Payloads \subseteq [Data -> Values]
ASSUME BoundAssumption == MaxPkgs \in Nat /\ MaxFaults \in Nat

VARIABLES
  pkg, pos, payload,      \* the host: the next byte it sends and the data of its package
  faults,                 \* bytes lost or damaged so far
  rx,                     \* the receive ring
  pc,                     \* get_pkg(): "out", at its "test", or in uart_"read"
  pre_last, last, start, count, g_pkg,
  accepted,               \* the last package that passed decode_pkg()'s checksum
  handed,                 \* history: how many did
  seen,                   \* history: the byte read last
  first,                  \* history: from this package on, all bytes were read undamaged
  noisy                   \* history: packages with a header in their data

host    == <<pkg, pos, payload, faults, noisy>>
framer  == <<pre_last, last, start, count, g_pkg>>
passed  == <<accepted, handed>>
vars == <<host, rx, pc, framer, passed, seen, first>>

Bytes == [pkg : 0 .. MaxPkgs, pos : 0 .. Count, val : Values, ok : BOOLEAN]
Zero == [pkg |-> 0, pos |-> 0, val |-> "x", ok |-> FALSE]

Ring == INSTANCE LossyRing WITH Items <- Bytes, q <- rx

-----------------------------------------------------------------------------
(* The host and the line. *)

Byte == [pkg |-> pkg, pos |-> pos, ok |-> TRUE,
         val |-> IF pos = 1 THEN "A" ELSE IF pos = 2 THEN "V"
                 ELSE IF pos <= HeadLen THEN "x" ELSE payload[pos]]

(* A header inside the data of a package. *)
HasHeader(d) == \E k \in Data : k < Count /\ d[k] = "A" /\ d[k + 1] = "V"

(* The host sends the bytes of its packages one after the other. *)
NextByte ==
  /\ pkg <= MaxPkgs
  /\ IF pos < Count
     THEN pos' = pos + 1 /\ UNCHANGED <<pkg, payload, noisy>>
     ELSE /\ pos' = 1 /\ pkg' = pkg + 1 /\ payload' \in Payloads
          /\ noisy' = IF HasHeader(payload') THEN noisy \cup {pkg'} ELSE noisy

Arrive ==
  /\ NextByte /\ Ring!Put(Byte)
  /\ UNCHANGED <<faults, pc, framer, passed, seen, first>>

Lose ==
  /\ faults < MaxFaults /\ faults' = faults + 1 /\ NextByte
  /\ UNCHANGED <<rx, pc, framer, passed, seen, first>>

Damage ==
  /\ faults < MaxFaults /\ faults' = faults + 1 /\ NextByte
  /\ \E v \in Values \ {Byte.val} : Ring!Put([Byte EXCEPT !.val = v, !.ok = FALSE])
  /\ UNCHANGED <<pc, framer, passed, seen, first>>

-----------------------------------------------------------------------------
(* get_pkg(), called again and again by the main loop. *)

Call_Fresh ==
  /\ pc = "out" /\ pc' = "test" /\ pre_last' = Zero /\ last' = Zero
  /\ UNCHANGED <<host, rx, start, count, g_pkg, passed, seen, first>>

Call ==
  /\ pc = "out" /\ pc' = "test"
  /\ UNCHANGED <<host, rx, framer, passed, seen, first>>

(* It returns when the ring is empty, but not in the middle of a package. *)
Leave ==
  /\ pc = "test" /\ rx = <<>> /\ ~start /\ pc' = "out"
  /\ UNCHANGED <<host, rx, framer, passed, seen, first>>

Enter ==
  /\ pc = "test" /\ (rx # <<>> \/ start) /\ pc' = "read"
  /\ UNCHANGED <<host, rx, framer, passed, seen, first>>

(* The test of the checksum, of which TYPE, IDX and CNT are no part. *)
Matches(p) == \A k \in Data : p[k].ok /\ p[k].pos = k /\ p[k].pkg = p[Count].pkg

(* What is left of the search once a package is complete. *)
Restart_KeepCount ==
  pre_last' = Zero /\ last' = Zero /\ start' = FALSE /\ count' = Count
Restart == pre_last' = Zero /\ last' = Zero /\ start' = FALSE /\ count' = 2

(* History: the bytes read without a gap or a damage begin with package first. *)
Continues(b) ==
  /\ b.ok /\ first <= MaxPkgs
  /\ \/ b.pkg = seen.pkg /\ b.pos = seen.pos + 1
     \/ b.pkg = seen.pkg + 1 /\ b.pos = 1 /\ seen.pos = Count

Follow(b) ==
  /\ seen' = b
  /\ first' = IF Continues(b) THEN first ELSE IF b.ok /\ b.pos = 1 THEN b.pkg ELSE MaxPkgs + 1

(* One turn of the loop: uart_read(), which waits while the ring is empty, and what is
   done with the byte.  The last byte of a package whose checksum fails makes get_pkg()
   return; the others go on with the loop. *)
Read ==
  /\ pc = "read" /\ Ring!Get /\ Follow(Head(rx))
  /\ LET b == Head(rx)
         p == IF start THEN [g_pkg EXCEPT ![count + 1] = b] ELSE g_pkg
         n == IF start THEN count + 1 ELSE count
     IN IF n = Count
        THEN /\ g_pkg' = p /\ Restart
             /\ IF Matches(p) THEN accepted' = p[Count].pkg /\ handed' = handed + 1 /\ pc' = "test"
                              ELSE UNCHANGED passed /\ pc' = "out"
        ELSE /\ pre_last' = last /\ last' = b /\ pc' = "test" /\ UNCHANGED passed
             /\ IF last.val = "A" /\ b.val = "V" /\ ~start
                THEN g_pkg' = [p EXCEPT ![1] = last, ![2] = b] /\ start' = TRUE /\ count' = 2
                ELSE g_pkg' = p /\ count' = n /\ UNCHANGED start
  /\ UNCHANGED host

-----------------------------------------------------------------------------
Init ==
  /\ pkg = 1 /\ pos = 1 /\ payload \in Payloads /\ faults = 0
  /\ rx = <<>> /\ pc = "out"
  /\ pre_last = Zero /\ last = Zero /\ start = FALSE /\ count = 2
  /\ g_pkg = [k \in 1 .. Count |-> Zero]
  /\ accepted = 0 /\ handed = 0 /\ seen = Zero /\ first = MaxPkgs + 1
  /\ noisy = IF HasHeader(payload) THEN {1} ELSE {}

Next == Arrive \/ Lose \/ Damage \/ Call \/ Leave \/ Enter \/ Read

Spec == Init /\ [][Next]_vars

-----------------------------------------------------------------------------
TypeOK ==
  /\ pkg \in 1 .. MaxPkgs + 1 /\ pos \in 1 .. Count /\ payload \in Payloads
  /\ faults \in 0 .. MaxFaults /\ noisy \subseteq 1 .. MaxPkgs + 1
  /\ rx \in Seq(Bytes) /\ Len(rx) < Size /\ pc \in {"out", "test", "read"}
  /\ pre_last \in Bytes /\ last \in Bytes /\ start \in BOOLEAN
  /\ count \in 2 .. Count - 1 /\ g_pkg \in [1 .. Count -> Bytes]
  /\ accepted \in 0 .. MaxPkgs /\ handed \in Nat /\ seen \in Bytes /\ first \in 1 .. MaxPkgs + 1

(* decode_pkg() gets packages of the host in their order and none twice, whatever is
   lost, and although g_pkg still holds the former package while it is refilled. *)
InOrderOnce == INSTANCE PkgChannel
Channel == InOrderOnce!Spec

(* A package that is read whole is accepted when the one before it was accepted, or was
   read whole and has no header in its data. *)
Locks ==
  \A p \in Pkgs :
    (/\ pc = "read" /\ seen' # seen /\ seen'.pkg = p /\ seen'.pos = Count /\ first' <= p
     /\ \/ p = 1 \/ accepted = p - 1
        \/ first' < p /\ (p - 1) \notin noisy)
    => accepted' = p

(* A fault costs its package and at most the next one, unless that one has a header in
   its data: by then get_pkg() is searching again, wherever its calls begin and end. *)
LocksOn == [][Locks]_vars
===============================================================================
