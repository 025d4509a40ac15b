--------------------------- MODULE PkgFramerProofs ---------------------------
(***************************************************************************)
(* Theorems of PkgFramer, for every size of the ring, length of a package,  *)
(* set of payloads and number of packages and faults: get_pkg() implements  *)
(* PkgChannel, because what is in the ring is always a later part of the    *)
(* line than what was read before.                                          *)
(***************************************************************************)
EXTENDS PkgFramer, TLAPS

(* The bytes of a package are numbered from 1, and there are some of data. *)
LEMMA Sizes ==
  /\ Size \in Nat /\ Size >= 2
  /\ Count \in Nat /\ HeadLen \in Nat /\ Count > HeadLen /\ HeadLen >= 2
  /\ MaxPkgs \in Nat /\ MaxFaults \in Nat
BY SizeAssumption, PackageAssumption, BoundAssumption

(* The byte the host sends next. *)
LEMMA ByteType ==
  ASSUME TypeOK, pkg <= MaxPkgs
  PROVE  Byte \in Bytes
<1>1. payload \in [Data -> Values]
  BY PayloadAssumption DEF TypeOK
<1>2. Byte.val \in Values
  <2>1. CASE pos > HeadLen
    <3>1. pos \in Data
      BY <2>1, Sizes DEF TypeOK, Data
    <3> QED
      BY <1>1, <2>1, <3>1, Sizes DEF Byte, Values, TypeOK
  <2>2. CASE pos <= HeadLen
    BY <2>2, Sizes DEF Byte, Values, TypeOK
  <2> QED
    BY <2>1, <2>2, Sizes DEF TypeOK
<1> QED
  BY <1>2, Sizes DEF Byte, Bytes, TypeOK

(* What is put into a ring of bytes leaves it one, shorter than its size. *)
LEMMA PutType ==
  ASSUME rx \in Seq(Bytes), Len(rx) < Size, NEW b \in Bytes, Ring!Put(b)
  PROVE  rx' \in Seq(Bytes) /\ Len(rx') < Size
<1>1. CASE Len(rx) + 1 = Size
  BY <1>1, Sizes DEF Ring!Put
<1>2. CASE Len(rx) + 1 # Size
  BY <1>2, Sizes DEF Ring!Put
<1> QED
  BY <1>1, <1>2

(* Zero is a byte. *)
LEMMA ZeroType == Zero \in Bytes
BY Sizes DEF Zero, Bytes, Values

(* Taking from the ring gives one of its bytes and leaves the others. *)
LEMMA GetType ==
  ASSUME rx \in Seq(Bytes), Len(rx) < Size, Ring!Get
  PROVE  /\ Head(rx) \in Bytes /\ rx' \in Seq(Bytes) /\ Len(rx') < Size
BY Sizes DEF Ring!Get

(* The host sends bytes of its packages only. *)
LEMMA HostStep ==
  ASSUME TypeOK, NextByte
  PROVE  /\ pkg' \in 1 .. MaxPkgs + 1 /\ pos' \in 1 .. Count /\ payload' \in Payloads
         /\ noisy' \subseteq 1 .. MaxPkgs + 1
<1>1. CASE pos < Count
  <2>1. pos' = pos + 1 /\ pkg' = pkg /\ payload' = payload /\ noisy' = noisy
    BY <1>1 DEF NextByte
  <2>2. pos' \in 1 .. Count
    BY <1>1, <2>1, Sizes DEF TypeOK
  <2> QED
    BY <2>1, <2>2 DEF TypeOK
<1>2. CASE ~(pos < Count)
  <2>1. pkg' \in 1 .. MaxPkgs + 1 /\ pos' \in 1 .. Count /\ payload' \in Payloads
    BY <1>2, Sizes DEF TypeOK, NextByte
  <2>2. noisy' = noisy \cup {pkg'} \/ noisy' = noisy
    BY <1>2 DEF NextByte
  <2> QED
    BY <2>1, <2>2 DEF TypeOK
<1> QED
  BY <1>1, <1>2

-----------------------------------------------------------------------------
(* Type correctness.  first is the number of a package because the bytes in the ring are
   all of some package. *)

TypeInv == TypeOK /\ \A n \in 1 .. Len(rx) : rx[n].pkg >= 1

(* A byte put into the ring is the last one there, or the ring is empty. *)
LEMMA PutKeeps ==
  ASSUME rx \in Seq(Bytes), NEW b \in Bytes, Ring!Put(b), NEW n \in 1 .. Len(rx')
  PROVE  \/ rx'[n] = b /\ n = Len(rx) + 1
         \/ n \in 1 .. Len(rx) /\ rx'[n] = rx[n]
<1>1. CASE Len(rx) + 1 = Size
  BY <1>1 DEF Ring!Put
<1>2. CASE Len(rx) + 1 # Size
  BY <1>2 DEF Ring!Put
<1> QED
  BY <1>1, <1>2

(* What is left when a byte is taken was there before. *)
LEMMA GetKeeps ==
  ASSUME rx \in Seq(Bytes), Ring!Get
  PROVE  /\ 1 \in 1 .. Len(rx) /\ Head(rx) = rx[1] /\ Len(rx') = Len(rx) - 1
         /\ \A n \in 1 .. Len(rx') : n + 1 \in 1 .. Len(rx) /\ rx'[n] = rx[n + 1]
BY DEF Ring!Get

(* Every step keeps the types. *)
LEMMA TypeStep ==
  ASSUME TypeInv, [Next]_vars
  PROVE  TypeInv'
<1> USE DEF TypeInv
<1>1. CASE Arrive
  <2>1. Byte \in Bytes /\ Byte.pkg >= 1 /\ Ring!Put(Byte) /\ rx \in Seq(Bytes)
    BY <1>1, ByteType, Sizes DEF Arrive, NextByte, TypeOK, Byte
  <2>2. rx' \in Seq(Bytes) /\ Len(rx') < Size
    BY <2>1, PutType DEF TypeOK
  <2>3. \A n \in 1 .. Len(rx') : rx'[n].pkg >= 1
    BY <2>1, PutKeeps
  <2> QED
    BY <1>1, <2>2, <2>3, HostStep DEF Arrive, TypeOK, framer, passed
<1>2. CASE Lose
  BY <1>2, HostStep, Sizes DEF Lose, TypeOK, framer, passed
<1>3. CASE Damage
  <2>1. PICK v \in Values \ {Byte.val} : Ring!Put([Byte EXCEPT !.val = v, !.ok = FALSE])
    BY <1>3 DEF Damage
  <2> DEFINE b == [Byte EXCEPT !.val = v, !.ok = FALSE]
  <2>2. Byte \in Bytes /\ Byte.pkg >= 1
    BY <1>3, ByteType, Sizes DEF Damage, NextByte, TypeOK, Byte
  <2>3. b \in Bytes /\ b.pkg >= 1
    BY <2>2 DEF Bytes
  <2>4. rx' \in Seq(Bytes) /\ Len(rx') < Size /\ \A n \in 1 .. Len(rx') : rx'[n].pkg >= 1
    <3> HIDE DEF b
    <3>1. Ring!Put(b) /\ rx \in Seq(Bytes) /\ Len(rx) < Size
      BY <2>1 DEF b, TypeOK
    <3> QED
      BY <2>3, <3>1, PutType, PutKeeps
  <2>5. faults' \in 0 .. MaxFaults
    BY <1>3, Sizes DEF Damage, TypeOK
  <2> QED
    BY <1>3, <2>4, <2>5, HostStep DEF Damage, TypeOK, framer, passed
<1>4. CASE Call \/ Leave \/ Enter
  BY <1>4 DEF Call, Leave, Enter, TypeOK, host, framer, passed
<1>5. CASE Read
  <2> DEFINE b == Head(rx)
             p == IF start THEN [g_pkg EXCEPT ![count + 1] = b] ELSE g_pkg
             n == IF start THEN count + 1 ELSE count
  <2>1. b \in Bytes /\ b.pkg >= 1 /\ rx' \in Seq(Bytes) /\ Len(rx') < Size
        /\ \A k \in 1 .. Len(rx') : rx'[k].pkg >= 1
    BY <1>5, GetType, GetKeeps DEF Read, TypeOK
  <2>2. p \in [1 .. Count -> Bytes] /\ n \in 2 .. Count /\ 1 \in 1 .. Count /\ 2 \in 1 .. Count
    BY <2>1, Sizes DEF TypeOK
  <2>3. seen' \in Bytes /\ first' \in 1 .. MaxPkgs + 1
    <3>1. b.pkg \in 1 .. MaxPkgs
      BY <2>1, Sizes DEF Bytes
    <3> QED
      BY <1>5, <2>1, <3>1, Sizes DEF Read, Follow, TypeOK
  <2> HIDE DEF b, p, n
  <2>4. pre_last' \in Bytes /\ last' \in Bytes /\ start' \in BOOLEAN /\ pc' \in {"out", "test", "read"}
    BY <1>5, <2>1, ZeroType DEF Read, Restart, TypeOK, b, p, n
  <2>5. count' \in 2 .. Count - 1
    BY <1>5, <2>2, Sizes DEF Read, Restart, TypeOK, b, p, n
  <2>6. g_pkg' \in [1 .. Count -> Bytes]
    <3>1. last \in Bytes
      BY DEF TypeOK
    <3>2. g_pkg' = p \/ g_pkg' = [p EXCEPT ![1] = last, ![2] = b]
      BY <1>5 DEF Read, b, p, n
    <3> QED
      BY <2>1, <2>2, <3>1, <3>2
  <2>7. accepted' \in 0 .. MaxPkgs /\ handed' \in Nat
    <3>1. p[Count].pkg \in 0 .. MaxPkgs
      BY <2>2, Sizes DEF Bytes
    <3>2. \/ accepted' = p[Count].pkg /\ handed' = handed + 1
          \/ UNCHANGED passed
      BY <1>5 DEF Read, b, p, n
    <3> QED
      BY <3>1, <3>2 DEF TypeOK, passed
  <2> QED
    BY <1>5, <2>1, <2>3, <2>4, <2>5, <2>6, <2>7 DEF Read, TypeOK, host
<1>6. CASE UNCHANGED vars
  BY <1>6 DEF vars, host, framer, passed, TypeOK
<1> QED
  BY <1>1, <1>2, <1>3, <1>4, <1>5, <1>6 DEF Next

(* In the beginning nothing has been sent. *)
LEMMA TypeInit ==
  ASSUME Init
  PROVE  TypeInv
<1>1. rx = <<>> /\ rx \in Seq(Bytes) /\ Len(rx) < Size
  BY Sizes DEF Init
<1>2. g_pkg \in [1 .. Count -> Bytes]
  BY ZeroType DEF Init
<1>3. start \in BOOLEAN /\ pc \in {"out", "test", "read"}
  BY DEF Init
<1>4. noisy \subseteq 1 .. MaxPkgs + 1
  BY Sizes DEF Init
<1> QED
  BY <1>1, <1>2, <1>3, <1>4, ZeroType, Sizes DEF Init, TypeInv, TypeOK

(* Every variable keeps its type. *)
THEOREM TypeCorrect == Spec => []TypeOK
<1>1. TypeInv /\ [Next]_vars => TypeInv'
  BY TypeStep
<1>2. TypeInv => TypeOK
  BY DEF TypeInv
<1> QED
  BY TypeInit, <1>1, <1>2, PTL DEF Spec
-----------------------------------------------------------------------------
(* The refinement.  The line is never read backwards: what was read, what is in the ring
   and what the host sends next are in the order of the line, whatever got lost. *)

Before(a, b) == a.pkg < b.pkg \/ (a.pkg = b.pkg /\ a.pos < b.pos)
Cursor == [pkg |-> pkg, pos |-> pos]

Ordered ==
  /\ Before(seen, Cursor)
  /\ \A n \in 1 .. Len(rx) : Before(seen, rx[n]) /\ Before(rx[n], Cursor)
  /\ \A m, n \in 1 .. Len(rx) : m < n => Before(rx[m], rx[n])

(* The package accepted last was complete with the byte read last, or is behind it. *)
Behind == accepted > 0 => accepted < seen.pkg \/ (accepted = seen.pkg /\ seen.pos = Count)

OrderInv == TypeInv /\ Ordered /\ Behind

Places == [pkg : Int, pos : Int]
HasPlace(a) == a.pkg \in Int /\ a.pos \in Int

(* The order of the line is transitive. *)
LEMMA BeforeTrans ==
  ASSUME NEW a, NEW b, NEW c, HasPlace(a), HasPlace(b), HasPlace(c), Before(a, b), Before(b, c)
  PROVE  Before(a, c)
BY DEF HasPlace, Before

(* The host goes on along the line. *)
LEMMA CursorMoves ==
  ASSUME TypeInv, NextByte
  PROVE  Before(Cursor, Cursor') /\ HasPlace(Cursor) /\ HasPlace(Cursor')
<1>1. CASE pos < Count
  <2>1. pos' = pos + 1 /\ pkg' = pkg
    BY <1>1 DEF NextByte
  <2> QED
    BY <2>1 DEF TypeInv, TypeOK, Before, Cursor, HasPlace
<1>2. CASE ~(pos < Count)
  BY <1>2 DEF NextByte, TypeInv, TypeOK, Before, Cursor, HasPlace
<1> QED
  BY <1>1, <1>2

(* Bytes have a place. *)
LEMMA BytesHavePlace ==
  ASSUME NEW b \in Bytes
  PROVE  HasPlace(b)
BY Sizes DEF Bytes, HasPlace

(* Sending a byte, or losing it, keeps the order. *)
LEMMA SendOrdered ==
  ASSUME OrderInv, NextByte, seen' = seen, rx' \in Seq(Bytes),
         \/ rx' = rx
         \/ \E b \in Bytes : b.pkg = pkg /\ b.pos = pos /\ Ring!Put(b)
  PROVE  Ordered'
<1>1. Before(Cursor, Cursor') /\ HasPlace(Cursor) /\ HasPlace(Cursor') /\ HasPlace(seen)
  BY CursorMoves, BytesHavePlace DEF OrderInv, TypeInv, TypeOK
<1>2. Before(seen', Cursor')
  BY <1>1, BeforeTrans DEF OrderInv, Ordered
<1>3. \A n \in 1 .. Len(rx) : rx[n] \in Bytes /\ HasPlace(rx[n])
  BY BytesHavePlace DEF OrderInv, TypeInv, TypeOK
<1>4. \A n \in 1 .. Len(rx) : Before(rx[n], Cursor) /\ Before(rx[n], Cursor') /\ Before(seen, rx[n])
  BY <1>1, <1>3, BeforeTrans DEF OrderInv, Ordered
<1>5. CASE rx' = rx
  BY <1>2, <1>4, <1>5 DEF OrderInv, Ordered
<1>6. CASE \E b \in Bytes : b.pkg = pkg /\ b.pos = pos /\ Ring!Put(b)
  <2>1. PICK b \in Bytes : b.pkg = pkg /\ b.pos = pos /\ Ring!Put(b)
    BY <1>6
  <2>2. \A c : Before(c, b) <=> Before(c, Cursor)
    BY <2>1 DEF Before, Cursor
  <2>3. Before(b, Cursor') /\ Before(seen, b)
    BY <1>1, <2>1, <2>2 DEF Before, Cursor, OrderInv, Ordered
  <2>4. \A n \in 1 .. Len(rx') : \/ rx'[n] = b /\ n = Len(rx) + 1
                                 \/ n \in 1 .. Len(rx) /\ rx'[n] = rx[n]
    BY <2>1, PutKeeps DEF OrderInv, TypeInv, TypeOK
  <2>5. \A n \in 1 .. Len(rx') : Before(seen', rx'[n]) /\ Before(rx'[n], Cursor')
    BY <1>4, <2>3, <2>4
  <2>6. \A m, n \in 1 .. Len(rx') : m < n => Before(rx'[m], rx'[n])
    <3> SUFFICES ASSUME NEW m \in 1 .. Len(rx'), NEW n \in 1 .. Len(rx'), m < n
                 PROVE  Before(rx'[m], rx'[n])
      OBVIOUS
    <3>1. m \in 1 .. Len(rx) /\ rx'[m] = rx[m] /\ Len(rx) \in Nat
      BY <2>4 DEF OrderInv, TypeInv, TypeOK
    <3>2. CASE rx'[n] = b
      BY <1>4, <2>2, <3>1, <3>2
    <3>3. CASE n \in 1 .. Len(rx) /\ rx'[n] = rx[n]
      BY <3>1, <3>3 DEF OrderInv, Ordered
    <3> QED
      BY <2>4, <3>2, <3>3
  <2> QED
    BY <1>2, <2>5, <2>6 DEF Ordered
<1> QED
  BY <1>5, <1>6

(* What get_pkg() does with a byte, and what becomes of it as a package. *)
LEMMA ReadOrdered ==
  ASSUME OrderInv, Read
  PROVE  /\ Ordered' /\ Behind'
         /\ \/ accepted' \in Pkgs /\ accepted' > accepted /\ handed' = handed + 1
            \/ accepted' = accepted /\ handed' = handed
<1> DEFINE b == Head(rx)
           p == IF start THEN [g_pkg EXCEPT ![count + 1] = b] ELSE g_pkg
           n == IF start THEN count + 1 ELSE count
<1>1. /\ b \in Bytes /\ 1 \in 1 .. Len(rx) /\ b = rx[1] /\ Len(rx) \in Nat /\ rx' \in Seq(Bytes)
      /\ Len(rx') = Len(rx) - 1
      /\ \A m \in 1 .. Len(rx') : m + 1 \in 1 .. Len(rx) /\ rx'[m] = rx[m + 1]
  BY GetType, GetKeeps DEF Read, OrderInv, TypeInv, TypeOK
<1>2. b.pkg \in 1 .. MaxPkgs /\ b.pos \in 0 .. Count /\ seen.pkg \in 0 .. MaxPkgs /\ seen.pos \in 0 .. Count
  <2>1. b.pkg >= 1
    BY <1>1 DEF OrderInv, TypeInv
  <2> QED
    BY <1>1, <2>1, Sizes DEF Bytes, OrderInv, TypeInv, TypeOK
<1>3. Before(seen, b) /\ seen' = b /\ Cursor' = Cursor
  BY <1>1 DEF Read, Follow, host, Cursor, OrderInv, Ordered
<1>4. Ordered'
  <2>1. Before(seen', Cursor')
    BY <1>1, <1>3 DEF OrderInv, Ordered
  <2>2. \A m \in 1 .. Len(rx') : Before(seen', rx'[m]) /\ Before(rx'[m], Cursor')
    <3> TAKE m \in 1 .. Len(rx')
    <3>1. m + 1 \in 1 .. Len(rx) /\ rx'[m] = rx[m + 1] /\ 1 < m + 1
      BY <1>1
    <3> QED
      BY <1>1, <1>3, <3>1 DEF OrderInv, Ordered
  <2>3. \A m, k \in 1 .. Len(rx') : m < k => Before(rx'[m], rx'[k])
    <3> SUFFICES ASSUME NEW m \in 1 .. Len(rx'), NEW k \in 1 .. Len(rx'), m < k
                 PROVE  Before(rx'[m], rx'[k])
      OBVIOUS
    <3>1. /\ m + 1 \in 1 .. Len(rx) /\ rx'[m] = rx[m + 1]
          /\ k + 1 \in 1 .. Len(rx) /\ rx'[k] = rx[k + 1] /\ m + 1 < k + 1
      BY <1>1
    <3> QED
      BY <3>1 DEF OrderInv, Ordered
  <2> QED
    BY <2>1, <2>2, <2>3 DEF Ordered
<1> HIDE DEF b, p, n
<1>5. CASE n = Count /\ Matches(p)
  <2>1. start /\ count + 1 = Count /\ p = [g_pkg EXCEPT ![count + 1] = b] /\ g_pkg \in [1 .. Count -> Bytes]
    BY <1>5, Sizes DEF n, p, OrderInv, TypeInv, TypeOK
  <2>2. p[Count] = b
    BY <2>1, Sizes
  <2>3. b.pos = Count
    BY <1>5, <2>2, Sizes DEF Matches, Data
  <2>4. accepted' = b.pkg /\ handed' = handed + 1
    BY <1>5, <2>2 DEF Read, b, p, n
  <2>5. accepted \in Nat /\ (accepted > 0 => accepted < b.pkg)
    BY <1>2, <1>3, <2>3, Sizes DEF OrderInv, TypeInv, TypeOK, Behind, Before
  <2> QED
    BY <1>2, <1>3, <1>4, <2>3, <2>4, <2>5 DEF Behind, Pkgs
<1>6. CASE ~(n = Count /\ Matches(p))
  <2>1. accepted' = accepted /\ handed' = handed
    BY <1>6 DEF Read, passed, b, p, n
  <2>2. accepted > 0 => accepted < b.pkg \/ (accepted = b.pkg /\ b.pos = Count)
    BY <1>2, <1>3, Sizes DEF OrderInv, TypeInv, TypeOK, Behind, Before
  <2> QED
    BY <1>3, <1>4, <2>1, <2>2 DEF Behind
<1> QED
  BY <1>5, <1>6

(* Every step keeps the order and hands over at most one package, a later one. *)
LEMMA OrderStep ==
  ASSUME OrderInv, [Next]_vars
  PROVE  /\ OrderInv'
         /\ \/ accepted' \in Pkgs /\ accepted' > accepted /\ handed' = handed + 1
            \/ accepted' = accepted /\ handed' = handed
<1>1. TypeInv'
  BY TypeStep DEF OrderInv
<1>2. CASE Arrive \/ Lose \/ Damage
  <2>1. seen' = seen /\ accepted' = accepted /\ handed' = handed /\ NextByte
    BY <1>2 DEF Arrive, Lose, Damage, passed
  <2>2. rx' \in Seq(Bytes)
    BY <1>1 DEF TypeInv, TypeOK
  <2>3. Byte \in Bytes /\ Byte.pkg = pkg /\ Byte.pos = pos
    BY <2>1, ByteType DEF OrderInv, TypeInv, NextByte, Byte
  <2>4. CASE Arrive
    BY <2>1, <2>2, <2>3, <2>4, SendOrdered, <1>1 DEF Arrive, OrderInv, Behind
  <2>5. CASE Lose
    BY <2>1, <2>2, <2>5, SendOrdered, <1>1 DEF Lose, OrderInv, Behind
  <2>6. CASE Damage
    <3>1. PICK v \in Values \ {Byte.val} : Ring!Put([Byte EXCEPT !.val = v, !.ok = FALSE])
      BY <2>6 DEF Damage
    <3> DEFINE b == [Byte EXCEPT !.val = v, !.ok = FALSE]
    <3>2. b \in Bytes /\ b.pkg = pkg /\ b.pos = pos
      BY <2>3 DEF Bytes
    <3>3. Ring!Put(b)
      BY <3>1
    <3> HIDE DEF b
    <3> QED
      BY <1>1, <2>1, <2>2, <3>2, <3>3, SendOrdered DEF OrderInv, Behind
  <2> QED
    BY <1>2, <2>4, <2>5, <2>6
<1>3. CASE Call \/ Leave \/ Enter \/ UNCHANGED vars
  BY <1>1, <1>3 DEF Call, Leave, Enter, vars, host, passed, OrderInv, Ordered, Behind, Before, Cursor
<1>4. CASE Read
  BY <1>1, <1>4, ReadOrdered DEF OrderInv
<1> QED
  BY <1>2, <1>3, <1>4 DEF Next

(* get_pkg() hands over packages of the host in their order and none twice, whatever the
   line loses or damages and however often the ring overflows. *)
THEOREM ChannelRefined == Spec => Channel
<1>1. Init => OrderInv
  <2> SUFFICES ASSUME Init PROVE OrderInv
    OBVIOUS
  <2>1. Len(rx) = 0 /\ accepted = 0 /\ seen.pkg = 0 /\ pkg = 1
    BY DEF Init, Zero
  <2> QED
    BY <2>1, TypeInit DEF OrderInv, Ordered, Behind, Before, Cursor
<1>2. OrderInv /\ [Next]_vars => OrderInv'
  BY OrderStep
<1>3. Init => InOrderOnce!Init
  BY DEF Init, InOrderOnce!Init
<1>4. OrderInv /\ [Next]_vars => [InOrderOnce!Next]_<<accepted, handed>>
  BY OrderStep DEF InOrderOnce!Next, InOrderOnce!Accept
<1> QED
  BY <1>1, <1>2, <1>3, <1>4, PTL DEF Spec, Channel, InOrderOnce!Spec
-----------------------------------------------------------------------------
(* Locking on to the packages.  What the bytes are that were not damaged, and that a
   header among the data of a package makes it noisy. *)

Around == {seen} \cup {rx[n] : n \in 1 .. Len(rx)}

Genuine(b) ==
  b.ok => /\ b.pkg >= 1
          /\ b.pos = 1 => b.val = "A"
          /\ b.pos = 2 => b.val = "V"
          /\ b.pos \in 3 .. HeadLen => b.val = "x"
          /\ b.pkg = pkg /\ b.pos \in Data => b.val = payload[b.pos]

HeaderAt(a, b) ==
  a.ok /\ b.ok /\ a.pkg = b.pkg /\ b.pos = a.pos + 1 /\ a.pos \in Data
       /\ a.val = "A" /\ b.val = "V"

Faithful ==
  /\ \A b \in Around : Genuine(b) /\ (b.pkg >= 1 => b.pos >= 1)
  /\ \A a, b \in Around : HeaderAt(a, b) => a.pkg \in noisy
  /\ HasHeader(payload) => pkg \in noisy

(* Everything around is a byte that is behind the cursor of the host. *)
LEMMA AroundBytes ==
  ASSUME OrderInv, NEW b \in Around
  PROVE  b \in Bytes /\ HasPlace(b) /\ Before(b, Cursor)
BY BytesHavePlace DEF Around, OrderInv, TypeInv, TypeOK, Ordered

(* Sending a byte keeps that. *)
LEMMA SendFaithful ==
  ASSUME OrderInv, Faithful, NextByte, NEW s \in Bytes,
         s.pkg = pkg, s.pos = pos, s = Byte \/ ~s.ok,
         Around' \subseteq Around \cup {s}
  PROVE  Faithful'
<1>1. pkg \in Nat /\ pos \in Nat /\ pkg >= 1 /\ pos >= 1 /\ payload \in [Data -> Values]
  BY PayloadAssumption, Sizes DEF OrderInv, TypeInv, TypeOK
<1>2. Genuine(s)
  BY <1>1, Sizes DEF Genuine, Byte, Data
<1>3. \A b \in Around \cup {s} : b.pkg >= 1 => b.pos >= 1
  BY <1>1 DEF Faithful
<1>4. \A b \in Around \cup {s} : b.pkg \in Int /\ b.pos \in Int /\ b.pkg <= pkg
  BY <1>1, AroundBytes DEF HasPlace, Before, Cursor
<1>5. \/ pkg' = pkg /\ payload' = payload /\ noisy' = noisy
      \/ /\ pkg' = pkg + 1 /\ noisy \subseteq noisy'
         /\ (HasHeader(payload') => pkg' \in noisy')
  BY DEF NextByte
<1>6. \A b \in Around \cup {s} : Genuine(b)'
  <2> TAKE b \in Around \cup {s}
  <2>1. Genuine(b)
    BY <1>2 DEF Faithful
  <2> QED
    BY <1>1, <1>4, <1>5, <2>1 DEF Genuine
<1>7. HasHeader(payload') => pkg' \in noisy'
  BY <1>5 DEF Faithful
<1>8. \A a, b \in Around \cup {s} : HeaderAt(a, b) => a.pkg \in noisy'
  <2> SUFFICES ASSUME NEW a \in Around \cup {s}, NEW b \in Around \cup {s}, HeaderAt(a, b)
               PROVE  a.pkg \in noisy
    BY <1>5
  <2>1. CASE a \in Around /\ b \in Around
    BY <2>1 DEF Faithful
  <2>2. CASE a \in Around /\ b = s
    <3>1. s = Byte /\ a.pkg = pkg /\ pos = a.pos + 1 /\ a.pos \in Data /\ a.val = "A" /\ s.val = "V"
      BY <2>2 DEF HeaderAt
    <3>2. a.val = payload[a.pos]
      BY <2>2, <3>1 DEF Faithful, Genuine, HeaderAt
    <3>3. pos \in Data /\ a.pos < Count /\ a.pos \in Int
      BY <1>4, <2>2, <3>1, Sizes DEF Data, OrderInv, TypeInv, TypeOK
    <3>4. s.val = payload[pos]
      BY <1>2, <3>1, <3>3, <2>2 DEF Genuine, HeaderAt
    <3>5. HasHeader(payload)
      BY <3>1, <3>2, <3>3, <3>4 DEF HasHeader
    <3> QED
      BY <3>1, <3>5 DEF Faithful
  <2>3. CASE a = s
    <3>1. b.pkg = pkg /\ b.pos = pos + 1
      BY <2>3 DEF HeaderAt
    <3>2. b # s
      BY <1>1, <3>1
    <3>3. Before(b, Cursor)
      BY <3>2, AroundBytes
    <3> QED
      BY <1>1, <3>1, <3>3 DEF Before, Cursor
  <2> QED
    BY <2>1, <2>2, <2>3
<1> QED
  BY <1>3, <1>6, <1>7, <1>8 DEF Faithful

(* Every step keeps that. *)
LEMMA FaithStep ==
  ASSUME OrderInv, Faithful, [Next]_vars
  PROVE  Faithful'
<1>1. CASE Arrive \/ Lose \/ Damage
  <2>1. NextByte /\ seen' = seen /\ rx \in Seq(Bytes)
    BY <1>1 DEF Arrive, Lose, Damage, OrderInv, TypeInv, TypeOK
  <2>2. Byte \in Bytes /\ Byte.pkg = pkg /\ Byte.pos = pos
    BY <2>1, ByteType DEF OrderInv, TypeInv, NextByte, Byte
  <2>3. ASSUME NEW b \in Bytes, Ring!Put(b)
        PROVE  Around' \subseteq Around \cup {b}
    <3>1. \A n \in 1 .. Len(rx') : rx'[n] = b \/ (n \in 1 .. Len(rx) /\ rx'[n] = rx[n])
      BY <2>1, <2>3, PutKeeps
    <3> QED
      BY <2>1, <3>1 DEF Around
  <2>4. CASE Arrive
    <3>1. Ring!Put(Byte)
      BY <2>4 DEF Arrive
    <3>2. Around' \subseteq Around \cup {Byte}
      BY <2>2, <2>3, <3>1
    <3> QED
      BY <2>1, <2>2, <3>2, SendFaithful
  <2>5. CASE Lose
    <3>1. Around' = Around
      BY <2>5 DEF Lose, Around
    <3> QED
      BY <2>1, <2>2, <3>1, SendFaithful
  <2>6. CASE Damage
    <3>1. PICK v \in Values \ {Byte.val} : Ring!Put([Byte EXCEPT !.val = v, !.ok = FALSE])
      BY <2>6 DEF Damage
    <3> DEFINE b == [Byte EXCEPT !.val = v, !.ok = FALSE]
    <3>2. b \in Bytes /\ b.pkg = pkg /\ b.pos = pos /\ ~b.ok
      BY <2>2 DEF Bytes
    <3>3. Ring!Put(b)
      BY <3>1
    <3> HIDE DEF b
    <3>4. Around' \subseteq Around \cup {b}
      BY <2>3, <3>2, <3>3
    <3> QED
      BY <2>1, <3>2, <3>4, SendFaithful
  <2> QED
    BY <1>1, <2>4, <2>5, <2>6
<1>2. CASE Call \/ Leave \/ Enter \/ UNCHANGED vars
  BY <1>2 DEF Call, Leave, Enter, vars, host, Faithful, Around, Genuine
<1>3. CASE Read
  <2>1. UNCHANGED host /\ seen' = Head(rx)
    BY <1>3 DEF Read, Follow
  <2>2. Around' \subseteq Around
    <3>1. /\ 1 \in 1 .. Len(rx) /\ Head(rx) = rx[1]
          /\ \A n \in 1 .. Len(rx') : n + 1 \in 1 .. Len(rx) /\ rx'[n] = rx[n + 1]
      BY <1>3, GetKeeps DEF Read, OrderInv, TypeInv, TypeOK
    <3> QED
      BY <2>1, <3>1 DEF Around
  <2> QED
    BY <2>1, <2>2 DEF host, Faithful, Genuine
<1> QED
  BY <1>1, <1>2, <1>3 DEF Next
-----------------------------------------------------------------------------
(* Where get_pkg() is in its search while it reads packages without a gap: with the
   package it reads; in a false package that will end within this one; past a header it
   has missed; or in a false package that began in this one, which is noisy then. *)

InRun == first <= MaxPkgs

OnTrack ==
  /\ seen.pos = 1 => ~start /\ last = seen
  /\ 1 < seen.pos /\ seen.pos < Count =>
       /\ start /\ count = seen.pos
       /\ \A j \in 1 .. Count :
            j <= seen.pos => g_pkg[j].ok /\ g_pkg[j].pos = j /\ g_pkg[j].pkg = seen.pkg
  /\ seen.pos = Count => ~start

Late   == start /\ count >= seen.pos + 2
Missed == ~start /\ (last = Zero \/ last = seen) /\ (seen.pos = 1 => last = Zero)
Strayed == seen.pkg \in noisy /\ seen.pos > HeadLen

Undisturbed ==
  \/ seen.pkg = 1
  \/ accepted = seen.pkg - 1
  \/ first < seen.pkg /\ seen.pkg - 1 \notin noisy

Search ==
  /\ seen.pkg = 0 \/ (accepted > 0 /\ accepted = seen.pkg) => ~start /\ last = Zero
  /\ InRun => seen.ok /\ first <= seen.pkg
  /\ InRun => OnTrack \/ Late \/ Missed \/ Strayed
  /\ InRun /\ Undisturbed /\ seen.pos < Count => OnTrack

TrackInv == OrderInv /\ Faithful /\ Search

(* One turn of the loop.  b is the byte it reads, p the package after it, n its count. *)
Turn(b, p, n) ==
  /\ b = Head(rx)
  /\ p = IF start THEN [g_pkg EXCEPT ![count + 1] = b] ELSE g_pkg
  /\ n = IF start THEN count + 1 ELSE count

(* A turn accepts at most the package its byte completes. *)
LEMMA TurnAccepts ==
  ASSUME TrackInv, Read, NEW b, NEW p, NEW n, Turn(b, p, n), accepted' # accepted
  PROVE  n = Count /\ Matches(p) /\ accepted' = b.pkg /\ b.pos = Count
<1>1. n = Count /\ Matches(p)
  BY DEF Turn, Read, passed
<1>2. start /\ count + 1 = Count /\ g_pkg \in [1 .. Count -> Bytes]
  BY <1>1, Sizes DEF Turn, TrackInv, OrderInv, TypeInv, TypeOK
<1>3. p[Count] = b
  BY <1>2, Sizes DEF Turn
<1>4. p[Count].pos = Count
  BY <1>1, Sizes DEF Matches, Data
<1>5. accepted' = p[Count].pkg
  BY <1>1 DEF Turn, Read
<1> QED
  BY <1>1, <1>3, <1>4, <1>5

(* The facts about a turn, with its cases apart. *)
LEMMA TurnCases ==
  ASSUME TrackInv, Read, NEW b, NEW p, NEW n, Turn(b, p, n)
  PROVE  /\ b \in Around /\ b \in Bytes /\ b.pkg \in 1 .. MaxPkgs /\ b.pos \in 1 .. Count
         /\ Before(seen, b) /\ Genuine(b) /\ seen' = b /\ UNCHANGED host
         /\ n \in 2 .. Count /\ (~start => n = count /\ n # Count)
         /\ n = Count => start' = FALSE /\ last' = Zero /\ count' = 2
         /\ n # Count =>
              /\ last' = b /\ accepted' = accepted
              /\ IF last.val = "A" /\ b.val = "V" /\ ~start
                 THEN start' = TRUE /\ count' = 2 /\ g_pkg' = [p EXCEPT ![1] = last, ![2] = b]
                 ELSE start' = start /\ count' = n /\ g_pkg' = p
<1>1. b \in Around /\ 1 \in 1 .. Len(rx) /\ b = rx[1] /\ Before(seen, b)
  BY GetKeeps DEF Read, Turn, Around, TrackInv, OrderInv, TypeInv, TypeOK, Ordered
<1>2. b \in Bytes /\ b.pkg >= 1
  BY <1>1, AroundBytes DEF TrackInv, OrderInv, TypeInv
<1>3. Genuine(b) /\ b.pos >= 1
  BY <1>1, <1>2 DEF TrackInv, Faithful
<1>4. b.pkg \in 1 .. MaxPkgs /\ b.pos \in 1 .. Count
  BY <1>2, <1>3, Sizes DEF Bytes
<1>5. seen' = b /\ UNCHANGED host
  BY DEF Read, Follow, Turn
<1>6. n \in 2 .. Count /\ (~start => n = count /\ n # Count)
  BY Sizes DEF Turn, TrackInv, OrderInv, TypeInv, TypeOK
<1>7. n = Count => start' = FALSE /\ last' = Zero /\ count' = 2
  BY DEF Turn, Read, Restart
<1>8. n # Count =>
        /\ last' = b /\ accepted' = accepted
        /\ IF last.val = "A" /\ b.val = "V" /\ ~start
           THEN start' = TRUE /\ count' = 2 /\ g_pkg' = [p EXCEPT ![1] = last, ![2] = b]
           ELSE start' = start /\ count' = n /\ g_pkg' = p
  BY DEF Turn, Read, passed
<1> QED
  BY <1>1, <1>2, <1>3, <1>4, <1>5, <1>6, <1>7, <1>8

(* The byte of a turn, by itself. *)
LEMMA TurnByte ==
  ASSUME TrackInv, Read, NEW b, NEW p, NEW n, Turn(b, p, n)
  PROVE  /\ b \in Bytes /\ b.pkg \in 1 .. MaxPkgs /\ b.pos \in 1 .. Count
         /\ Before(seen, b) /\ Genuine(b) /\ seen' = b /\ UNCHANGED host
BY TurnCases

(* A turn that completes a package. *)
LEMMA TurnEnds ==
  ASSUME TrackInv, Read, NEW b, NEW p, NEW n, Turn(b, p, n), n = Count
  PROVE  start /\ start' = FALSE /\ last' = Zero /\ count' = 2
BY TurnCases

(* A turn that finds the header of a package. *)
LEMMA TurnFinds ==
  ASSUME TrackInv, Read, NEW b, NEW p, NEW n, Turn(b, p, n),
         ~start, last.val = "A", b.val = "V"
  PROVE  start' = TRUE /\ count' = 2 /\ g_pkg' = [g_pkg EXCEPT ![1] = last, ![2] = b]
<1>1. n # Count
  BY TurnCases
<1>2. p = g_pkg
  BY DEF Turn
<1> QED
  BY <1>1, <1>2, TurnCases

(* Any other turn. *)
LEMMA TurnSkips ==
  ASSUME TrackInv, Read, NEW b, NEW p, NEW n, Turn(b, p, n),
         n # Count, start \/ last.val # "A" \/ b.val # "V"
  PROVE  start' = start /\ count' = n /\ g_pkg' = p /\ last' = b
<1>1. ~(last.val = "A" /\ b.val = "V" /\ ~start)
  OBVIOUS
<1>2. last' = b
  BY DEF Turn, Read
<1> QED
  BY <1>1, <1>2 DEF Turn, Read

(* The bytes of a package that goes on: what became of the search. *)
LEMMA GoesOn ==
  ASSUME TrackInv, Read, NEW b, NEW p, NEW n, Turn(b, p, n),
         InRun, Continues(b), b.pos = seen.pos + 1, b.pkg = seen.pkg
  PROVE  /\ OnTrack => OnTrack'
         /\ (OnTrack \/ Late \/ Missed \/ Strayed) => (OnTrack' \/ Late' \/ Missed' \/ Strayed')
<1> DEFINE q == seen.pkg
           k == seen.pos
<1>1. /\ k \in 1 .. Count - 1 /\ k + 1 <= Count /\ seen' = b /\ b.pos = k + 1 /\ b.pkg = q
      /\ b.ok /\ seen \in Around /\ seen.ok /\ Genuine(seen) /\ Genuine(b)
      /\ count \in 2 .. Count - 1 /\ g_pkg \in [1 .. Count -> Bytes] /\ start \in BOOLEAN
  <2>1. seen \in Around /\ seen \in Bytes /\ seen.ok
    BY DEF Around, TrackInv, OrderInv, TypeInv, TypeOK, Search
  <2>2. b.pkg \in 1 .. MaxPkgs /\ b.pos \in 1 .. Count /\ seen' = b /\ Genuine(b)
    BY TurnByte
  <2>3. seen.pkg >= 1
    BY <2>2
  <2>4. Genuine(seen) /\ seen.pos >= 1
    BY <2>1, <2>3 DEF TrackInv, Faithful
  <2>5. seen.pos \in Int
    BY <2>1, BytesHavePlace DEF HasPlace
  <2>6. b.ok
    BY DEF Continues
  <2>7. count \in 2 .. Count - 1 /\ g_pkg \in [1 .. Count -> Bytes] /\ start \in BOOLEAN
    BY DEF TrackInv, OrderInv, TypeInv, TypeOK
  <2> QED
    BY <2>1, <2>2, <2>4, <2>5, <2>6, <2>7, Sizes
<1>a. /\ noisy' = noisy
      /\ n = (IF start THEN count + 1 ELSE count)
      /\ p = (IF start THEN [g_pkg EXCEPT ![count + 1] = b] ELSE g_pkg)
  BY TurnByte DEF host, Turn
<1>2. OnTrack => OnTrack'
  <2> SUFFICES ASSUME OnTrack PROVE OnTrack'
    OBVIOUS
  <2>1. CASE k = 1
    <3>1. ~start /\ last = seen /\ last.val = "A" /\ b.val = "V"
      BY <1>1, <2>1 DEF OnTrack, Genuine
    <3>2. start' = TRUE /\ count' = 2 /\ g_pkg' = [g_pkg EXCEPT ![1] = last, ![2] = b]
      BY <3>1, TurnFinds
    <3>3. b.pos = 2 /\ 2 < Count
      BY <1>1, <2>1, Sizes
    <3>4. ASSUME NEW j \in 1 .. Count, j <= 2
          PROVE  g_pkg'[j].ok /\ g_pkg'[j].pos = j /\ g_pkg'[j].pkg = q
      <4>1. j = 1 \/ j = 2
        BY <3>4
      <4>2. g_pkg'[1] = seen /\ g_pkg'[2] = b
        BY <1>1, <3>1, <3>2, <3>3, Sizes
      <4> QED
        BY <1>1, <2>1, <3>3, <4>1, <4>2
    <3> QED
      BY <1>1, <3>2, <3>3, <3>4 DEF OnTrack
  <2>2. CASE k # 1
    <3>1. /\ start /\ count = k
          /\ \A j \in 1 .. Count : j <= k => g_pkg[j].ok /\ g_pkg[j].pos = j /\ g_pkg[j].pkg = q
      BY <1>1, <2>2, Sizes DEF OnTrack
    <3>2. n = k + 1 /\ p = [g_pkg EXCEPT ![k + 1] = b]
      BY <1>a, <3>1
    <3>3. CASE n = Count
      <4>1. start' = FALSE
        BY <3>3, TurnEnds
      <4>2. seen'.pos = Count /\ Count # 1
        BY <1>1, <3>2, <3>3, Sizes
      <4> QED
        BY <4>1, <4>2, Sizes DEF OnTrack
    <3>4. CASE n # Count
      <4>1. start' = start /\ count' = n /\ g_pkg' = [g_pkg EXCEPT ![k + 1] = b]
        BY <3>1, <3>2, <3>4, TurnSkips
      <4>2. ASSUME NEW j \in 1 .. Count, j <= k + 1
            PROVE  g_pkg'[j].ok /\ g_pkg'[j].pos = j /\ g_pkg'[j].pkg = q
        <5>1. CASE j = k + 1
          <6>1. g_pkg'[j] = b
            BY <1>1, <4>1, <5>1
          <6> QED
            BY <1>1, <5>1, <6>1
        <5>2. CASE j # k + 1
          <6>1. j <= k /\ g_pkg'[j] = g_pkg[j]
            BY <1>1, <4>1, <4>2, <5>2
          <6> QED
            BY <3>1, <6>1
        <5> QED
          BY <5>1, <5>2
      <4>3. start' /\ count' = k + 1 /\ seen'.pos = k + 1 /\ k + 1 # 1 /\ k + 1 < Count /\ seen'.pkg = q
        BY <1>1, <3>1, <3>2, <3>4, <4>1, Sizes
      <4> QED
        BY <4>2, <4>3 DEF OnTrack
    <3> QED
      BY <3>3, <3>4
  <2> QED
    BY <2>1, <2>2
<1>3. Late => Late' \/ Missed'
  <2> SUFFICES ASSUME Late PROVE Late' \/ Missed'
    OBVIOUS
  <2>1. start /\ n = count + 1 /\ count >= k + 2
    BY <1>a DEF Late
  <2>2. CASE n = Count
    <3>1. start' = FALSE /\ last' = Zero
      BY <2>2, TurnEnds
    <3> QED
      BY <3>1 DEF Missed
  <2>3. CASE n # Count
    <3>1. start' = start /\ count' = n
      BY <2>1, <2>3, TurnSkips
    <3> QED
      BY <1>1, <2>1, <3>1 DEF Late
  <2> QED
    BY <2>2, <2>3
<1>4. Missed => Missed' \/ Strayed'
  <2> SUFFICES ASSUME Missed PROVE Missed' \/ Strayed'
    OBVIOUS
  <2>1. ~start /\ (last = Zero \/ last = seen) /\ (k = 1 => last = Zero)
    BY DEF Missed
  <2>2. CASE last.val = "A" /\ b.val = "V"
    <3>1. last = seen /\ k # 1
      BY <2>1, <2>2 DEF Zero
    <3>2. k \in Data
      BY <1>1, <2>2, <3>1, Sizes DEF Genuine, Data
    <3>3. HeaderAt(seen, b)
      BY <1>1, <2>2, <3>1, <3>2 DEF HeaderAt
    <3>4. b \in Around
      BY TurnCases
    <3>5. seen.pkg \in noisy
      BY <1>1, <3>3, <3>4 DEF TrackInv, Faithful
    <3>6. k + 1 > HeadLen
      BY <1>1, <3>2, Sizes DEF Data
    <3> QED
      BY <1>1, <1>a, <3>5, <3>6 DEF Strayed
  <2>3. CASE ~(last.val = "A" /\ b.val = "V")
    <3>1. n # Count
      BY <2>1, TurnEnds
    <3>2. start' = start /\ last' = b
      BY <2>3, <3>1, TurnSkips
    <3> QED
      BY <1>1, <2>1, <3>2 DEF Missed
  <2> QED
    BY <2>2, <2>3
<1>5. Strayed => Strayed'
  BY <1>1, <1>a, Sizes DEF Strayed
<1> QED
  BY <1>2, <1>3, <1>4, <1>5

(* The first byte of a package. *)
LEMMA Begins ==
  ASSUME TrackInv, Read, NEW b, NEW p, NEW n, Turn(b, p, n), b.ok, b.pos = 1
  PROVE  /\ ~start => OnTrack'
         /\ OnTrack' \/ Late' \/ Missed'
<1>1. b.val = "A" /\ seen' = b
  BY TurnByte DEF Genuine
<1>2. CASE ~start
  <2>1. n # Count
    BY <1>2, TurnEnds
  <2>2. last' = b /\ start' = start
    BY <1>1, <2>1, TurnSkips
  <2> QED
    BY <1>1, <1>2, <2>2 DEF OnTrack
<1>3. CASE start /\ n = Count
  <2>1. start' = FALSE /\ last' = Zero
    BY <1>3, TurnEnds
  <2> QED
    BY <1>3, <2>1 DEF Missed
<1>4. CASE start /\ n # Count
  <2>1. n = count + 1 /\ count \in Nat /\ count >= 2
    BY <1>4, Sizes DEF Turn, TrackInv, OrderInv, TypeInv, TypeOK
  <2>2. start' = start /\ count' = n
    BY <1>4, TurnSkips
  <2> QED
    BY <1>1, <1>4, <2>1, <2>2 DEF Late
<1> QED
  BY <1>2, <1>3, <1>4

(* What first becomes: the run goes on, within its package or into the next, or begins. *)
LEMMA RunCases ==
  ASSUME TrackInv, Read, NEW b, NEW p, NEW n, Turn(b, p, n), InRun'
  PROVE  \/ /\ InRun /\ Continues(b) /\ first' = first
            /\ b.ok /\ b.pkg = seen.pkg /\ b.pos = seen.pos + 1
         \/ /\ InRun /\ Continues(b) /\ first' = first
            /\ b.ok /\ b.pos = 1 /\ b.pkg = seen.pkg + 1 /\ seen.pos = Count
         \/ b.ok /\ b.pos = 1 /\ first' = b.pkg
<1>1. first' = IF Continues(b) THEN first ELSE IF b.ok /\ b.pos = 1 THEN b.pkg ELSE MaxPkgs + 1
  BY DEF Read, Follow, Turn
<1>2. CASE Continues(b)
  BY <1>1, <1>2 DEF Continues, InRun
<1>3. CASE ~Continues(b)
  <2>1. b.ok /\ b.pos = 1
    BY <1>1, <1>3, Sizes DEF InRun
  <2> QED
    BY <1>1, <1>3, <2>1
<1> QED
  BY <1>2, <1>3

(* get_pkg() waits for a header when a package begins that nothing disturbs. *)
LEMMA Waiting ==
  ASSUME TrackInv, Read, NEW b, NEW p, NEW n, Turn(b, p, n), InRun', b.pos = 1, Undisturbed'
  PROVE  ~start
<1>1. /\ b.pkg \in 1 .. MaxPkgs /\ seen' = b /\ Before(seen, b) /\ noisy' = noisy
  BY TurnByte DEF host
<1>2. accepted' = accepted \/ accepted' = b.pkg
  BY TurnAccepts
<1>3. seen \in Bytes /\ seen \in Around /\ accepted \in 0 .. MaxPkgs /\ Behind
  BY DEF Around, TrackInv, OrderInv, TypeInv, TypeOK
<1>4. seen.pkg \in 0 .. MaxPkgs /\ seen.pos \in 0 .. Count
  BY <1>3 DEF Bytes
<1>5. seen.pkg >= 1 => seen.pos >= 1
  BY <1>3 DEF TrackInv, Faithful
<1>6. seen.pkg < b.pkg
  BY <1>1, <1>4, <1>5 DEF Before
<1>7. CASE b.pkg = 1 \/ accepted' = b.pkg - 1
  <2>1. CASE b.pkg = 1
    <3>1. seen.pkg = 0
      BY <1>4, <1>6, <2>1
    <3> QED
      BY <3>1 DEF TrackInv, Search
  <2>2. CASE b.pkg # 1
    <3>1. accepted' = b.pkg - 1 /\ accepted' = accepted
      BY <1>1, <1>2, <1>7, <2>2
    <3>2. accepted > 0 /\ accepted <= seen.pkg
      BY <1>1, <1>3, <1>4, <2>2, <3>1 DEF Behind
    <3>3. accepted = seen.pkg
      BY <1>1, <1>3, <1>4, <1>6, <3>1, <3>2
    <3> QED
      BY <3>2, <3>3 DEF TrackInv, Search
  <2> QED
    BY <2>1, <2>2
<1>8. CASE first' < b.pkg /\ b.pkg - 1 \notin noisy
  <2>1. InRun /\ b.pkg = seen.pkg + 1 /\ seen.pos = Count
    <3>1. first' # b.pkg
      BY <1>1, <1>8 DEF InRun
    <3>2. ~(b.pkg = seen.pkg)
      BY <1>1, <1>4, <1>6
    <3> QED
      BY <3>1, <3>2, RunCases
  <2>2. seen.pkg \notin noisy
    BY <1>4, <1>8, <2>1
  <2>3. OnTrack \/ Late \/ Missed
    BY <2>1, <2>2 DEF TrackInv, Search, Strayed
  <2>4. ~Late
    BY <2>1, Sizes DEF Late, TrackInv, OrderInv, TypeInv, TypeOK
  <2>5. OnTrack => ~start
    BY <2>1 DEF OnTrack
  <2>6. Missed => ~start
    BY DEF Missed
  <2> QED
    BY <2>3, <2>4, <2>5, <2>6
<1> QED
  BY <1>1, <1>7, <1>8 DEF Undisturbed

(* Reading a byte keeps the search where it should be. *)
LEMMA ReadSearch ==
  ASSUME TrackInv, Read, NEW b, NEW p, NEW n, Turn(b, p, n)
  PROVE  Search'
<1>1. /\ b.pkg \in 1 .. MaxPkgs /\ b.pos \in 1 .. Count /\ seen' = b /\ Before(seen, b) /\ noisy' = noisy
  BY TurnByte DEF host
<1>2. accepted' = accepted \/ (accepted' = b.pkg /\ b.pos = Count /\ n = Count)
  BY TurnAccepts
<1>3. accepted \in 0 .. MaxPkgs /\ Behind /\ seen \in Bytes
  BY DEF TrackInv, OrderInv, TypeInv, TypeOK
<1>4. seen.pkg \in 0 .. MaxPkgs /\ seen.pos \in 0 .. Count
  BY <1>3 DEF Bytes
<1>5. (seen.pkg = 0 \/ (accepted > 0 /\ accepted = seen.pkg) => ~start /\ last = Zero)'
  <2> SUFFICES ASSUME accepted' > 0, accepted' = b.pkg
               PROVE  ~start' /\ last' = Zero
    BY <1>1 DEF Zero
  <2>1. n = Count
    BY <1>1, <1>2, <1>3, <1>4 DEF Behind, Before
  <2>2. start' = FALSE /\ last' = Zero
    BY <2>1, TurnEnds
  <2> QED
    BY <2>2
<1>6. (InRun => seen.ok /\ first <= seen.pkg)'
  <2> SUFFICES ASSUME InRun' PROVE b.ok /\ first' <= b.pkg
    BY <1>1
  <2>1. CASE InRun /\ first' = first /\ b.ok
    <3>1. first <= seen.pkg /\ first \in 1 .. MaxPkgs + 1
      BY <2>1 DEF TrackInv, Search, OrderInv, TypeInv, TypeOK
    <3> QED
      BY <1>1, <1>4, <2>1, <3>1, Sizes DEF Before
  <2>2. CASE b.ok /\ first' = b.pkg
    BY <1>1, <2>2
  <2> QED
    BY <2>1, <2>2, RunCases
<1>7. (InRun => OnTrack \/ Late \/ Missed \/ Strayed)'
  <2> SUFFICES ASSUME InRun' PROVE OnTrack' \/ Late' \/ Missed' \/ Strayed'
    OBVIOUS
  <2>1. CASE InRun /\ Continues(b) /\ b.pkg = seen.pkg /\ b.pos = seen.pos + 1
    <3>1. OnTrack \/ Late \/ Missed \/ Strayed
      BY <2>1 DEF TrackInv, Search
    <3> QED
      BY <2>1, <3>1, GoesOn
  <2>2. CASE b.ok /\ b.pos = 1
    BY <2>2, Begins
  <2> QED
    BY <2>1, <2>2, RunCases
<1>8. (InRun /\ Undisturbed /\ seen.pos < Count => OnTrack)'
  <2> SUFFICES ASSUME InRun', Undisturbed', b.pos < Count PROVE OnTrack'
    BY <1>1
  <2>1. CASE InRun /\ Continues(b) /\ first' = first /\ b.pkg = seen.pkg /\ b.pos = seen.pos + 1
    <3>1. Undisturbed
      <4>1. \/ b.pkg = 1
            \/ accepted' = b.pkg - 1
            \/ first' < b.pkg /\ b.pkg - 1 \notin noisy
        BY <1>1 DEF Undisturbed
      <4>2. accepted' = b.pkg - 1 => accepted' = accepted
        BY <1>1, <1>2
      <4>3. CASE accepted' = b.pkg - 1
        BY <2>1, <4>2, <4>3 DEF Undisturbed
      <4>4. CASE accepted' # b.pkg - 1
        BY <2>1, <4>1, <4>4 DEF Undisturbed
      <4> QED
        BY <4>3, <4>4
    <3>2. seen.pos < Count
      BY <1>1, <1>4, <2>1, Sizes
    <3>3. OnTrack
      BY <2>1, <3>1, <3>2 DEF TrackInv, Search
    <3> QED
      BY <2>1, <3>3, GoesOn
  <2>2. CASE b.ok /\ b.pos = 1
    <3>1. ~start
      BY <2>2, Waiting
    <3> QED
      BY <2>2, <3>1, Begins
  <2> QED
    BY <2>1, <2>2, RunCases
<1> QED
  BY <1>5, <1>6, <1>7, <1>8 DEF Search

(* Every step keeps the search where it should be. *)
LEMMA SearchStep ==
  ASSUME TrackInv, [Next]_vars
  PROVE  TrackInv'
<1>1. OrderInv' /\ Faithful'
  BY OrderStep, FaithStep DEF TrackInv
<1>2. CASE Read
  <2>1. PICK b, p, n : Turn(b, p, n)
    BY DEF Turn
  <2> QED
    BY <1>1, <1>2, <2>1, ReadSearch DEF TrackInv
<1>3. CASE ~Read
  <2>1. seen' = seen /\ first' = first /\ UNCHANGED framer /\ accepted' = accepted
    BY <1>3 DEF Next, Arrive, Lose, Damage, Call, Leave, Enter, vars, passed
  <2>2. start' = start /\ last' = last /\ count' = count /\ g_pkg' = g_pkg
    BY <2>1 DEF framer
  <2>3. noisy \subseteq noisy'
    <3>1. noisy' = noisy \/ noisy' = noisy \cup {pkg'}
      BY <1>3 DEF Next, Arrive, Lose, Damage, Call, Leave, Enter, NextByte, vars, host
    <3> QED
      BY <3>1
  <2>4. /\ OnTrack' <=> OnTrack
        /\ Late' <=> Late
        /\ Missed' <=> Missed
    BY <2>1, <2>2 DEF OnTrack, Late, Missed
  <2>5. (Strayed => Strayed') /\ (Undisturbed' => Undisturbed) /\ (InRun' <=> InRun)
    BY <2>1, <2>3 DEF Strayed, Undisturbed, InRun
  <2>6. Search'
    <3>1. (seen.pkg = 0 \/ (accepted > 0 /\ accepted = seen.pkg) => ~start /\ last = Zero)'
      BY <2>1, <2>2 DEF TrackInv, Search, Zero
    <3>2. (InRun => seen.ok /\ first <= seen.pkg)'
      BY <2>1, <2>5 DEF TrackInv, Search
    <3>3. (InRun => OnTrack \/ Late \/ Missed \/ Strayed)'
      BY <2>4, <2>5 DEF TrackInv, Search
    <3>4. (InRun /\ Undisturbed /\ seen.pos < Count => OnTrack)'
      BY <2>1, <2>4, <2>5 DEF TrackInv, Search
    <3> QED
      BY <3>1, <3>2, <3>3, <3>4 DEF Search
  <2> QED
    BY <1>1, <2>6 DEF TrackInv
<1> QED
  BY <1>2, <1>3

(* At the last byte of a package that is read whole and that nothing disturbs. *)
LEMMA LastByte ==
  ASSUME TrackInv, Read, NEW b, NEW p, NEW n, Turn(b, p, n),
         b.pos = Count, first' <= b.pkg,
         \/ b.pkg = 1 \/ accepted = b.pkg - 1
         \/ first' < b.pkg /\ b.pkg - 1 \notin noisy
  PROVE  accepted' = b.pkg
<1>1. /\ b \in Bytes /\ b.pkg \in 1 .. MaxPkgs /\ seen' = b /\ Before(seen, b)
  BY TurnByte
<1>2. TypeInv' /\ seen \in Bytes /\ g_pkg \in [1 .. Count -> Bytes]
  BY TypeStep DEF TrackInv, OrderInv, TypeInv, TypeOK, Next
<1>3. seen.pkg \in 0 .. MaxPkgs /\ seen.pos \in 0 .. Count
  BY <1>2 DEF Bytes
<1>4. InRun'
  BY <1>1, <1>2, Sizes DEF TypeInv, TypeOK, InRun
<1>5. InRun /\ first' = first /\ b.ok /\ b.pkg = seen.pkg /\ b.pos = seen.pos + 1
  <2>1. b.pos # 1
    BY Sizes
  <2> QED
    BY <1>4, <2>1, RunCases
<1>6. seen.pos = Count - 1 /\ 1 < seen.pos /\ seen.pos < Count
  BY <1>3, <1>5, Sizes
<1>7. Undisturbed
  BY <1>5 DEF Undisturbed
<1>8. OnTrack
  BY <1>5, <1>6, <1>7 DEF TrackInv, Search
<1>9. /\ start /\ count = Count - 1
      /\ \A j \in 1 .. Count :
           j <= Count - 1 => g_pkg[j].ok /\ g_pkg[j].pos = j /\ g_pkg[j].pkg = b.pkg
  BY <1>5, <1>6, <1>8 DEF OnTrack
<1>10. n = Count /\ p = [g_pkg EXCEPT ![Count] = b]
  BY <1>9, Sizes DEF Turn
<1>11. p[Count] = b
  BY <1>2, <1>10, Sizes
<1>12. Matches(p)
  <2> SUFFICES ASSUME NEW k \in Data
               PROVE  p[k].ok /\ p[k].pos = k /\ p[k].pkg = b.pkg
    BY <1>11 DEF Matches
  <2>1. k \in 1 .. Count
    BY Sizes DEF Data
  <2>2. CASE k = Count
    BY <1>5, <1>11, <2>2
  <2>3. CASE k # Count
    <3>1. p[k] = g_pkg[k] /\ k <= Count - 1
      BY <1>2, <1>10, <2>1, <2>3, Sizes
    <3> QED
      BY <1>9, <2>1, <3>1
  <2> QED
    BY <2>2, <2>3
<1>13. accepted' = p[Count].pkg
  BY <1>10, <1>12 DEF Turn, Read
<1> QED
  BY <1>11, <1>13

(* get_pkg() finds the packages again after every fault: a package that is read whole is
   accepted unless the one before it was lost, or has a header in its data and was missed. *)
THEOREM Recovers == Spec => LocksOn
<1>1. Init => TrackInv
  <2> SUFFICES ASSUME Init PROVE TrackInv
    OBVIOUS
  <2>1. Len(rx) = 0 /\ accepted = 0 /\ seen = Zero /\ pkg = 1 /\ first = MaxPkgs + 1
        /\ ~start /\ last = Zero
    BY DEF Init
  <2>2. OrderInv
    BY <2>1, TypeInit DEF OrderInv, Ordered, Behind, Before, Cursor, Zero
  <2>3. Around = {Zero}
    BY <2>1 DEF Around
  <2>4. Faithful
    <3>1. Genuine(Zero) /\ Zero.pkg = 0 /\ ~Zero.ok
      BY DEF Genuine, Zero
    <3>2. HasHeader(payload) => pkg \in noisy
      BY DEF Init
    <3> QED
      BY <2>3, <3>1, <3>2 DEF Faithful, HeaderAt
  <2>5. ~InRun
    BY <2>1, Sizes DEF InRun
  <2>6. Search
    BY <2>1, <2>5 DEF Search
  <2> QED
    BY <2>2, <2>4, <2>6 DEF TrackInv
<1>2. TrackInv /\ [Next]_vars => TrackInv'
  BY SearchStep
<1>3. TrackInv /\ [Next]_vars => [Locks]_vars
  <2> SUFFICES ASSUME TrackInv, [Next]_vars, NEW p \in Pkgs,
                      pc = "read", seen' # seen, seen'.pkg = p, seen'.pos = Count, first' <= p,
                      \/ p = 1 \/ accepted = p - 1
                      \/ first' < p /\ (p - 1) \notin noisy
               PROVE  accepted' = p
    BY DEF Locks
  <2>1. Read
    BY DEF Next, Arrive, Lose, Damage, Call, Leave, Enter, vars
  <2>2. PICK b, t, n : Turn(b, t, n)
    BY DEF Turn
  <2>3. seen' = b
    BY <2>1, <2>2, TurnByte
  <2> QED
    BY <2>1, <2>2, <2>3, LastByte
<1> QED
  BY <1>1, <1>2, <1>3, PTL DEF Spec, LocksOn
==============================================================================
