--------------------------- MODULE RingWindowProofs ---------------------------
(***************************************************************************)
(* Facts about the indices of a ring of any size, and the two that show a   *)
(* ring buffer implements LossyRing: WindowGet and WindowPut.               *)
(***************************************************************************)
EXTENDS RingWindow, TLAPS

(* The number of items between any two indices of the ring. *)
LEMMA RingLength ==
  ASSUME Size \in Nat \ {0, 1},
         NEW p \in 0 .. Size - 1, NEW c \in 0 .. Size - 1
  PROVE  /\ (p - c) % Size = (IF p >= c THEN p - c ELSE p - c + Size)
         /\ (p - c) % Size \in 0 .. Size - 1
         /\ (p - c) % Size = 0 <=> p = c
OBVIOUS

(* An index below twice the size of the ring wraps once at most. *)
LEMMA RingSlot ==
  ASSUME Size \in Nat \ {0, 1},
         NEW k \in 0 .. 2 * Size - 1
  PROVE  /\ k % Size = (IF k < Size THEN k ELSE k - Size)
         /\ k % Size \in 0 .. Size - 1
OBVIOUS

(* Advancing an index is adding one, or starting over at the last slot. *)
LEMMA SuccessorIs ==
  ASSUME Size \in Nat \ {0, 1},
         NEW i \in 0 .. Size - 1
  PROVE  /\ Successor(i) = (IF i + 1 = Size THEN 0 ELSE i + 1)
         /\ Successor(i) \in 0 .. Size - 1
<1>1. i + 1 \in 0 .. 2 * Size - 1 /\ Size \in Nat
  OBVIOUS
<1> QED
  BY <1>1, RingSlot DEF Successor

(* What lies between two indices is a sequence of the items of the ring. *)
LEMMA WindowSeq ==
  ASSUME Size \in Nat \ {0, 1},
         NEW buf \in [0 .. Size - 1 -> Items],
         NEW p \in 0 .. Size - 1, NEW c \in 0 .. Size - 1
  PROVE  /\ Window(buf, p, c) \in Seq(Items)
         /\ Len(Window(buf, p, c)) = (p - c) % Size
         /\ \A i \in 1 .. (p - c) % Size : Window(buf, p, c)[i] = buf[(c + i - 1) % Size]
<1> DEFINE L == (p - c) % Size
<1>1. L \in Nat /\ L < Size /\ Size \in Nat
  BY RingLength
<1> HIDE DEF L
<1>2. \A i \in 1 .. L : (c + i - 1) % Size \in 0 .. Size - 1
  <2> TAKE i \in 1 .. L
  <2>1. c + i - 1 \in 0 .. 2 * Size - 1
    BY <1>1
  <2> QED
    BY <2>1, RingSlot
<1>3. Window(buf, p, c) = [i \in 1 .. L |-> buf[(c + i - 1) % Size]]
  BY DEF Window, L
<1>4. \A i \in 1 .. L : buf[(c + i - 1) % Size] \in Items
  BY <1>2
<1>5. /\ Window(buf, p, c) \in Seq(Items) /\ Len(Window(buf, p, c)) = L
      /\ \A i \in 1 .. L : Window(buf, p, c)[i] = buf[(c + i - 1) % Size]
  BY <1>1, <1>3, <1>4
<1> QED
  BY <1>5 DEF L

(* Two sequences of the same length and the same elements are the same. *)
LEMMA SameSeq ==
  ASSUME NEW s \in Seq(Items), NEW t \in Seq(Items), Len(s) = Len(t),
         \A i \in 1 .. Len(s) : s[i] = t[i]
  PROVE  s = t
OBVIOUS

(* Taking the oldest item of a ring that is not empty leaves the rest. *)
LEMMA WindowGet ==
  ASSUME Size \in Nat \ {0, 1},
         NEW buf \in [0 .. Size - 1 -> Items],
         NEW p \in 0 .. Size - 1, NEW c \in 0 .. Size - 1, p # c
  PROVE  /\ Window(buf, p, c) # <<>>
         /\ Window(buf, p, Successor(c)) = Tail(Window(buf, p, c))
<1> DEFINE s == Window(buf, p, c)
           t == Window(buf, p, Successor(c))
           L == (p - c) % Size
           d == Successor(c)
           r == (p - d) % Size
<1>1. L = (IF p >= c THEN p - c ELSE p - c + Size)
  BY RingLength
<1>2. d \in 0 .. Size - 1 /\ d = (IF c + 1 = Size THEN 0 ELSE c + 1)
  BY SuccessorIs
<1>3. s \in Seq(Items) /\ Len(s) = L /\ \A i \in 1 .. L : s[i] = buf[(c + i - 1) % Size]
  BY WindowSeq
<1> HIDE DEF L, s, d
<1>4. r = IF p >= d THEN p - d ELSE p - d + Size
  BY <1>2, RingLength
<1>5. t \in Seq(Items) /\ Len(t) = r /\ \A i \in 1 .. r : t[i] = buf[(d + i - 1) % Size]
  BY <1>2, WindowSeq DEF d
<1> HIDE DEF r, t
<1>6. L \in Nat \ {0} /\ L < Size /\ r = L - 1 /\ Size \in Nat
  BY <1>1, <1>2, <1>4
<1>7. \A i \in 1 .. L - 1 : (d + i - 1) % Size = (c + (i + 1) - 1) % Size
  <2> TAKE i \in 1 .. L - 1
  <2> DEFINE k == d + i - 1
             l == c + (i + 1) - 1
  <2>1. k \in 0 .. 2 * Size - 1 /\ l \in 0 .. 2 * Size - 1
    BY <1>2, <1>6
  <2>2. l = (IF c + 1 = Size THEN k + Size ELSE k) /\ k < Size + i - 1 + 1
    BY <1>2, <1>6
  <2>3. k >= 0 /\ (c + 1 = Size => k < Size)
    BY <1>2, <1>6
  <2> HIDE DEF k, l
  <2>4. k % Size = IF k < Size THEN k ELSE k - Size
    BY <2>1, RingSlot
  <2>5. l % Size = IF l < Size THEN l ELSE l - Size
    BY <2>1, RingSlot
  <2>6. k % Size = l % Size
    BY <1>6, <2>1, <2>2, <2>3, <2>4, <2>5
  <2> QED
    BY <2>6 DEF k, l
<1>8. s # <<>> /\ Tail(s) \in Seq(Items) /\ Len(Tail(s)) = L - 1 /\ \A i \in 1 .. L - 1 : Tail(s)[i] = s[i + 1]
  BY <1>3, <1>6
<1>9. \A i \in 1 .. L - 1 : i + 1 \in 1 .. L
  BY <1>6
<1>10. \A i \in 1 .. L - 1 : t[i] = Tail(s)[i]
  <2> TAKE i \in 1 .. L - 1
  <2>1. t[i] = buf[(d + i - 1) % Size]
    BY <1>5, <1>6
  <2>2. s[i + 1] = buf[(c + (i + 1) - 1) % Size]
    BY <1>3, <1>9
  <2> QED
    BY <1>7, <1>8, <2>1, <2>2
<1>11. t = Tail(s)
  BY <1>5, <1>6, <1>8, <1>10, SameSeq
<1> QED
  BY <1>8, <1>11 DEF s, t, d

(* Storing an item appends it, or loses all of them when it is the Size-th. *)
LEMMA WindowPut ==
  ASSUME Size \in Nat \ {0, 1},
         NEW buf \in [0 .. Size - 1 -> Items], NEW v \in Items,
         NEW p \in 0 .. Size - 1, NEW c \in 0 .. Size - 1
  PROVE  Window([buf EXCEPT ![p] = v], Successor(p), c)
           = IF Len(Window(buf, p, c)) + 1 = Size THEN <<>> ELSE Append(Window(buf, p, c), v)
<1> DEFINE new == [buf EXCEPT ![p] = v]
           q == Successor(p)
           s == Window(buf, p, c)
           t == Window(new, q, c)
           L == (p - c) % Size
           r == (q - c) % Size
<1>1. L = (IF p >= c THEN p - c ELSE p - c + Size)
  BY RingLength
<1>2. q \in 0 .. Size - 1 /\ q = IF p + 1 = Size THEN 0 ELSE p + 1
  BY SuccessorIs
<1>3. s \in Seq(Items) /\ Len(s) = L /\ \A i \in 1 .. L : s[i] = buf[(c + i - 1) % Size]
  BY WindowSeq
<1>4. new \in [0 .. Size - 1 -> Items] /\ \A i \in 0 .. Size - 1 : new[i] = IF i = p THEN v ELSE buf[i]
  OBVIOUS
<1> HIDE DEF new, q, s, L
<1>5. r = IF q >= c THEN q - c ELSE q - c + Size
  BY <1>2, RingLength
<1>6. t \in Seq(Items) /\ Len(t) = r /\ \A i \in 1 .. r : t[i] = new[(c + i - 1) % Size]
  BY <1>2, <1>4, WindowSeq
<1> HIDE DEF t, r
<1>7. L \in Nat /\ L < Size /\ r = (IF L + 1 = Size THEN 0 ELSE L + 1) /\ Size \in Nat
  BY <1>1, <1>2, <1>5
<1>8. \A i \in 1 .. L + 1 : (c + i - 1) % Size \in 0 .. Size - 1 /\ ((c + i - 1) % Size = p <=> i = L + 1)
  <2> TAKE i \in 1 .. L + 1
  <2> DEFINE k == c + i - 1
  <2>1. k \in 0 .. 2 * Size - 1 /\ k = c + i - 1
    BY <1>7
  <2> HIDE DEF k
  <2>2. k % Size \in 0 .. Size - 1 /\ k % Size = IF k < Size THEN k ELSE k - Size
    BY <2>1, RingSlot
  <2>3. k % Size = p <=> i = L + 1
    BY <1>1, <1>7, <2>1, <2>2
  <2> QED
    BY <2>2, <2>3 DEF k
<1>9. CASE L + 1 = Size
  <2>1. t = <<>>
    BY <1>6, <1>7, <1>9
  <2> QED
    BY <1>3, <1>9, <2>1 DEF s, t, new, q
<1>10. CASE L + 1 # Size
  <2>1. /\ Append(s, v) \in Seq(Items) /\ Len(Append(s, v)) = L + 1 /\ Append(s, v)[L + 1] = v
        /\ \A i \in 1 .. L : Append(s, v)[i] = s[i]
    BY <1>3, <1>7
  <2>2. \A i \in 1 .. L + 1 : t[i] = Append(s, v)[i]
    <3>1. t[L + 1] = v
      <4>1. L + 1 \in 1 .. L + 1 /\ L + 1 \in 1 .. r
        BY <1>7, <1>10
      <4>2. (c + (L + 1) - 1) % Size = p
        BY <1>8, <4>1
      <4>3. t[L + 1] = new[p]
        BY <1>6, <4>1, <4>2
      <4> QED
        BY <1>4, <4>3
    <3>2. \A i \in 1 .. L : t[i] = s[i]
      BY <1>3, <1>4, <1>6, <1>7, <1>8, <1>10
    <3> QED
      BY <1>7, <2>1, <3>1, <3>2
  <2>3. t = Append(s, v)
    BY <1>6, <1>7, <1>10, <2>1, <2>2, SameSeq
  <2> QED
    BY <1>3, <1>10, <2>3 DEF s, t, new, q
<1> QED
  BY <1>9, <1>10
===============================================================================
