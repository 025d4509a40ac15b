----------------------------- MODULE Sha256Proofs -----------------------------
(***************************************************************************)
(* Theorems of Sha256, for messages of every length whose length in bits    *)
(* fits the driver's 32 bits and every prefix that is whole blocks: types,  *)
(* that a call returns the hash it is meant to, and that the driver goes on *)
(* only when its block is compressed.  The invariant says for each          *)
(* statement what the registers of the unit hold at each of its accesses.   *)
(***************************************************************************)
EXTENDS Sha256, TLAPS

-----------------------------------------------------------------------------
(* The statements of a call: one that loads an initial value, the blocks, and the rest. *)

FirstByte(o) == IF o.fn = "posthash" THEN o.prefix ELSE 0

Body(o, m) ==
  IF o.fn = "midstate" THEN sha256_update(m, 0, o.count) ELSE Hashed(m, FirstByte(o), o.count)

Blocks(o, m) == [k \in 1 .. Len(Body(o, m)) |-> Body(o, m)[k][2]]

(* What is hashed already in the value the call begins with. *)
Base(o, m) == IF o.fn \in {"posthash", "precalc"} THEN WholeBlocks(m, o.prefix) ELSE <<>>

First(o, m) ==
  IF o.fn \in {"posthash", "precalc"} THEN load_hash(Split(MidState(m, o.prefix), HashWords))
  ELSE sha256_init

(* Blocks of a message, and the statements that write them. *)
Data(m) == {"data"} \X {m} \X Nat \X Nat \X BOOLEAN \X Nat
Writes(m) == {"block"} \X Data(m)

(* The k-th whole block of message m. *)
Whole(m, k) == Block(m, (k - 1) * 64, k * 64, FALSE, 0)

(* Lengths are natural numbers. *)
LEMMA LengthsNat == Lengths \subseteq Nat
BY LengthAssumption, SMT

(* The calls and their parameters. *)
LEMMA Calls ==
  ASSUME NEW o \in Ops
  PROVE  /\ o.fn \in {"midstate", "sha256", "dsha256", "posthash", "precalc"}
         /\ o.count \in Nat /\ o.prefix \in Nat /\ o.prefix % 64 = 0
         /\ o.fn = "posthash" => o.prefix <= o.count
         /\ o.fn = "midstate" => o.count = 64
         /\ o.fn = "precalc" => o.count = 12
         /\ o # NoOp
<1>1. CASE o \in [fn : {"sha256", "dsha256"}, count : Lengths, prefix : {0}]
  <2>1. o.fn \in {"sha256", "dsha256"} /\ o.count \in Nat /\ o.prefix = 0
    BY <1>1, LengthsNat
  <2>2. 0 % 64 = 0
    OBVIOUS
  <2>3. o.fn # NoOp.fn
    BY <2>1 DEF NoOp
  <2> QED
    BY <2>1, <2>2, <2>3
<1>2. CASE o \in [fn : {"posthash"}, count : Lengths, prefix : Prefixes] /\ o.prefix <= o.count
  <2>1. o.fn = "posthash" /\ o.count \in Lengths /\ o.prefix \in Prefixes
    BY <1>2
  <2>2. o.count \in Nat /\ o.prefix \in Nat /\ o.prefix % 64 = 0
    BY <2>1, LengthsNat, PrefixAssumption DEF SHA256_BLOCK_SIZE
  <2>3. o.fn # NoOp.fn
    BY <2>1 DEF NoOp
  <2> QED
    BY <1>2, <2>1, <2>2, <2>3
<1>3. CASE o \in [fn : {"midstate"}, count : {64}, prefix : {0}]
  BY <1>3 DEF NoOp
<1>4. CASE o \in [fn : {"precalc"}, count : {12}, prefix : {64}]
  BY <1>4 DEF NoOp
<1> QED
  BY <1>1, <1>2, <1>3, <1>4 DEF Ops, SHA256_BLOCK_SIZE

(* A block of a message is none that a wrong order of words would give. *)
LEMMA WriteStatement ==
  ASSUME NEW m, NEW s \in Writes(m)
  PROVE  s[1] = "block" /\ s[2] \in Data(m) /\ s[2] # Junk
<1>1. s[1] = "block" /\ s[2] \in Data(m)
  BY DEF Writes
<1>2. s[2][1] = "data" /\ Junk[1] = "junk"
  BY <1>1 DEF Data, Junk
<1>3. s[2] # Junk
  BY <1>2
<1> QED
  BY <1>1, <1>3

(* Writing a block is a statement. *)
LEMMA WriteBlock ==
  ASSUME NEW m, NEW a \in Nat, NEW z \in Nat, NEW mark \in BOOLEAN, NEW n \in Nat
  PROVE  /\ write_block(Block(m, a, z, mark, n)) \in Writes(m)
         /\ write_block(Block(m, a, z, mark, n))[2] = Block(m, a, z, mark, n)
BY DEF write_block, Block, Writes, Data

(* Putting two sequences together. *)
Appended(q, s, t) ==
  /\ Len(q) = Len(s) + Len(t)
  /\ \A k \in 1 .. Len(s) : q[k] = s[k]
  /\ \A k \in 1 .. Len(t) : q[Len(s) + k] = t[k]

(* A concatenation is the two sequences put together. *)
LEMMA Together ==
  ASSUME NEW S, NEW s, NEW t, s \in Seq(S), t \in Seq(S)
  PROVE  s \o t \in Seq(S) /\ Appended(s \o t, s, t)
BY DEF Appended

(* Of a message of count bytes the first ones are p whole blocks; there are d whole blocks
   more, up to byte i, and r bytes; c bytes are to be hashed. *)
Placed(first, count, p, d, r, i, c) ==
  /\ count \in Nat /\ p \in Nat /\ d \in Nat /\ r \in Nat /\ r < 64 /\ i \in Nat /\ c \in Nat
  /\ first = p * 64 /\ i = (p + d) * 64 /\ count = i + r
  /\ c = count - first /\ d = c \div 64 /\ r = count % 64

(* There is such a place. *)
LEMMA Places ==
  ASSUME NEW first \in Nat, NEW count \in Nat, first % 64 = 0, first <= count
  PROVE  \E p, d, r, i, c \in Nat : Placed(first, count, p, d, r, i, c)
<1> DEFINE p == first \div 64
           d == (count - first) \div 64
           r == count % 64
<1>1. p \in Nat /\ d \in Nat /\ r \in Nat /\ r < 64 /\ (p + d) * 64 \in Nat /\ count - first \in Nat
  OBVIOUS
<1>2. first = p * 64 /\ count = (p + d) * 64 + r
  OBVIOUS
<1>3. Placed(first, count, p, d, r, (p + d) * 64, count - first)
  BY <1>1, <1>2 DEF Placed
<1> HIDE DEF p, d, r
<1> QED
  BY <1>1, <1>3

(* sha256_update() writes the whole blocks, one after the other. *)
Updating(u, m, p, d) ==
  u \in Seq(Writes(m)) /\ Len(u) = d /\ \A k \in 1 .. d : u[k] = write_block(Whole(m, p + k))

(* The statements of sha256_update() are those blocks. *)
LEMMA UpdateIs ==
  ASSUME NEW m, NEW first, NEW count, NEW p, NEW d, NEW r, NEW i, NEW c,
         Placed(first, count, p, d, r, i, c)
  PROVE  Updating(sha256_update(m, first, c), m, p, d)
<1> DEFINE w(k) == write_block(Block(m, first + (k - 1) * 64, first + k * 64, FALSE, 0))
           u == sha256_update(m, first, c)
<1>1. d \in Nat /\ p \in Nat
  BY DEF Placed
<1>2. u = [k \in 1 .. d |-> w(k)]
  BY DEF sha256_update, SHA256_BLOCK_SIZE, Placed
<1>3. ASSUME NEW k \in 1 .. d
      PROVE  w(k) \in Writes(m) /\ w(k) = write_block(Whole(m, p + k))
  <2> DEFINE a == first + (k - 1) * 64
             z == first + k * 64
  <2>1. a \in Nat /\ z \in Nat /\ a = (p + k - 1) * 64 /\ z = (p + k) * 64
    BY <1>1 DEF Placed
  <2>2. w(k) = write_block(Block(m, a, z, FALSE, 0))
    OBVIOUS
  <2> HIDE DEF a, z, w
  <2>3. Whole(m, p + k) = Block(m, a, z, FALSE, 0)
    BY <1>1, <2>1 DEF Whole
  <2>4. w(k) \in Writes(m)
    <3>1. Block(m, a, z, FALSE, 0) \in Data(m)
      BY <2>1 DEF Block, Data
    <3>2. write_block(Block(m, a, z, FALSE, 0)) \in Writes(m)
      BY <3>1 DEF write_block, Writes
    <3> QED
      BY <2>2, <3>2, Zenon
  <2>5. w(k) = write_block(Whole(m, p + k))
    BY <2>2, <2>3, Zenon
  <2> QED
    BY <2>4, <2>5
<1> HIDE DEF w, u
<1>4. u \in Seq(Writes(m)) /\ Len(u) = d /\ \A k \in 1 .. d : u[k] = w(k)
  BY <1>1, <1>2, <1>3
<1>5. Updating(u, m, p, d)
  BY <1>3, <1>4 DEF Updating
<1> QED
  BY <1>5 DEF u

(* sha256_padding() writes one block or two. *)
Padding(g, m, i, count, r) ==
  /\ g \in Seq(Writes(m)) /\ Len(g) = IF 55 < r THEN 2 ELSE 1
  /\ 55 < r => /\ g[1] = write_block(Block(m, i, count, TRUE, 0))
               /\ g[2] = write_block(Block(m, count, count, FALSE, count))
  /\ ~(55 < r) => g[1] = write_block(Block(m, i, count, TRUE, count))

(* The statements of sha256_padding() are these, whatever rest the message leaves. *)
LEMMA PaddingIs ==
  ASSUME NEW m, NEW first, NEW count, NEW p, NEW d, NEW r, NEW i, NEW c,
         Placed(first, count, p, d, r, i, c)
  PROVE  Padding(sha256_padding(m, i, count), m, i, count, r)
<1> DEFINE x == write_block(Block(m, i, count, TRUE, 0))
           y == write_block(Block(m, count, count, FALSE, count))
           z == write_block(Block(m, i, count, TRUE, count))
           g == sha256_padding(m, i, count)
<1>1. x \in Writes(m) /\ y \in Writes(m) /\ z \in Writes(m)
  BY WriteBlock DEF Placed
<1>2. g = IF 55 < r THEN <<x, y>> ELSE <<z>>
  <2>1. i + (count % SHA256_BLOCK_SIZE) = count /\ count % SHA256_BLOCK_SIZE = r
    BY DEF Placed, SHA256_BLOCK_SIZE
  <2>2. BlockNb(r) <=> 55 < r
    BY DEF Placed, BlockNb, SHA256_BLOCK_SIZE
  <2>3. g = IF BlockNb(r) THEN <<x, y>> ELSE <<z>>
    BY <2>1, Zenon DEF sha256_padding
  <2> QED
    BY <2>2, <2>3, Zenon
<1> HIDE DEF x, y, z, g
<1>3. /\ g \in Seq(Writes(m)) /\ Len(g) = IF 55 < r THEN 2 ELSE 1
      /\ 55 < r => g[1] = x /\ g[2] = y
      /\ ~(55 < r) => g[1] = z
  BY <1>1, <1>2
<1>4. Padding(g, m, i, count, r)
  BY <1>3 DEF Padding, x, y, z
<1> QED
  BY <1>4 DEF g

(* The blocks the rest of a message is written in, placed in the whole message. *)
Writing(H, m, count, p, d, r, i) ==
  /\ H \in Seq(Writes(m)) /\ Len(H) = d + (IF 55 < r THEN 2 ELSE 1)
  /\ \A k \in 1 .. d : H[k] = write_block(Whole(m, p + k))
  /\ 55 < r => /\ H[d + 1] = write_block(Block(m, i, count, TRUE, 0))
               /\ H[d + 2] = write_block(Block(m, count, count, FALSE, count))
  /\ ~(55 < r) => H[d + 1] = write_block(Block(m, i, count, TRUE, count))

(* sha256_update() and sha256_padding() write these blocks, in this order. *)
LEMMA HashedIs ==
  ASSUME NEW m, NEW first, NEW count, NEW p, NEW d, NEW r, NEW i, NEW c,
         Placed(first, count, p, d, r, i, c)
  PROVE  Writing(Hashed(m, first, count), m, count, p, d, r, i)
<1> DEFINE u == sha256_update(m, first, c)
           g == sha256_padding(m, i, count)
           H == Hashed(m, first, count)
<1>1. H = u \o g
  <2>1. c = count - first /\ d = c \div 64 /\ first + d * 64 = i
    BY DEF Placed
  <2>2. first + (c \div 64) * 64 = i
    BY <2>1
  <2> QED
    BY <2>1, <2>2, Zenon DEF Hashed, SHA256_BLOCK_SIZE
<1>2. Updating(u, m, p, d) /\ Padding(g, m, i, count, r)
  BY UpdateIs, PaddingIs
<1> HIDE DEF u, g, H
<1>3. d \in Nat
  BY DEF Placed
<1>4. /\ H \in Seq(Writes(m)) /\ Len(H) = d + Len(g)
      /\ \A k \in 1 .. d : H[k] = u[k]
      /\ \A k \in 1 .. Len(g) : H[d + k] = g[k]
  <2>1. u \in Seq(Writes(m)) /\ Len(u) = d /\ g \in Seq(Writes(m))
    BY <1>2 DEF Updating, Padding
  <2>2. H \in Seq(Writes(m)) /\ Appended(H, u, g)
    BY <1>1, <2>1, Together
  <2> QED
    BY <2>1, <2>2 DEF Appended
<1>5. \A k \in 1 .. d : H[k] = write_block(Whole(m, p + k))
  BY <1>2, <1>4 DEF Updating
<1>6. CASE 55 < r
  <2>1. Len(g) = 2 /\ H[d + 1] = g[1] /\ H[d + 2] = g[2]
    BY <1>2, <1>4, <1>6 DEF Padding
  <2>2. Writing(H, m, count, p, d, r, i)
    BY <1>2, <1>4, <1>5, <1>6, <2>1 DEF Padding, Writing
  <2> QED
    BY <2>2 DEF H
<1>7. CASE ~(55 < r)
  <2>1. Len(g) = 1 /\ H[d + 1] = g[1]
    BY <1>2, <1>4, <1>7 DEF Padding
  <2>2. Writing(H, m, count, p, d, r, i)
    BY <1>2, <1>4, <1>5, <1>7, <2>1 DEF Padding, Writing
  <2> QED
    BY <2>2 DEF H
<1> QED
  BY <1>6, <1>7

(* A statement that writes a block, and the block. *)
LEMMA Written ==
  ASSUME NEW b
  PROVE  write_block(b)[1] = "block" /\ write_block(b)[2] = b
BY DEF write_block

(* The blocks that statements write. *)
Args(H) == [k \in 1 .. Len(H) |-> H[k][2]]

(* They are blocks of the message, as many as there are statements. *)
LEMMA ArgsAre ==
  ASSUME NEW m, NEW H, H \in Seq(Writes(m))
  PROVE  /\ Len(H) \in Nat /\ Args(H) \in Seq(Data(m)) /\ Len(Args(H)) = Len(H)
         /\ \A k \in 1 .. Len(H) : /\ H[k][1] = "block" /\ H[k][2] \in Data(m)
                                  /\ H[k][2] # Junk /\ Args(H)[k] = H[k][2]
<1>1. \A k \in 1 .. Len(H) : H[k] \in Writes(m)
  OBVIOUS
<1>2. \A k \in 1 .. Len(H) : H[k][1] = "block" /\ H[k][2] \in Data(m) /\ H[k][2] # Junk
  BY <1>1, WriteStatement
<1>3. Len(H) \in Nat
  OBVIOUS
<1> QED
  BY <1>2, <1>3 DEF Args

(* Equal sequences. *)
LEMMA Same ==
  ASSUME NEW S, NEW s, NEW t, s \in Seq(S), t \in Seq(S), Len(s) = Len(t),
         \A k \in 1 .. Len(s) : s[k] = t[k]
  PROVE  s = t
OBVIOUS

(* The words of a block or a hash. *)
LEMMA SplitIs ==
  ASSUME NEW x, NEW n \in Nat
  PROVE  /\ Len(Split(x, n)) = n /\ Split(x, 0) = <<>>
         /\ Append(Split(x, n), <<x, n + 1>>) = Split(x, n + 1)
         /\ n > 0 => Join(Split(x, n)) = x
         /\ n > 2 => SubSeq(Split(x, n), 1, 3) = Split(x, 3)
<1> DEFINE S == {x} \X Nat
           s == Split(x, n)
           t == Split(x, n + 1)
<1>1. s \in Seq(S) /\ Len(s) = n /\ \A k \in 1 .. n : s[k] = <<x, k>>
  BY DEF Split
<1>2. t \in Seq(S) /\ Len(t) = n + 1 /\ \A k \in 1 .. n + 1 : t[k] = <<x, k>>
  BY DEF Split
<1>3. Split(x, 0) = <<>>
  BY DEF Split
<1>4. Append(s, <<x, n + 1>>) = t
  <2> HIDE DEF s, t
  <2>1. <<x, n + 1>> \in S
    OBVIOUS
  <2> HIDE DEF S
  <2>2. /\ Append(s, <<x, n + 1>>) \in Seq(S) /\ Len(Append(s, <<x, n + 1>>)) = n + 1
        /\ \A k \in 1 .. n : Append(s, <<x, n + 1>>)[k] = s[k]
        /\ Append(s, <<x, n + 1>>)[n + 1] = <<x, n + 1>>
    BY <1>1, <2>1
  <2> DEFINE q == Append(s, <<x, n + 1>>)
  <2>3. /\ q \in Seq(S) /\ Len(q) = n + 1 /\ \A k \in 1 .. n : q[k] = s[k]
        /\ q[n + 1] = <<x, n + 1>>
    BY <2>2
  <2> HIDE DEF q
  <2>4. ASSUME NEW k \in 1 .. n + 1
        PROVE  q[k] = t[k]
    <3>1. CASE k \in 1 .. n
      BY <1>1, <1>2, <2>3, <3>1
    <3>2. CASE k = n + 1
      BY <1>2, <2>3, <3>2
    <3> QED
      BY <3>1, <3>2
  <2>5. q = t
    BY <1>2, <2>3, <2>4, Same
  <2> QED
    BY <2>5 DEF q
<1>5. n > 0 => Join(s) = x
  <2> HIDE DEF s
  <2>1. n > 0 => s[1] = <<x, 1>> /\ DOMAIN s = 1 .. n
    BY <1>1
  <2>2. n > 0 => s[1][1] = x
    BY <2>1
  <2>3. n > 0 => \A k \in DOMAIN s : s[k] = <<s[1][1], k>>
    BY <1>1, <2>1, <2>2
  <2> QED
    BY <2>2, <2>3 DEF Join, Joined
<1>6. n > 2 => SubSeq(s, 1, 3) = Split(x, 3)
  BY DEF Split
<1> QED
  BY <1>1, <1>3, <1>4, <1>5, <1>6 DEF s, t

(* Words that are turned round twice, by rev() and by sha256_precalc(), are in their order. *)
LEMMA TwiceBackwards ==
  ASSUME NEW x, NEW n \in Nat
  PROVE  Backwards(Backwards(Split(x, n))) = Split(x, n)
<1> DEFINE s == Split(x, n)
           b == [k \in 1 .. n |-> <<x, n + 1 - k>>]
<1>1. DOMAIN s = 1 .. n /\ Len(s) = n /\ \A k \in 1 .. n : s[k] = <<x, k>>
  BY SplitIs DEF Split
<1>2. s = [k \in 1 .. n |-> s[k]]
  BY DEF Split
<1>3. b \in Seq({x} \X Int) /\ Len(b) = n /\ DOMAIN b = 1 .. n
  OBVIOUS
<1> HIDE DEF s
<1>4. Backwards(s) = b
  <2>1. \A k \in 1 .. n : n + 1 - k \in 1 .. n
    OBVIOUS
  <2>2. \A k \in 1 .. n : s[n + 1 - k] = <<x, n + 1 - k>>
    BY <1>1, <2>1
  <2> QED
    BY <1>1, <2>2 DEF Backwards
<1>5. \A k \in 1 .. n : b[n + 1 - k] = <<x, k>>
  OBVIOUS
<1> HIDE DEF b
<1>6. Backwards(b) = s
  <2>1. Backwards(b) = [k \in 1 .. n |-> b[n + 1 - k]]
    BY <1>3 DEF Backwards
  <2>2. [k \in 1 .. n |-> b[n + 1 - k]] = [k \in 1 .. n |-> s[k]]
    BY <1>1, <1>5
  <2> QED
    BY <1>2, <2>1, <2>2, Zenon
<1> QED
  BY <1>4, <1>6, Zenon DEF s

(* The whole blocks of a message are blocks of it. *)
LEMMA WholesAre ==
  ASSUME NEW m, NEW size \in Nat, NEW n \in Nat, n = size \div 64
  PROVE  /\ WholeBlocks(m, size) \in Seq(Data(m)) /\ Len(WholeBlocks(m, size)) = n
         /\ \A k \in 1 .. n : WholeBlocks(m, size)[k] = Whole(m, k)
<1> DEFINE W == WholeBlocks(m, size)
<1>1. W = [k \in 1 .. n |-> Whole(m, k)]
  BY DEF WholeBlocks, Whole, SHA256_BLOCK_SIZE
<1>2. ASSUME NEW k \in 1 .. n
      PROVE  Whole(m, k) \in Data(m)
  <2> DEFINE a == (k - 1) * 64
             z == k * 64
  <2>1. a \in Nat /\ z \in Nat /\ Whole(m, k) = Block(m, a, z, FALSE, 0)
    BY DEF Whole
  <2> HIDE DEF a, z
  <2>2. Block(m, a, z, FALSE, 0) \in Data(m)
    BY <2>1 DEF Block, Data
  <2> QED
    BY <2>1, <2>2, Zenon
<1> HIDE DEF W
<1>3. W \in Seq(Data(m)) /\ Len(W) = n /\ \A k \in 1 .. n : W[k] = Whole(m, k)
  BY <1>1, <1>2
<1> QED
  BY <1>3 DEF W

(* What every call hashes is the message, padded: the blocks hashed beforehand and the
   blocks it writes are those of FIPS 180-4. *)
LEMMA Completes ==
  ASSUME NEW m, NEW first \in Nat, NEW count \in Nat, first % 64 = 0, first <= count
  PROVE  WholeBlocks(m, first) \o Args(Hashed(m, first, count)) = Padded(m, count)
<1> PICK p, d, r, i, c \in Nat : Placed(first, count, p, d, r, i, c)
  BY Places
<1> DEFINE W == WholeBlocks(m, first)
           V == WholeBlocks(m, count)
           H == Hashed(m, first, count)
           B == Args(H)
           x == Block(m, i, count, TRUE, count)
           y == Block(m, i, count, TRUE, 0)
           z == Block(m, count, count, FALSE, count)
           last == IF 55 < r THEN <<y, z>> ELSE <<x>>
           n == p + d
<1>1. n \in Nat /\ p = first \div 64 /\ n = count \div 64
  BY DEF Placed
<1>2. /\ W \in Seq(Data(m)) /\ Len(W) = p /\ \A k \in 1 .. p : W[k] = Whole(m, k)
      /\ V \in Seq(Data(m)) /\ Len(V) = n /\ \A k \in 1 .. n : V[k] = Whole(m, k)
  BY <1>1, WholesAre
<1>3. Writing(H, m, count, p, d, r, i)
  BY HashedIs
<1>4. x \in Data(m) /\ y \in Data(m) /\ z \in Data(m)
  BY DEF Block, Data
<1>5. Padded(m, count) = V \o last
  <2>1. i = count - (count % SHA256_BLOCK_SIZE)
    BY DEF Placed, SHA256_BLOCK_SIZE
  <2>2. count - i + 1 + 8 <= SHA256_BLOCK_SIZE <=> ~(55 < r)
    BY DEF Placed, SHA256_BLOCK_SIZE
  <2>3. last = IF count - i + 1 + 8 <= SHA256_BLOCK_SIZE THEN <<x>> ELSE <<y, z>>
    BY <2>2, Zenon
  <2> QED
    BY <2>1, <2>3, Zenon DEF Padded
<1> HIDE DEF W, V, H, x, y, z, n
<1>6. /\ B \in Seq(Data(m)) /\ Len(B) = Len(H) /\ Len(H) \in Nat
      /\ \A k \in 1 .. Len(H) : B[k] = H[k][2]
  <2>1. H \in Seq(Writes(m))
    BY <1>3 DEF Writing
  <2> QED
    BY <2>1, ArgsAre
<1>7. \A k \in 1 .. d : B[k] = Whole(m, p + k)
  <2>1. \A k \in 1 .. d : H[k] = write_block(Whole(m, p + k))
    BY <1>3 DEF Writing
  <2>2. \A k \in 1 .. d : k \in 1 .. Len(H)
    BY <1>3, <1>6 DEF Writing
  <2>3. \A k \in 1 .. d : B[k] = write_block(Whole(m, p + k))[2]
    BY <1>6, <2>1, <2>2
  <2> QED
    BY <2>3 DEF write_block
<1>8. 55 < r => Len(B) = d + 2 /\ B[d + 1] = y /\ B[d + 2] = z
  <2>1. 55 < r => /\ Len(H) = d + 2 /\ H[d + 1] = write_block(y) /\ H[d + 2] = write_block(z)
    BY <1>3 DEF Writing, y, z
  <2>2. 55 < r => B[d + 1] = H[d + 1][2] /\ B[d + 2] = H[d + 2][2]
    BY <1>6, <2>1
  <2> QED
    BY <1>6, <2>1, <2>2 DEF write_block
<1>9. ~(55 < r) => Len(B) = d + 1 /\ B[d + 1] = x
  <2>1. ~(55 < r) => Len(H) = d + 1 /\ H[d + 1] = write_block(x)
    BY <1>3 DEF Writing, x
  <2>2. ~(55 < r) => B[d + 1] = H[d + 1][2]
    BY <1>6, <2>1
  <2> QED
    BY <1>6, <2>1, <2>2 DEF write_block
<1> HIDE DEF B
<1> DEFINE l == IF 55 < r THEN 2 ELSE 1
<1>10. last \in Seq(Data(m)) /\ Len(last) = l
  BY <1>4
<1>11. (55 < r => last[1] = y /\ last[2] = z) /\ (~(55 < r) => last[1] = x)
  OBVIOUS
<1> HIDE DEF last
<1>12. l \in Nat /\ (55 < r => l = 2) /\ (~(55 < r) => l = 1) /\ Len(B) = d + l
  BY <1>8, <1>9
<1> HIDE DEF l
<1> DEFINE s == W \o B
           t == V \o last
<1>13. s \in Seq(Data(m)) /\ Appended(s, W, B)
  BY <1>2, <1>6, Together
<1>14. t \in Seq(Data(m)) /\ Appended(t, V, last)
  BY <1>2, <1>10, Together
<1> HIDE DEF s, t
<1>15. n = p + d
  BY DEF n
<1>16. Len(s) = p + (d + l)
  BY <1>2, <1>12, <1>13 DEF Appended
<1>17. Len(t) = n + l
  BY <1>2, <1>10, <1>14 DEF Appended
<1>18. \A k \in 1 .. p : s[k] = Whole(m, k)
  BY <1>2, <1>13 DEF Appended
<1>19. \A k \in 1 .. d + l : s[p + k] = B[k]
  BY <1>2, <1>12, <1>13 DEF Appended
<1>20. \A k \in 1 .. n : t[k] = Whole(m, k)
  BY <1>2, <1>14 DEF Appended
<1>21. \A k \in 1 .. l : t[n + k] = last[k]
  BY <1>2, <1>10, <1>14 DEF Appended
<1>22. ASSUME NEW k \in 1 .. p + (d + l)
       PROVE  s[k] = t[k]
  <2>1. CASE k <= p
    BY <1>15, <1>18, <1>20, <2>1
  <2>2. CASE p < k /\ k <= n
    <3> DEFINE j == k - p
    <3>1. j \in 1 .. d /\ p + j = k /\ j \in 1 .. d + l /\ k \in 1 .. n
      BY <1>12, <1>15, <2>2
    <3> HIDE DEF j
    <3>2. s[p + j] = Whole(m, p + j)
      BY <1>7, <1>19, <3>1
    <3>3. s[k] = Whole(m, k)
      BY <3>1, <3>2
    <3> QED
      BY <1>20, <3>1, <3>3
  <2>3. CASE n < k
    <3> DEFINE j == k - n
    <3>1. j \in 1 .. l /\ n + j = k /\ d + j \in 1 .. d + l /\ p + (d + j) = k
      BY <1>12, <1>15, <2>3
    <3> HIDE DEF j
    <3>2. t[k] = last[j]
      BY <1>21, <3>1
    <3>3. s[k] = B[d + j]
      BY <1>19, <3>1
    <3>4. CASE 55 < r
      <4>1. j = 1 \/ j = 2
        BY <1>12, <3>1, <3>4
      <4>2. B[d + 1] = last[1] /\ B[d + 2] = last[2]
        BY <1>8, <1>11, <3>4
      <4> QED
        BY <3>2, <3>3, <4>1, <4>2
    <3>5. CASE ~(55 < r)
      <4>1. j = 1
        BY <1>12, <3>1, <3>5
      <4>2. B[d + 1] = last[1]
        BY <1>9, <1>11, <3>5
      <4> QED
        BY <3>2, <3>3, <4>1, <4>2
    <3> QED
      BY <3>4, <3>5
  <2> QED
    BY <1>1, <1>12, <1>15, <2>1, <2>2, <2>3
<1>23. s = t
  <2>1. Len(s) = p + (d + l) /\ Len(t) = p + (d + l)
    BY <1>12, <1>15, <1>16, <1>17
  <2> QED
    BY <1>13, <1>14, <1>22, <2>1, Same
<1> QED
  BY <1>5, <1>23 DEF s, t, W, B, H

-----------------------------------------------------------------------------
(* The statements of a call: one that loads an initial value, those that write the blocks,
   and the ending. *)
Ending(o) ==
  CASE o.fn \in {"midstate", "sha256"} -> <<sha256_final>>
    [] o.fn = "dsha256"  -> <<sha256_double, sha256_final>>
    [] o.fn = "posthash" -> <<sha256_init, sha256_double, sha256_final>>
    [] o.fn = "precalc"  -> <<sha256_precalc_final>>

(* The statements that write blocks are at least one, and one for the mid-state. *)
LEMMA BodyIs ==
  ASSUME NEW o \in Ops, NEW m
  PROVE  /\ Body(o, m) \in Seq(Writes(m)) /\ Len(Body(o, m)) \in Nat \ {0}
         /\ o.fn = "midstate" => Args(Body(o, m)) = WholeBlocks(m, 64)
         /\ o.fn # "midstate" =>
              Base(o, m) \o Args(Body(o, m))
                = IF o.fn = "precalc" THEN WholeBlocks(m, 64) \o <<Block(m, 0, 12, TRUE, 12)>>
                  ELSE Padded(m, o.count)
         /\ o.fn = "precalc" =>
              Len(Body(o, m)) = 1 /\ Args(Body(o, m)) = <<Block(m, 0, 12, TRUE, 12)>>
<1> DEFINE f == FirstByte(o)
           B == Body(o, m)
<1>1. /\ o.fn \in {"midstate", "sha256", "dsha256", "posthash", "precalc"}
      /\ o.count \in Nat /\ o.prefix \in Nat /\ o.prefix % 64 = 0
      /\ o.fn = "posthash" => o.prefix <= o.count
      /\ o.fn = "midstate" => o.count = 64
      /\ o.fn = "precalc" => o.count = 12
  BY Calls
<1>2. f \in Nat /\ f % 64 = 0 /\ f <= o.count
  <2>1. CASE o.fn = "posthash"
    BY <1>1, <2>1 DEF FirstByte
  <2>2. CASE o.fn # "posthash"
    BY <1>1, <2>2 DEF FirstByte
  <2> QED
    BY <2>1, <2>2
<1>3. CASE o.fn = "midstate"
  <2>1. B = sha256_update(m, 0, 64)
    BY <1>1, <1>3 DEF Body
  <2>2. Placed(0, 64, 0, 1, 0, 64, 64)
    BY DEF Placed
  <2>3. Updating(B, m, 0, 1)
    BY <2>1, <2>2, UpdateIs
  <2> HIDE DEF B
  <2>4. B \in Seq(Writes(m)) /\ Len(B) = 1 /\ B[1] = write_block(Whole(m, 0 + 1))
    BY <2>3 DEF Updating
  <2>5. Args(B) \in Seq(Data(m)) /\ Len(Args(B)) = 1 /\ Args(B)[1] = Whole(m, 1)
    BY <2>4, ArgsAre DEF write_block
  <2>6. /\ WholeBlocks(m, 64) \in Seq(Data(m)) /\ Len(WholeBlocks(m, 64)) = 1
        /\ WholeBlocks(m, 64)[1] = Whole(m, 1)
    <3> DEFINE size == 64
               n == 1
    <3>1. size \in Nat /\ n \in Nat /\ n = size \div 64 /\ 1 \in 1 .. n
      OBVIOUS
    <3> HIDE DEF size, n
    <3>2. /\ WholeBlocks(m, size) \in Seq(Data(m)) /\ Len(WholeBlocks(m, size)) = n
          /\ WholeBlocks(m, size)[1] = Whole(m, 1)
      BY <3>1, WholesAre
    <3> QED
      BY <3>2 DEF size, n
  <2>7. Args(B) = WholeBlocks(m, 64)
    BY <2>5, <2>6, Same
  <2> QED
    BY <1>3, <2>4, <2>7 DEF B
<1>4. CASE o.fn # "midstate"
  <2>1. B = Hashed(m, f, o.count)
    BY <1>4 DEF Body
  <2> PICK p, d, r, i, c \in Nat : Placed(f, o.count, p, d, r, i, c)
    BY <1>1, <1>2, Places
  <2>2. Writing(B, m, o.count, p, d, r, i)
    BY <2>1, HashedIs
  <2>3. WholeBlocks(m, f) \o Args(B) = Padded(m, o.count)
    <3> DEFINE n == o.count
    <3>1. n \in Nat /\ f \in Nat /\ f % 64 = 0 /\ f <= n
      BY <1>1, <1>2
    <3> HIDE DEF n, f
    <3>2. WholeBlocks(m, f) \o Args(Hashed(m, f, n)) = Padded(m, n)
      BY <3>1, Completes
    <3> QED
      BY <2>1, <3>2, Zenon DEF n
  <2> HIDE DEF B, f
  <2>4. B \in Seq(Writes(m)) /\ Len(B) \in Nat \ {0}
    BY <2>2 DEF Writing
  <2>5. CASE o.fn = "precalc"
    <3>1. f = 0 /\ o.count = 12
      BY <1>1, <2>5 DEF f, FirstByte
    <3>2. d = 0 /\ r = 12 /\ i = 0
      BY <3>1 DEF Placed
    <3> DEFINE b == Block(m, 0, 12, TRUE, 12)
    <3>3. Len(B) = 1 /\ B[1] = write_block(b)
      <4>1. Writing(B, m, 12, p, 0, 12, 0)
        BY <2>2, <3>1, <3>2, Zenon
      <4>2. ~(55 < 12) /\ 0 + 1 = 1
        OBVIOUS
      <4>3. B[0 + 1] = write_block(b) /\ Len(B) = 0 + 1
        BY <4>1, <4>2 DEF Writing
      <4> QED
        BY <4>2, <4>3, Zenon
    <3> HIDE DEF b
    <3>4. B[1][2] = b
      BY <3>3, Written
    <3>5. Args(B) = <<b>>
      BY <3>3, <3>4 DEF Args
    <3>6. o.prefix = 64
      BY <2>5 DEF Ops, SHA256_BLOCK_SIZE
    <3>7. Base(o, m) = WholeBlocks(m, 64)
      BY <2>5, <3>6 DEF Base
    <3> QED
      BY <2>3, <2>4, <2>5, <3>3, <3>5, <3>7, Zenon DEF B, b
  <2>6. CASE o.fn # "precalc"
    <3>1. Base(o, m) \o Args(B) = WholeBlocks(m, f) \o Args(B)
      <4>1. CASE o.fn = "posthash"
        BY <4>1 DEF Base, f, FirstByte
      <4>2. CASE o.fn # "posthash"
        <5>1. WholeBlocks(m, 0) = <<>>
          BY DEF WholeBlocks, SHA256_BLOCK_SIZE
        <5> QED
          BY <2>6, <4>2, <5>1 DEF Base, f, FirstByte
      <4> QED
        BY <4>1, <4>2
    <3> QED
      BY <1>4, <2>3, <2>4, <2>6, <3>1 DEF B
  <2> QED
    BY <2>5, <2>6
<1> QED
  BY <1>3, <1>4

Size(o, m) == Len(Body(o, m))

(* The statements of a call, each at its place. *)
Shaped(P, o, m, n) ==
  /\ Len(P) = n + 1 + Len(Ending(o)) /\ P[1] = First(o, m)
  /\ \A k \in 1 .. n : P[k + 1] = Body(o, m)[k]
  /\ \A k \in 1 .. Len(Ending(o)) : P[n + 1 + k] = Ending(o)[k]

(* A call consists of its first statement, the blocks and the ending. *)
LEMMA Shape ==
  ASSUME NEW o \in Ops, NEW m
  PROVE  Shaped(Statements(o, m), o, m, Size(o, m))
<1> DEFINE B == Body(o, m)
           E == Ending(o)
           F == First(o, m)
           P == Statements(o, m)
           n == Size(o, m)
           S == Writes(m) \cup {F, sha256_init, sha256_double, sha256_final, sha256_precalc_final}
<1>1. o.fn \in {"midstate", "sha256", "dsha256", "posthash", "precalc"} /\ (o.fn = "midstate" => o.count = 64)
  BY Calls
<1>2. P = <<F>> \o B \o E
  <2>1. CASE o.fn = "midstate"
    BY <2>1, Zenon DEF Statements, First, Body, Ending
  <2>2. CASE o.fn = "sha256"
    BY <2>2, Zenon DEF Statements, First, Body, Ending, FirstByte
  <2>3. CASE o.fn = "dsha256"
    BY <2>3, Zenon DEF Statements, First, Body, Ending, FirstByte
  <2>4. CASE o.fn = "posthash"
    BY <2>4, Zenon DEF Statements, First, Body, Ending, FirstByte
  <2>5. CASE o.fn = "precalc"
    <3>1. Backwards(Backwards(Split(MidState(m, o.prefix), HashWords)))
            = Split(MidState(m, o.prefix), HashWords)
      BY TwiceBackwards DEF HashWords
    <3>2. Join(Backwards(Backwards(Split(m, 3)))) = m
      <4>1. Backwards(Backwards(Split(m, 3))) = Split(m, 3)
        BY TwiceBackwards
      <4>2. Join(Split(m, 3)) = m
        BY SplitIs
      <4> QED
        BY <4>1, <4>2, Zenon
    <3> QED
      BY <2>5, <3>1, <3>2, Zenon
      DEF Statements, sha256_precalc, First, Body, Ending, FirstByte
  <2> QED
    BY <1>1, <2>1, <2>2, <2>3, <2>4, <2>5
<1>3. B \in Seq(Writes(m)) /\ Len(B) = n /\ n \in Nat
  BY BodyIs DEF Size
<1>4. E \in Seq(S)
  <2>1. CASE o.fn \in {"midstate", "sha256"}
    BY <2>1 DEF Ending
  <2>2. CASE o.fn = "dsha256"
    BY <2>2 DEF Ending
  <2>3. CASE o.fn = "posthash"
    BY <2>3 DEF Ending
  <2>4. CASE o.fn = "precalc"
    BY <2>4 DEF Ending
  <2> QED
    BY <1>1, <2>1, <2>2, <2>3, <2>4
<1>5. Writes(m) \subseteq S /\ F \in S
  OBVIOUS
<1> HIDE DEF B, E, F, P, n, S
<1>6. B \in Seq(S) /\ <<F>> \in Seq(S) /\ Len(<<F>>) = 1 /\ <<F>>[1] = F
  BY <1>3, <1>5
<1> DEFINE X == <<F>>
<1>7. X \in Seq(S) /\ Len(X) = 1 /\ X[1] = F
  BY <1>6
<1> HIDE DEF X
<1> DEFINE Q == X \o B
<1>8. Q \in Seq(S) /\ Appended(Q, X, B)
  BY <1>6, <1>7, Together
<1> HIDE DEF Q
<1>9. P = Q \o E
  BY <1>2, Zenon DEF Q, X
<1>10. Appended(P, Q, E)
  BY <1>4, <1>8, <1>9, Together
<1>11. Len(Q) = n + 1
  BY <1>3, <1>7, <1>8 DEF Appended
<1>12. Q[1] = F /\ \A k \in 1 .. n : Q[k + 1] = B[k]
  BY <1>3, <1>7, <1>8 DEF Appended
<1>13. P[1] = F /\ \A k \in 1 .. n : P[k + 1] = B[k]
  <2>1. \A k \in 1 .. n + 1 : P[k] = Q[k]
    BY <1>10, <1>11 DEF Appended
  <2>2. \A k \in 1 .. n : k + 1 \in 1 .. n + 1
    BY <1>3
  <2>3. 1 \in 1 .. n + 1
    BY <1>3
  <2> QED
    BY <1>12, <2>1, <2>2, <2>3
<1>14. Len(P) = n + 1 + Len(E) /\ \A k \in 1 .. Len(E) : P[n + 1 + k] = E[k]
  BY <1>10, <1>11 DEF Appended
<1>15. Shaped(P, o, m, n)
  BY <1>13, <1>14, Zenon DEF Shaped, B, E, F
<1> QED
  BY <1>15 DEF P, n

(* What a statement is, by its place in the call, and what comes after it. *)
Begins(P, o, m, n, k) ==
  /\ k < Len(P) /\ P[k][1] \in {"init", "load"}
  /\ \/ k = 1 /\ P[k] = First(o, m) /\ P[k + 1][1] = "block"
     \/ k = n + 2 /\ P[k] = sha256_init /\ o.fn = "posthash" /\ P[k + 1][1] = "double"

Feeds(P, o, m, n, k) ==
  /\ k < Len(P) /\ k \in 2 .. n + 1 /\ P[k][1] = "block" /\ P[k][2] = Args(Body(o, m))[k - 1]
  /\ \/ k < n + 1 /\ P[k + 1][1] = "block"
     \/ /\ k = n + 1
        /\ \/ o.fn \in {"midstate", "sha256"} /\ P[k + 1][1] = "final"
           \/ o.fn = "dsha256" /\ P[k + 1][1] = "double"
           \/ o.fn = "posthash" /\ P[k + 1][1] = "init"
           \/ o.fn = "precalc" /\ P[k + 1][1] = "precalc"

Doubles(P, o, n, k) ==
  /\ k < Len(P) /\ k > n + 1 /\ P[k][1] = "double" /\ P[k + 1][1] = "final"
  /\ o.fn \in {"dsha256", "posthash"}

Ends(P, o, n, k) ==
  /\ k = Len(P) /\ k > n + 1 /\ P[k][1] \in {"final", "precalc"}
  /\ P[k][1] = "precalc" <=> o.fn = "precalc"

(* What a statement is, and what comes after it. *)
LEMMA Ordered ==
  ASSUME NEW o \in Ops, NEW m, NEW P, NEW n \in Nat \ {0}, Len(Body(o, m)) = n,
         Shaped(P, o, m, n), NEW k \in 1 .. Len(P)
  PROVE  Begins(P, o, m, n, k) \/ Feeds(P, o, m, n, k) \/ Doubles(P, o, n, k) \/ Ends(P, o, n, k)
<1> DEFINE E == Ending(o)
           B == Body(o, m)
           l == Len(Ending(o))
<1>1. o.fn \in {"midstate", "sha256", "dsha256", "posthash", "precalc"}
  BY Calls
<1>2. /\ B \in Seq(Writes(m)) /\ Len(B) = n
      /\ \A j \in 1 .. n : B[j][1] = "block" /\ Args(B)[j] = B[j][2]
  BY BodyIs, ArgsAre
<1>3. /\ l \in {1, 2, 3} /\ (o.fn \in {"midstate", "sha256"} => l = 1 /\ E[1] = sha256_final)
      /\ o.fn = "dsha256" => l = 2 /\ E[1] = sha256_double /\ E[2] = sha256_final
      /\ o.fn = "posthash" => l = 3 /\ E[1] = sha256_init /\ E[2] = sha256_double /\ E[3] = sha256_final
      /\ o.fn = "precalc" => l = 1 /\ E[1] = sha256_precalc_final
  BY <1>1 DEF Ending
<1> HIDE DEF E, B, l
<1>4. Len(P) = n + 1 + l /\ P[1] = First(o, m)
  BY DEF Shaped, l
<1>5. \A j \in 1 .. n : P[j + 1] = B[j]
  BY Zenon DEF Shaped, B
<1>6. \A j \in 1 .. l : P[n + 1 + j] = E[j]
  BY Zenon DEF Shaped, E, l
<1>7. ASSUME NEW i \in 2 .. n + 1
      PROVE  P[i][1] = "block" /\ P[i][2] = Args(B)[i - 1]
  <2> DEFINE j == i - 1
  <2>1. j \in 1 .. n /\ j + 1 = i
    OBVIOUS
  <2> HIDE DEF j
  <2>2. P[i] = B[j]
    BY <1>5, <2>1
  <2>3. P[i][1] = "block" /\ P[i][2] = Args(B)[j]
    BY <1>2, <2>1, <2>2
  <2> QED
    BY <2>3 DEF j
<1>8. P[n + 2] = E[1] /\ (l > 1 => P[n + 3] = E[2]) /\ (l > 2 => P[n + 4] = E[3])
  <2>1. n + 1 + 1 = n + 2 /\ n + 1 + 2 = n + 3 /\ n + 1 + 3 = n + 4
    OBVIOUS
  <2>2. 1 \in 1 .. l /\ (l > 1 => 2 \in 1 .. l) /\ (l > 2 => 3 \in 1 .. l)
    BY <1>3
  <2>3. P[n + 1 + 1] = E[1] /\ (l > 1 => P[n + 1 + 2] = E[2]) /\ (l > 2 => P[n + 1 + 3] = E[3])
    BY <1>6, <2>2
  <2> QED
    BY <2>1, <2>3
<1>9. /\ sha256_init[1] = "init" /\ sha256_double[1] = "double" /\ sha256_final[1] = "final"
      /\ sha256_precalc_final[1] = "precalc" /\ First(o, m)[1] \in {"init", "load"}
  BY DEF sha256_init, sha256_double, sha256_final, sha256_precalc_final, First, load_hash
<1>10. CASE k = 1
  <2>1. P[k + 1][1] = "block" /\ k < Len(P)
    BY <1>3, <1>4, <1>7, <1>10
  <2>2. P[k][1] \in {"init", "load"} /\ P[k] = First(o, m)
    BY <1>4, <1>9, <1>10
  <2> QED
    BY <1>10, <2>1, <2>2, Zenon DEF Begins
<1>11. CASE k \in 2 .. n + 1
  <2>1. P[k][1] = "block" /\ P[k][2] = Args(B)[k - 1]
    BY <1>7, <1>11
  <2>2. k < Len(P)
    BY <1>3, <1>4, <1>11
  <2>3. CASE k < n + 1
    <3>1. P[k + 1][1] = "block"
      BY <1>7, <1>11, <2>3
    <3> QED
      BY <1>11, <2>1, <2>2, <2>3, <3>1, Zenon DEF Feeds, B
  <2>4. CASE k = n + 1
    <3>1. P[k + 1] = E[1]
      BY <1>8, <2>4
    <3>2. \/ o.fn \in {"midstate", "sha256"} /\ P[k + 1][1] = "final"
          \/ o.fn = "dsha256" /\ P[k + 1][1] = "double"
          \/ o.fn = "posthash" /\ P[k + 1][1] = "init"
          \/ o.fn = "precalc" /\ P[k + 1][1] = "precalc"
      BY <1>1, <1>3, <1>9, <3>1
    <3> QED
      BY <1>11, <2>1, <2>2, <2>4, <3>2, Zenon DEF Feeds, B
  <2> QED
    BY <1>11, <2>3, <2>4
<1>12. CASE k > n + 1
  <2>1. CASE o.fn \in {"midstate", "sha256"}
    <3>1. k = Len(P) /\ P[k][1] = "final"
      BY <1>3, <1>4, <1>8, <1>9, <1>12, <2>1
    <3> QED
      BY <1>12, <2>1, <3>1 DEF Ends
  <2>2. CASE o.fn = "precalc"
    <3>1. k = Len(P) /\ P[k][1] = "precalc"
      BY <1>3, <1>4, <1>8, <1>9, <1>12, <2>2
    <3> QED
      BY <1>12, <2>2, <3>1 DEF Ends
  <2>3. CASE o.fn = "dsha256"
    <3>1. Len(P) = n + 3 /\ P[n + 2][1] = "double" /\ P[n + 3][1] = "final"
      BY <1>3, <1>4, <1>8, <1>9, <2>3
    <3>2. CASE k = n + 2
      <4>1. k + 1 = n + 3
        BY <3>2
      <4>2. P[k][1] = "double" /\ P[k + 1][1] = "final" /\ k < Len(P)
        BY <3>1, <3>2, <4>1
      <4> QED
        BY <1>12, <2>3, <4>2 DEF Doubles
    <3>3. CASE k = n + 3
      BY <1>12, <2>3, <3>1, <3>3 DEF Ends
    <3> QED
      BY <1>12, <3>1, <3>2, <3>3
  <2>4. CASE o.fn = "posthash"
    <3>1. /\ Len(P) = n + 4 /\ P[n + 2] = sha256_init /\ P[n + 2][1] = "init"
          /\ P[n + 3][1] = "double" /\ P[n + 4][1] = "final"
      BY <1>3, <1>4, <1>8, <1>9, <2>4
    <3>2. CASE k = n + 2
      <4>1. k + 1 = n + 3
        BY <3>2
      <4>2. P[k] = sha256_init /\ P[k][1] = "init" /\ P[k + 1][1] = "double" /\ k < Len(P)
        BY <3>1, <3>2, <4>1
      <4> QED
        BY <2>4, <3>2, <4>2 DEF Begins
    <3>3. CASE k = n + 3
      <4>1. k + 1 = n + 4
        BY <3>3
      <4>2. P[k][1] = "double" /\ P[k + 1][1] = "final" /\ k < Len(P)
        BY <3>1, <3>3, <4>1
      <4> QED
        BY <1>12, <2>4, <4>2 DEF Doubles
    <3>4. CASE k = n + 4
      BY <1>12, <2>4, <3>1, <3>4 DEF Ends
    <3> QED
      BY <1>12, <3>1, <3>2, <3>3, <3>4
  <2> QED
    BY <1>1, <2>1, <2>2, <2>3, <2>4
<1> QED
  BY <1>10, <1>11, <1>12

-----------------------------------------------------------------------------
(* The hashes of a call: when j of its blocks are compressed, the one it ends with, and
   what a call for the first three rounds reads. *)
After(o, m, j) == <<"default", Base(o, m) \o [k \in 1 .. j |-> Args(Body(o, m))[k]]>>

FinalHash(o, m) ==
  IF o.fn \in {"midstate", "sha256"} THEN After(o, m, Size(o, m))
  ELSE <<"default", <<HashBlock(After(o, m, Size(o, m)))>>>>

Pre(o, m) == <<After(o, m, 0), Split(Args(Body(o, m))[1], 3)>>

(* A hash of a call is none that a wrong order would give, nor is its padding to a block. *)
LEMMA HashesAre ==
  ASSUME NEW o, NEW m, NEW j
  PROVE  After(o, m, j) # Junk /\ H0 # Junk /\ HashBlock(After(o, m, j)) # Junk
<1>1. After(o, m, j)[1] = "default" /\ H0[1] = "default" /\ HashBlock(After(o, m, j))[1] = "hash"
  BY DEF After, H0, HashBlock
<1>2. Junk[1] = "junk"
  BY DEF Junk
<1>3. After(o, m, j)[1] # Junk[1] /\ H0[1] # Junk[1] /\ HashBlock(After(o, m, j))[1] # Junk[1]
  BY <1>1, <1>2
<1> HIDE DEF After, H0, HashBlock, Junk
<1> QED
  BY <1>3

(* Every block that is compressed is appended to the hash. *)
LEMMA Compressed ==
  ASSUME NEW o \in Ops, NEW m, NEW j \in 1 .. Size(o, m)
  PROVE  Compress(After(o, m, j - 1), Args(Body(o, m))[j]) = After(o, m, j)
<1> DEFINE A == Args(Body(o, m))
           b == A[j]
           n == Size(o, m)
           B == Base(o, m)
           f(i) == [k \in 1 .. i |-> A[k]]
           D == Data(m)
<1>1. A \in Seq(D) /\ Len(A) = n /\ n \in Nat /\ b # Junk
  <2> DEFINE H == Body(o, m)
  <2>1. H \in Seq(Writes(m)) /\ Len(H) = n
    BY BodyIs DEF Size
  <2> HIDE DEF H
  <2>2. /\ Len(H) \in Nat /\ Args(H) \in Seq(Data(m)) /\ Len(Args(H)) = Len(H)
        /\ \A k \in 1 .. Len(H) : H[k][2] # Junk /\ Args(H)[k] = H[k][2]
    BY <2>1, ArgsAre
  <2>3. j \in 1 .. Len(H)
    BY <2>1 DEF n
  <2>4. Args(H)[j] # Junk
    BY <2>2, <2>3
  <2> QED
    BY <2>1, <2>2, <2>4 DEF H
<1>2. B \in Seq(D)
  <2>1. CASE o.fn \in {"posthash", "precalc"}
    <3> DEFINE p == o.prefix
               q == p \div 64
    <3>1. p \in Nat /\ q \in Nat /\ q = p \div 64
      BY Calls
    <3> HIDE DEF p, q
    <3>2. WholeBlocks(m, p) \in Seq(Data(m))
      BY <3>1, WholesAre
    <3> QED
      BY <2>1, <3>2 DEF Base, p
  <2>2. CASE o.fn \notin {"posthash", "precalc"}
    BY <2>2 DEF Base
  <2> QED
    BY <2>1, <2>2
<1>3. After(o, m, j - 1) = <<"default", B \o f(j - 1)>> /\ After(o, m, j) = <<"default", B \o f(j)>>
  BY DEF After
<1>4. After(o, m, j - 1) # Junk
  BY HashesAre
<1> HIDE DEF A, b, n, B, D
<1>5. Append(B \o f(j - 1), b) = B \o f(j)
  <2>1. j \in 1 .. n
    BY DEF n
  <2>2. b = A[j]
    BY DEF b
  <2>3. f(j - 1) \in Seq(D) /\ f(j) \in Seq(D) /\ b \in D
    BY <1>1, <2>1, <2>2
  <2>4. Append(f(j - 1), b) = f(j)
    BY <1>1, <2>1, <2>2
  <2>5. Append(B \o f(j - 1), b) = B \o Append(f(j - 1), b)
    <3> DEFINE g == f(j - 1)
    <3>1. g \in Seq(D)
      BY <2>3
    <3> HIDE DEF g
    <3>2. Append(B \o g, b) = B \o Append(g, b)
      BY <1>2, <2>3, <3>1
    <3> QED
      BY <3>2 DEF g
  <2> QED
    BY <2>4, <2>5
<1> HIDE DEF f
<1>6. Compress(<<"default", B \o f(j - 1)>>, b) = <<"default", Append(B \o f(j - 1), b)>>
  BY <1>1, <1>3, <1>4 DEF Compress
<1> QED
  BY <1>3, <1>5, <1>6, Zenon DEF b, A

(* The call begins with what is hashed already, and ends with the hash of its message. *)
LEMMA HashesEnd ==
  ASSUME NEW o \in Ops, NEW m
  PROVE  /\ First(o, m) = IF o.fn \in {"posthash", "precalc"}
                          THEN load_hash(Split(After(o, m, 0), HashWords)) ELSE sha256_init
         /\ o.fn \notin {"posthash", "precalc"} => After(o, m, 0) = H0
         /\ Expected(o, m) = IF o.fn = "precalc" THEN Split(Pre(o, m), PreWords)
                             ELSE Split(FinalHash(o, m), HashWords)
<1> DEFINE A == Args(Body(o, m))
           n == Size(o, m)
           B == Base(o, m)
           D == Data(m)
<1>1. /\ o.fn \in {"midstate", "sha256", "dsha256", "posthash", "precalc"}
      /\ o.count \in Nat /\ o.prefix \in Nat
      /\ o.fn = "midstate" => o.count = 64
      /\ o.fn = "precalc" => o.count = 12
  BY Calls
<1>2. A \in Seq(D) /\ Len(A) = n /\ n \in Nat
  BY BodyIs, ArgsAre DEF Size
<1>3. B \in Seq(D)
  <2>1. CASE o.fn \in {"posthash", "precalc"}
    <3> DEFINE p == o.prefix
               q == p \div 64
    <3>1. p \in Nat /\ q \in Nat /\ q = p \div 64
      BY <1>1
    <3> HIDE DEF p, q
    <3>2. WholeBlocks(m, p) \in Seq(Data(m))
      BY <3>1, WholesAre
    <3> QED
      BY <2>1, <3>2 DEF Base, p
  <2>2. CASE o.fn \notin {"posthash", "precalc"}
    BY <2>2 DEF Base
  <2> QED
    BY <2>1, <2>2
<1>4. After(o, m, 0) = <<"default", B>>
  <2>1. [k \in 1 .. 0 |-> A[k]] = <<>>
    OBVIOUS
  <2> HIDE DEF A, B, D
  <2>2. B \o <<>> = B
    BY <1>3
  <2> QED
    BY <2>1, <2>2, Zenon DEF After, A, B
<1>5. After(o, m, n) = <<"default", B \o A>>
  <2> HIDE DEF A, B, D, n
  <2>1. [k \in 1 .. n |-> A[k]] = A
    BY <1>2
  <2> QED
    BY <2>1, Zenon DEF After, A, B
<1>6. First(o, m) = IF o.fn \in {"posthash", "precalc"}
                    THEN load_hash(Split(After(o, m, 0), HashWords)) ELSE sha256_init
  <2>1. CASE o.fn \in {"posthash", "precalc"}
    BY <1>4, <2>1, Zenon DEF First, MidState, Base
  <2>2. CASE o.fn \notin {"posthash", "precalc"}
    BY <2>2, Zenon DEF First
  <2> QED
    BY <2>1, <2>2
<1>7. o.fn \notin {"posthash", "precalc"} => After(o, m, 0) = H0
  BY <1>4 DEF Base, H0
<1>8. Expected(o, m) = IF o.fn = "precalc" THEN Split(Pre(o, m), PreWords) ELSE Split(FinalHash(o, m), HashWords)
  <2>1. CASE o.fn = "precalc"
    <3>1. o.prefix = 64 /\ o.count = 12
      BY <2>1 DEF Ops, SHA256_BLOCK_SIZE
    <3>2. A = <<Block(m, 0, 12, TRUE, 12)>>
      BY <2>1, BodyIs
    <3>3. A[1] = Block(m, 0, 12, TRUE, 12)
      BY <3>2
    <3>4. MidState(m, o.prefix) = After(o, m, 0)
      BY <1>4, <2>1 DEF MidState, Base
    <3>5. Expected(o, m)
            = Split(<<MidState(m, o.prefix), Split(Block(m, 0, o.count, TRUE, o.count), 3)>>, PreWords)
      BY <2>1, Zenon DEF Expected
    <3> QED
      BY <2>1, <3>1, <3>3, <3>4, <3>5, Zenon DEF Pre
  <2>2. CASE o.fn = "midstate"
    <3>1. A = WholeBlocks(m, 64) /\ B = <<>>
      BY <2>2, BodyIs DEF Base
    <3>2. B \o A = A
      <4> HIDE DEF A, B, n, D
      <4> QED
        BY <1>2, <3>1
    <3>3. FinalHash(o, m) = <<"default", WholeBlocks(m, 64)>>
      BY <1>5, <2>2, <3>1, <3>2, Zenon DEF FinalHash
    <3>4. Expected(o, m) = Split(MidState(m, o.count), HashWords)
      BY <2>2, Zenon DEF Expected
    <3> QED
      BY <1>1, <2>2, <3>3, <3>4, Zenon DEF MidState
  <2>3. CASE o.fn \in {"sha256", "dsha256", "posthash"}
    <3>1. B \o A = Padded(m, o.count)
      BY <2>3, BodyIs
    <3>2. After(o, m, n) = Digest(m, o.count)
      BY <1>5, <3>1, Zenon DEF Digest
    <3>3. CASE o.fn = "sha256"
      <4>1. Expected(o, m) = Split(Digest(m, o.count), HashWords)
        BY <3>3, Zenon DEF Expected
      <4>2. FinalHash(o, m) = Digest(m, o.count)
        BY <3>2, <3>3, Zenon DEF FinalHash
      <4> QED
        BY <3>3, <4>1, <4>2, Zenon
    <3>4. CASE o.fn \in {"dsha256", "posthash"}
      <4>1. Expected(o, m) = Split(<<"default", <<HashBlock(Digest(m, o.count))>>>>, HashWords)
        BY <3>4 DEF Expected
      <4>2. FinalHash(o, m) = <<"default", <<HashBlock(Digest(m, o.count))>>>>
        BY <3>2, <3>4, Zenon DEF FinalHash
      <4> QED
        BY <3>4, <4>1, <4>2, Zenon
    <3> QED
      BY <2>3, <3>3, <3>4
  <2> QED
    BY <1>1, <2>1, <2>2, <2>3
<1> QED
  BY <1>6, <1>7, <1>8

-----------------------------------------------------------------------------
(* A word moves into a register, and the first one out of it. *)
LEMMA Shifted ==
  ASSUME NEW S, NEW s, NEW n \in Nat, n > 0, s \in Seq(S), Len(s) = n, NEW w \in S
  PROVE  /\ Append(Tail(s), w) \in Seq(S) /\ Len(Append(Tail(s), w)) = n
         /\ Append(Tail(s), w)[n] = w /\ \A k \in 1 .. n - 1 : Append(Tail(s), w)[k] = s[k + 1]
<1> DEFINE r == Tail(s)
           j == n - 1
<1>1. j \in Nat /\ n = j + 1
  OBVIOUS
<1>2. s # <<>>
  OBVIOUS
<1>3. r \in Seq(S) /\ Len(r) = j /\ \A k \in 1 .. j : r[k] = s[k + 1]
  BY <1>2
<1> HIDE DEF r, j
<1>4. /\ Append(r, w) \in Seq(S) /\ Len(Append(r, w)) = j + 1 /\ Append(r, w)[j + 1] = w
      /\ \A k \in 1 .. j : Append(r, w)[k] = r[k]
  BY <1>1, <1>3
<1>5. \A k \in 1 .. j : Append(r, w)[k] = s[k + 1]
  BY <1>3, <1>4
<1> QED
  BY <1>1, <1>4, <1>5 DEF r, j

(* The initial value while load_hash() writes hash h to it: its first t words are written, and
   have moved the words of the standard's value out. *)
Loaded(h, t) == [k \in 1 .. 8 |-> IF k + t <= 8 THEN <<H0, k + t>> ELSE <<h, k + t - 8>>]

(* A word written to SHA256_Hx pushes one word of the default value out. *)
LEMMA LoadedIs ==
  ASSUME NEW h, NEW t \in 0 .. 8
  PROVE  /\ Len(Loaded(h, t)) = 8 /\ Loaded(h, 0) = Split(H0, 8) /\ Loaded(h, 8) = Split(h, 8)
         /\ t < 8 => Append(Tail(Loaded(h, t)), <<h, t + 1>>) = Loaded(h, t + 1)
<1> DEFINE S == {h, H0} \X Nat
           s == Loaded(h, t)
           u == Loaded(h, t + 1)
<1> HIDE DEF H0
<1>1. s \in Seq(S) /\ Len(s) = 8
  BY DEF Loaded
<1>2. Loaded(h, 0) = Split(H0, 8)
  BY DEF Loaded, Split
<1>3. Loaded(h, 8) = Split(h, 8)
  BY DEF Loaded, Split
<1>4. ASSUME t < 8
      PROVE  Append(Tail(s), <<h, t + 1>>) = u
  <2>1. u \in Seq(S) /\ Len(u) = 8
    BY <1>4 DEF Loaded
  <2>2. \A k \in 1 .. 7 : s[k + 1] = u[k]
    BY <1>4 DEF Loaded
  <2>3. u[8] = <<h, t + 1>>
    BY <1>4 DEF Loaded
  <2>4. <<h, t + 1>> \in S
    OBVIOUS
  <2> HIDE DEF s, u, S
  <2> DEFINE q == Append(Tail(s), <<h, t + 1>>)
  <2>5. q \in Seq(S) /\ Len(q) = 8 /\ q[8] = <<h, t + 1>> /\ \A k \in 1 .. 7 : q[k] = s[k + 1]
    <3> DEFINE n == 8
    <3>1. n \in Nat /\ n > 0 /\ Len(s) = n
      BY <1>1
    <3> HIDE DEF n, q
    <3>2. /\ q \in Seq(S) /\ Len(q) = n /\ q[n] = <<h, t + 1>>
          /\ \A k \in 1 .. n - 1 : q[k] = s[k + 1]
      BY <1>1, <2>4, <3>1, Shifted DEF q
    <3> QED
      BY <3>2 DEF n
  <2> HIDE DEF q
  <2>7. \A k \in 1 .. 8 : q[k] = u[k]
    <3>1. \A k \in 1 .. 8 : k \in 1 .. 7 \/ k = 8
      OBVIOUS
    <3> QED
      BY <2>2, <2>3, <2>5, <3>1
  <2>8. q = u
    BY <2>1, <2>5, <2>7, Same
  <2> QED
    BY <2>8 DEF q
<1> QED
  BY <1>1, <1>2, <1>3, <1>4 DEF s, u

-----------------------------------------------------------------------------
(* The inductive invariant: what the unit holds, at each access of each statement. *)

Quiet == words = <<>> /\ cnt = BlockWords

(* The initial value that a call begins with. *)
Given == IF Fn = "load" THEN Join(Arg) ELSE Arg

AtLoad ==
  /\ Quiet /\ result = <<>>
  /\ step > 1 => Hx = Loaded(Given, step - 2)
  /\ pc > 1 => hash_r = After(op, msg, Size(op, msg))

(* Until its last word is there the block is not compressed; then it is, or it is not yet. *)
AtBlock ==
  /\ cnt = BlockWords /\ result = <<>>
  /\ \/ /\ step <= BlockWords /\ words = Split(Arg, step - 1) /\ hash = After(op, msg, pc - 2)
        /\ step > 1 => ~reg_done
     \/ /\ step > BlockWords /\ ~reg_done /\ words = Split(Arg, BlockWords)
        /\ hash = After(op, msg, pc - 2)
     \/ /\ step > BlockWords /\ reg_done /\ words = <<>>
        /\ hash = After(op, msg, pc - 1) /\ hash_r = hash

(* The hash that is streamed, the default value it is compressed into, and the result. *)
AtDouble ==
  /\ Hx = Split(H0, HashWords) /\ result = <<>>
  /\ \/ step = 1 /\ Quiet /\ hash_r = After(op, msg, Size(op, msg))
     \/ /\ step > 1 /\ ~reg_done /\ hash = H0 /\ hash_r = After(op, msg, Size(op, msg))
        /\ words = Split(HashBlock(hash_r), cnt)
     \/ step > 1 /\ reg_done /\ Quiet /\ hash = FinalHash(op, msg)

AtFinal == Quiet /\ hash = FinalHash(op, msg) /\ result = Split(hash, step - 1)

AtPrecalc == Quiet /\ result = Split(pre, step - 1)

(* The counters of the words read. *)
Counting ==
  pc > 1 =>
    /\ hash_cnt = IF Fn = "final" THEN step - 1 ELSE 0
    /\ pre_cnt = IF Fn = "precalc" THEN step - 1 ELSE 0

(* The rounds that are kept are taken with the fourth word of the only block. *)
Preparing ==
  op.fn = "precalc" /\ (pc > 2 \/ (pc = 2 /\ step > 4)) => pre = Pre(op, msg)

(* The call that doubles has the default value in the registers. *)
Default == pc > 1 /\ op.fn \notin {"posthash", "precalc"} => Hx = Split(H0, HashWords)

Held ==
  /\ Fn \in {"init", "load"} => AtLoad
  /\ Fn = "block" => AtBlock
  /\ Fn = "double" => AtDouble
  /\ Fn = "final" => AtFinal
  /\ Fn = "precalc" => AtPrecalc
  /\ Counting /\ Preparing /\ Default

Rest == Quiet /\ (op # NoOp => result = Expected(op, msg))

-----------------------------------------------------------------------------
(* The parts of the type invariant: where the call is, and the registers. *)
Control ==
  /\ op \in Ops \cup {NoOp} /\ msg \in {0, 1}
  /\ pc \in 1 .. (IF op = NoOp THEN 0 ELSE Len(Program)) + 1
  /\ step \in 1 .. IF Busy THEN Accesses(Fn) ELSE 1

Registers ==
  /\ Len(result) <= HashWords /\ Len(Hx) = HashWords /\ reg_done \in BOOLEAN
  /\ hash_cnt \in 0 .. 7 /\ pre_cnt \in 0 .. 7
  /\ cnt \in 0 .. BlockWords /\ Len(words) <= BlockWords

Inv == Control /\ Registers /\ (Busy => Held) /\ (~Busy => Rest)

(* They are the type invariant. *)
LEMMA TypeParts == TypeOK <=> Control /\ Registers
BY Zenon DEF TypeOK, Control, Registers

(* The accesses of a statement. *)
LEMMA AccessesAre ==
  /\ \A fn : Accesses(fn) \in Nat /\ Accesses(fn) > 1
  /\ Accesses("init") = 2 /\ Accesses("load") = 10 /\ Accesses("block") = 17
  /\ Accesses("double") = 2 /\ Accesses("final") = 8 /\ Accesses("precalc") = 6
<1>1. /\ Accesses("init") = 2 /\ Accesses("load") = 10 /\ Accesses("block") = 17
      /\ Accesses("double") = 2 /\ Accesses("final") = 8 /\ Accesses("precalc") = 6
  BY DEF Accesses, BlockAccesses, BlockWords, HashWords, PreWords
<1>2. ASSUME NEW fn PROVE Accesses(fn) \in Nat /\ Accesses(fn) > 1
  <2>1. CASE fn \in {"load", "block", "final", "precalc"}
    BY <1>1, <2>1
  <2>2. CASE fn \notin {"load", "block", "final", "precalc"}
    BY <2>2 DEF Accesses
  <2> QED
    BY <2>1, <2>2
<1> QED
  BY <1>1, <1>2

(* The statement a call is at, by what it does. *)
LEMMA Here ==
  ASSUME Control, Busy
  PROVE  /\ op \in Ops /\ op # NoOp /\ pc \in 1 .. Len(Program) /\ Len(Program) \in Nat
         /\ Size(op, msg) \in Nat \ {0} /\ step \in 1 .. Accesses(Fn)
         /\ \/ Fn \in {"init", "load"} /\ Begins(Program, op, msg, Size(op, msg), pc)
            \/ Fn = "block" /\ Feeds(Program, op, msg, Size(op, msg), pc)
            \/ Fn = "double" /\ Doubles(Program, op, Size(op, msg), pc)
            \/ Fn \in {"final", "precalc"} /\ Ends(Program, op, Size(op, msg), pc)
<1> DEFINE n == Size(op, msg)
           P == Program
<1>1. op \in Ops /\ op # NoOp /\ pc <= Len(P) /\ step \in 1 .. Accesses(Fn)
  BY DEF Control, Busy
<1>2. n \in Nat \ {0} /\ Len(Body(op, msg)) = n
  BY <1>1, BodyIs DEF Size
<1>3. Shaped(P, op, msg, n)
  BY <1>1, Shape DEF Program
<1> HIDE DEF n, P
<1>4. Len(P) \in Nat
  <2>1. Len(P) = n + 1 + Len(Ending(op))
    BY <1>3 DEF Shaped
  <2>2. Len(Ending(op)) \in Nat
    <3>1. op.fn \in {"midstate", "sha256", "dsha256", "posthash", "precalc"}
      BY <1>1, Calls
    <3> QED
      BY <3>1 DEF Ending
  <2> QED
    BY <1>2, <2>1, <2>2
<1>5. pc \in 1 .. Len(P)
  <2>1. pc \in 1 .. Len(P) + 1
    BY <1>1, Zenon DEF Control, P
  <2> QED
    BY <1>1, <1>4, <2>1
<1>6. Begins(P, op, msg, n, pc) \/ Feeds(P, op, msg, n, pc) \/ Doubles(P, op, n, pc) \/ Ends(P, op, n, pc)
  BY <1>1, <1>2, <1>3, <1>5, Ordered
<1>7. Fn = P[pc][1]
  BY DEF Fn, P
<1>8. \/ Fn \in {"init", "load"} /\ Begins(P, op, msg, n, pc)
      \/ Fn = "block" /\ Feeds(P, op, msg, n, pc)
      \/ Fn = "double" /\ Doubles(P, op, n, pc)
      \/ Fn \in {"final", "precalc"} /\ Ends(P, op, n, pc)
  BY <1>6, <1>7, Zenon DEF Begins, Feeds, Doubles, Ends
<1> QED
  BY <1>1, <1>2, <1>4, <1>5, <1>8 DEF n, P

(* An access leaves the call where it is or brings it to the next statement. *)
LEMMA Moves ==
  ASSUME Control, NEW fns, Access(fns)
  PROVE  /\ Control' /\ Busy /\ Fn \in fns /\ op' = op /\ msg' = msg /\ Program' = Program
         /\ ~LastAccess => /\ Busy' /\ pc' = pc /\ step' = step + 1 /\ Fn' = Fn /\ Arg' = Arg
                           /\ step < Accesses(Fn)
         /\ LastAccess => /\ pc' = pc + 1 /\ step' = 1 /\ (Busy' <=> pc < Len(Program))
                          /\ Fn' = Program[pc + 1][1] /\ step = Accesses(Fn)
<1>1. Busy /\ Fn \in fns /\ op' = op /\ msg' = msg
  BY DEF Access
<1>2. Program' = Program
  BY <1>1, Zenon DEF Program
<1>3. /\ op \in Ops /\ op # NoOp /\ pc \in 1 .. Len(Program) /\ Len(Program) \in Nat
      /\ step \in 1 .. Accesses(Fn)
  BY <1>1, Here
<1>4. Accesses(Fn) \in Nat /\ Accesses(Fn') \in Nat /\ Accesses(Fn') > 1
  BY AccessesAre
<1>5. Busy' <=> pc' <= Len(Program)
  BY <1>1, <1>2, <1>3 DEF Busy
<1>6. CASE ~LastAccess
  <2>1. pc' = pc /\ step' = step + 1
    BY <1>6, Zenon DEF Access
  <2>2. Fn' = Fn /\ Arg' = Arg
    BY <1>2, <2>1, Zenon DEF Fn, Arg
  <2>3. Busy' /\ step < Accesses(Fn)
    BY <1>3, <1>4, <1>5, <1>6, <2>1 DEF LastAccess
  <2>4. step' \in 1 .. Accesses(Fn')
    BY <1>3, <1>4, <2>1, <2>2, <2>3
  <2>5. Control'
    BY <1>1, <1>2, <1>3, <2>1, <2>3, <2>4 DEF Control
  <2> QED
    BY <1>1, <1>2, <1>6, <2>1, <2>2, <2>3, <2>5
<1>7. CASE LastAccess
  <2>1. pc' = pc + 1 /\ step' = 1
    BY <1>7, Zenon DEF Access
  <2>2. Fn' = Program[pc + 1][1]
    BY <1>2, <2>1, Zenon DEF Fn
  <2>3. Busy' <=> pc < Len(Program)
    BY <1>3, <1>5, <2>1
  <2>4. Control'
    <3>1. pc' \in 1 .. Len(Program) + 1
      BY <1>3, <2>1
    <3>2. step' \in 1 .. Accesses(Fn') /\ step' \in 1 .. 1
      BY <1>4, <2>1
    <3> QED
      BY <1>1, <1>2, <1>3, <3>1, <3>2 DEF Control
  <2> QED
    BY <1>1, <1>2, <1>7, <2>1, <2>2, <2>3, <2>4 DEF LastAccess
<1> QED
  BY <1>6, <1>7

-----------------------------------------------------------------------------
(* Every step preserves the invariant: one lemma for each action. *)

(* Between the accesses of a statement that reads nothing the counters keep their value. *)
LEMMA CountersStay ==
  ASSUME Counting, pc' = pc, Fn' = Fn, Fn \notin {"final", "precalc"},
         pc > 1 => hash_cnt' = hash_cnt /\ pre_cnt' = pre_cnt
  PROVE  Counting'
<1>1. pc > 1 => hash_cnt = 0 /\ pre_cnt = 0
  BY DEF Counting
<1>2. pc' > 1 => hash_cnt' = 0 /\ pre_cnt' = 0
  BY <1>1
<1>3. Fn' # "final" /\ Fn' # "precalc"
  OBVIOUS
<1> QED
  BY <1>2, <1>3, Zenon DEF Counting

(* A statement that loads a value begins the call, or one that hashed a hash. *)
LEMMA LoadsFirst ==
  ASSUME Control, Busy, Fn \in {"init", "load"}
  PROVE  /\ pc = 1 \/ op.fn = "posthash"
         /\ pc > 1 => Fn = "init"
<1>1. Begins(Program, op, msg, Size(op, msg), pc)
  BY Here
<1>2. pc = 1 \/ (Program[pc] = sha256_init /\ op.fn = "posthash")
  BY <1>1, Zenon DEF Begins
<1> QED
  BY <1>2 DEF sha256_init, Fn

(* That value, and its words. *)
LEMMA GivenIs ==
  ASSUME Control, Busy, Fn \in {"init", "load"}
  PROVE  /\ Fn = "init" => Given = H0
         /\ Fn = "load" => Arg = Split(Given, 8)
         /\ pc = 1 => Given = After(op, msg, 0)
<1> DEFINE F == First(op, msg)
           A == After(op, msg, 0)
<1>1. /\ op \in Ops
      /\ \/ pc = 1 /\ Program[pc] = F
         \/ pc # 1 /\ Program[pc] = sha256_init
  BY Here DEF Begins
<1>2. /\ F = IF op.fn \in {"posthash", "precalc"} THEN load_hash(Split(A, HashWords)) ELSE sha256_init
      /\ op.fn \notin {"posthash", "precalc"} => A = H0
  BY <1>1, HashesEnd
<1> HIDE DEF A, F
<1>3. sha256_init[1] = "init" /\ sha256_init[2] = H0
  BY DEF sha256_init
<1>4. \A ws : load_hash(ws)[1] = "load" /\ load_hash(ws)[2] = ws
  BY DEF load_hash
<1>5. CASE Program[pc] = sha256_init
  <2>1. Fn = "init" /\ Arg = H0
    BY <1>3, <1>5, Zenon DEF Fn, Arg
  <2>2. Given = H0
    BY <2>1, Zenon DEF Given
  <2>3. pc = 1 => A = H0
    <3>1. pc = 1 => Program[pc] = F
      BY <1>1
    <3>2. pc = 1 => F[1] = "init"
      BY <1>3, <1>5, <3>1, Zenon
    <3>3. op.fn \in {"posthash", "precalc"} => F[1] = "load"
      BY <1>2, <1>4, Zenon
    <3> QED
      BY <1>2, <3>2, <3>3
  <2> QED
    BY <2>1, <2>2, <2>3, Zenon DEF A
<1>6. CASE Program[pc] # sha256_init
  <2>1. pc = 1 /\ Program[pc] = F
    BY <1>1, <1>6
  <2>2. F = load_hash(Split(A, HashWords))
    BY <1>2, <1>6, <2>1, Zenon
  <2>3. Fn = "load" /\ Arg = Split(A, 8)
    BY <1>4, <2>1, <2>2, Zenon DEF Fn, Arg, HashWords
  <2>4. Join(Split(A, 8)) = A
    BY SplitIs
  <2>5. Given = A
    BY <2>3, <2>4, Zenon DEF Given
  <2> QED
    BY <2>3, <2>5, Zenon DEF A
<1> QED
  BY <1>5, <1>6

(* reg_rst, the first access of both. *)
LEMMA CmdRstStep ==
  ASSUME Inv, CmdRst
  PROVE  Inv'
<1>1. Control /\ Registers /\ Access({"init", "load"}) /\ step = 1
  BY Zenon DEF Inv, CmdRst
<1>2. /\ Control' /\ Busy /\ Fn \in {"init", "load"} /\ op' = op /\ msg' = msg
      /\ Busy' /\ pc' = pc /\ step' = 2 /\ Fn' = Fn /\ Arg' = Arg
  <2>1. Fn \in {"init", "load"} /\ Control' /\ Busy /\ op' = op /\ msg' = msg
    BY <1>1, Moves
  <2>2. ~LastAccess
    BY <1>1, <2>1, AccessesAre DEF LastAccess
  <2> QED
    BY <1>1, <2>1, <2>2, Moves
<1>3. Held /\ AtLoad
  BY <1>2 DEF Inv, Held
<1>4. Hx' = Split(H0, 8) /\ Hx' = Loaded(Given, 0)
  <2>1. Hx' = Split(H0, 8)
    BY Zenon DEF CmdRst, HashWords
  <2> QED
    BY <2>1, LoadedIs
<1>5. UNCHANGED <<result, reg_done, hash_cnt, pre_cnt, hash_r, cnt, hash, words, pre>>
  BY DEF CmdRst
<1>6. AtLoad'
  <2>1. step' - 2 = 0
    BY <1>2
  <2>2. Quiet' /\ result' = <<>>
    BY <1>3, <1>5 DEF AtLoad, Quiet
  <2>3. pc > 1 => hash_r = After(op, msg, Size(op, msg))
    BY <1>3 DEF AtLoad
  <2>4. Hx' = Loaded(Given', step' - 2)
    BY <1>2, <1>4, <2>1, Zenon DEF Given
  <2>5. pc' > 1 => hash_r' = After(op', msg', Size(op', msg'))
    BY <1>2, <1>5, <2>3, Zenon
  <2> QED
    BY <2>2, <2>4, <2>5, Zenon DEF AtLoad
<1>7. Counting'
  BY <1>2, <1>3, <1>5, CountersStay DEF Held
<1>8. Preparing'
  BY <1>1, <1>2, LoadsFirst DEF Preparing, Control
<1>9. Default'
  BY <1>4, Zenon DEF Default, HashWords
<1>10. Held'
  BY <1>2, <1>6, <1>7, <1>8, <1>9 DEF Held
<1>11. Registers'
  <2>1. Len(Hx') = 8
    BY <1>4, SplitIs
  <2> QED
    BY <1>1, <1>5, <2>1 DEF Registers, HashWords
<1> QED
  BY <1>2, <1>10, <1>11, Zenon DEF Inv

(* A word of the hash that is loaded moves into the initial value. *)
LEMMA WriteHiStep ==
  ASSUME Inv, WriteHi
  PROVE  Inv'
<1>1. Control /\ Registers /\ Access({"load"}) /\ step \in 2 .. 9
  BY DEF Inv, WriteHi, HashWords
<1>2. /\ Control' /\ Busy /\ Fn = "load" /\ op' = op /\ msg' = msg
      /\ Busy' /\ pc' = pc /\ step' = step + 1 /\ Fn' = Fn /\ Arg' = Arg
  <2>1. Fn = "load" /\ Control' /\ Busy /\ op' = op /\ msg' = msg
    BY <1>1, Moves
  <2>2. ~LastAccess
    BY <1>1, <2>1, AccessesAre DEF LastAccess
  <2> QED
    BY <1>1, <2>1, <2>2, Moves
<1>3. Held /\ AtLoad
  BY <1>2 DEF Inv, Held
<1>4. pc = 1 /\ (op.fn = "posthash" \/ pc = 1)
  BY <1>1, <1>2, Here, LoadsFirst DEF Control
<1>5. Hx' = Loaded(Given, step - 1) /\ Len(Hx') = 8
  <2> DEFINE t == step - 2
  <2>1. t \in 0 .. 7 /\ t + 1 = step - 1 /\ t \in 0 .. 8 /\ t + 1 \in 0 .. 8
    BY <1>1
  <2>2. Hx = Loaded(Given, t)
    BY <1>1, <1>3 DEF AtLoad
  <2>3. Hx' = Append(Tail(Hx), <<Given, step - 1>>)
    <3>1. Arg = Split(Given, 8) /\ step - 1 \in 1 .. 8
      BY <1>1, <1>2, GivenIs
    <3>2. Arg[step - 1] = <<Given, step - 1>>
      BY <3>1 DEF Split
    <3> QED
      BY <3>2 DEF WriteHi
  <2> HIDE DEF t
  <2>4. Append(Tail(Loaded(Given, t)), <<Given, t + 1>>) = Loaded(Given, t + 1) /\ Len(Loaded(Given, t + 1)) = 8
    BY <2>1, LoadedIs
  <2>5. Hx' = Loaded(Given, t + 1)
    BY <2>1, <2>2, <2>3, <2>4, Zenon
  <2> QED
    BY <2>1, <2>4, <2>5
<1>6. UNCHANGED <<result, reg_done, hash_cnt, pre_cnt, hash_r, cnt, hash, words, pre>>
  BY DEF WriteHi
<1>7. AtLoad'
  <2>1. step' - 2 = step - 1
    BY <1>1, <1>2
  <2>2. Quiet' /\ result' = <<>>
    BY <1>3, <1>6 DEF AtLoad, Quiet
  <2>3. Hx' = Loaded(Given', step' - 2)
    BY <1>2, <1>5, <2>1, Zenon DEF Given
  <2>4. ~(pc' > 1)
    BY <1>2, <1>4
  <2> QED
    BY <2>2, <2>3, <2>4, Zenon DEF AtLoad
<1>8. Counting' /\ Preparing' /\ Default'
  BY <1>2, <1>4 DEF Counting, Preparing, Default
<1>9. Held'
  BY <1>2, <1>7, <1>8 DEF Held
<1>10. Registers'
  BY <1>1, <1>5, <1>6 DEF Registers, HashWords
<1> QED
  BY <1>2, <1>9, <1>10, Zenon DEF Inv

(* reg_init brings the initial value to A..H: the call has it to begin with, or the default
   value to hash a hash with. *)
LEMMA CmdInitStep ==
  ASSUME Inv, CmdInit
  PROVE  Inv'
<1>1. Control /\ Registers /\ Access({"init", "load"}) /\ LastAccess
  BY Zenon DEF Inv, CmdInit
<1>2. /\ Control' /\ Busy /\ Fn \in {"init", "load"} /\ op' = op /\ msg' = msg
      /\ pc' = pc + 1 /\ step' = 1 /\ (Busy' <=> pc < Len(Program)) /\ Program' = Program
      /\ Fn' = Program[pc + 1][1] /\ step = Accesses(Fn)
  BY <1>1, Moves
<1>3. /\ op \in Ops /\ pc \in 1 .. Len(Program) /\ Begins(Program, op, msg, Size(op, msg), pc)
      /\ Size(op, msg) \in Nat \ {0}
  BY <1>1, <1>2, Here
<1>4. Held /\ AtLoad
  BY <1>2 DEF Inv, Held
<1>5. Hx = Split(Given, 8)
  <2>1. CASE Fn = "init"
    <3>1. step > 1 /\ step - 2 = 0
      BY <1>2, <2>1, AccessesAre
    <3>2. Hx = Loaded(Given, 0)
      BY <1>4, <3>1, Zenon DEF AtLoad
    <3>3. Loaded(Given, 0) = Split(H0, 8) /\ Given = H0
      BY <1>1, <1>2, <2>1, LoadedIs, GivenIs
    <3> QED
      BY <3>2, <3>3, Zenon
  <2>2. CASE Fn = "load"
    <3>1. step > 1 /\ step - 2 = 8
      BY <1>2, <2>2, AccessesAre
    <3>2. Hx = Loaded(Given, 8)
      BY <1>4, <3>1, Zenon DEF AtLoad
    <3>3. Loaded(Given, 8) = Split(Given, 8)
      BY LoadedIs
    <3> QED
      BY <3>2, <3>3, Zenon
  <2> QED
    BY <1>2, <2>1, <2>2
<1>6. hash' = Given /\ hash_cnt' = 0 /\ pre_cnt' = 0
  <2>1. words = <<>>
    BY <1>4, Zenon DEF AtLoad, Quiet
  <2>2. hash' = Join(Hx) /\ hash_cnt' = 0 /\ pre_cnt' = 0
    BY <2>1, Zenon DEF CmdInit, Initialise
  <2>3. Join(Split(Given, 8)) = Given
    BY SplitIs
  <2> QED
    BY <1>5, <2>2, <2>3, Zenon
<1>7. UNCHANGED <<result, Hx, reg_done, hash_r, cnt, words, pre>>
  BY DEF CmdInit
<1>8. Quiet' /\ result' = <<>> /\ Busy'
  BY <1>2, <1>3, <1>4, <1>7 DEF AtLoad, Quiet, Begins
<1>9. Registers'
  BY <1>1, <1>6, <1>7 DEF Registers
<1>10. CASE pc = 1
  <2>1. Fn' = "block" /\ Program[1] = First(op, msg) /\ pc' - 2 = 0
    BY <1>2, <1>3, <1>10 DEF Begins
  <2>2. Given = After(op, msg, 0)
    BY <1>1, <1>2, <1>10, GivenIs
  <2>3. hash' = After(op', msg', pc' - 2)
    BY <1>2, <1>6, <2>1, <2>2, Zenon
  <2>4. words' = Split(Arg', step' - 1)
    <3>1. step' - 1 = 0 /\ words' = <<>>
      BY <1>2, <1>8 DEF Quiet
    <3>2. Split(Arg', 0) = <<>>
      BY SplitIs
    <3> QED
      BY <3>1, <3>2, Zenon
  <2>5. AtBlock'
    <3>1. step' <= BlockWords /\ ~(step' > 1) /\ cnt' = BlockWords
      BY <1>2, <1>8 DEF BlockWords, Quiet
    <3> QED
      BY <1>8, <2>3, <2>4, <3>1, Zenon DEF AtBlock
  <2>6. Counting'
    BY <1>6, <2>1 DEF Counting
  <2>7. Preparing'
    <3>1. ~(pc' > 2) /\ ~(step' > 4)
      BY <1>2, <1>10
    <3> QED
      BY <3>1, Zenon DEF Preparing
  <2>8. Default'
    <3>1. op.fn \notin {"posthash", "precalc"} => Hx = Split(H0, 8)
      <4>1. op.fn \notin {"posthash", "precalc"} => Given = H0
        BY <1>3, <2>2, HashesEnd
      <4> QED
        BY <1>5, <4>1
    <3> QED
      BY <1>2, <1>7, <3>1 DEF Default, HashWords
  <2>9. Held'
    BY <2>1, <2>5, <2>6, <2>7, <2>8 DEF Held
  <2> QED
    BY <1>2, <1>8, <1>9, <2>9, Zenon DEF Inv
<1>11. CASE pc # 1
  <2>1. Fn' = "double" /\ op.fn = "posthash" /\ Program[pc] = sha256_init /\ pc > 1
    BY <1>2, <1>3, <1>11 DEF Begins
  <2>2. Given = H0
    <3>1. Fn = "init"
      BY <2>1 DEF Fn, sha256_init
    <3> QED
      BY <1>1, <1>2, <3>1, GivenIs
  <2>3. Hx' = Split(H0, HashWords)
    BY <1>5, <1>7, <2>2 DEF HashWords
  <2>4. hash_r' = After(op', msg', Size(op', msg'))
    <3>1. hash_r = After(op, msg, Size(op, msg))
      BY <1>4, <2>1, Zenon DEF AtLoad
    <3> QED
      BY <1>2, <1>7, <3>1, Zenon
  <2>5. AtDouble'
    BY <1>2, <1>8, <2>3, <2>4, Zenon DEF AtDouble
  <2>6. Counting'
    BY <1>6, <2>1 DEF Counting
  <2>7. Preparing' /\ Default'
    BY <1>2, <2>1 DEF Preparing, Default
  <2>8. Held'
    BY <2>1, <2>5, <2>6, <2>7 DEF Held
  <2> QED
    BY <1>2, <1>8, <1>9, <2>8, Zenon DEF Inv
<1> QED
  BY <1>10, <1>11

(* reg_dbl brings the default value to A..H and has the last hash sent. *)
LEMMA CmdDblStep ==
  ASSUME Inv, CmdDbl
  PROVE  Inv'
<1>1. Control /\ Registers /\ Access({"double"}) /\ step = 1
  BY Zenon DEF Inv, CmdDbl
<1>2. /\ Control' /\ Busy /\ Fn = "double" /\ op' = op /\ msg' = msg
      /\ Busy' /\ pc' = pc /\ step' = 2 /\ Fn' = Fn /\ Arg' = Arg
  <2>1. Fn = "double" /\ Control' /\ Busy /\ op' = op /\ msg' = msg
    BY <1>1, Moves
  <2>2. ~LastAccess
    BY <1>1, <2>1, AccessesAre DEF LastAccess
  <2> QED
    BY <1>1, <2>1, <2>2, Moves
<1>3. Held /\ AtDouble
  BY <1>2 DEF Inv, Held
<1>4. Hx = Split(H0, 8) /\ result = <<>> /\ Quiet /\ hash_r = After(op, msg, Size(op, msg))
  BY <1>1, <1>3 DEF AtDouble, HashWords
<1>5. hash' = H0 /\ hash_cnt' = 0 /\ pre_cnt' = 0 /\ reg_done' = FALSE /\ cnt' = 0
  <2>1. words = <<>>
    BY <1>4, Zenon DEF Quiet
  <2>2. hash' = Join(Hx) /\ hash_cnt' = 0 /\ pre_cnt' = 0 /\ reg_done' = FALSE /\ cnt' = 0
    BY <2>1, Zenon DEF CmdDbl, Initialise, DoneAfterDbl
  <2>3. Join(Split(H0, 8)) = H0
    BY SplitIs
  <2> QED
    BY <1>4, <2>2, <2>3, Zenon
<1>6. UNCHANGED <<result, Hx, hash_r, words, pre>>
  BY DEF CmdDbl
<1>7. AtDouble'
  <2>1. words' = Split(HashBlock(hash_r'), cnt')
    <3>1. Split(HashBlock(hash_r'), 0) = <<>>
      BY SplitIs
    <3> QED
      BY <1>4, <1>5, <1>6, <3>1, Zenon DEF Quiet
  <2>2. hash_r' = After(op', msg', Size(op', msg'))
    BY <1>2, <1>4, <1>6, Zenon
  <2>3. step' > 1 /\ ~reg_done'
    BY <1>2, <1>5
  <2>4. Hx' = Split(H0, HashWords) /\ result' = <<>>
    BY <1>4, <1>6 DEF HashWords
  <2> QED
    BY <1>5, <2>1, <2>2, <2>3, <2>4, Zenon DEF AtDouble
<1>8. Counting'
  BY <1>2, <1>5 DEF Counting
<1>9. Preparing' /\ Default'
  <2>1. op.fn \in {"dsha256", "posthash"}
    BY <1>1, <1>2, Here DEF Doubles
  <2>2. Hx' = Split(H0, HashWords)
    BY <1>4, <1>6 DEF HashWords
  <2> QED
    BY <1>2, <2>1, <2>2 DEF Preparing, Default
<1>10. Held'
  BY <1>2, <1>7, <1>8, <1>9 DEF Held
<1>11. Registers'
  <2>1. hash_cnt' \in 0 .. 7 /\ pre_cnt' \in 0 .. 7 /\ cnt' \in 0 .. BlockWords
    BY <1>5 DEF BlockWords
  <2>2. Len(result') <= HashWords /\ Len(Hx') = HashWords /\ Len(words') <= BlockWords
    BY <1>1, <1>6 DEF Registers
  <2>3. reg_done' \in BOOLEAN
    BY <1>5, Zenon
  <2> QED
    BY <2>1, <2>2, <2>3, Zenon DEF Registers
<1> QED
  BY <1>2, <1>10, <1>11, Zenon DEF Inv

(* A word of a block is written. *)
LEMMA WriteDinStep ==
  ASSUME Inv, WriteDin
  PROVE  Inv'
<1>1. Control /\ Registers /\ Access({"block"}) /\ ~LastAccess
  BY Zenon DEF Inv, WriteDin
<1>2. /\ Control' /\ Busy /\ Fn = "block" /\ op' = op /\ msg' = msg
      /\ Busy' /\ pc' = pc /\ step' = step + 1 /\ Fn' = Fn /\ Arg' = Arg /\ step < Accesses(Fn)
  <2>1. Fn = "block" /\ Control' /\ Busy /\ op' = op /\ msg' = msg
    BY <1>1, Moves
  <2> QED
    BY <1>1, <2>1, Moves
<1>3. /\ op \in Ops /\ step \in 1 .. 16 /\ Size(op, msg) \in Nat \ {0}
      /\ Feeds(Program, op, msg, Size(op, msg), pc) /\ pc \in 1 .. Len(Program)
  <2>1. /\ op \in Ops /\ Feeds(Program, op, msg, Size(op, msg), pc) /\ step \in 1 .. Accesses(Fn)
        /\ Size(op, msg) \in Nat \ {0} /\ pc \in 1 .. Len(Program)
    BY <1>1, <1>2, Here
  <2> QED
    BY <1>2, <2>1, AccessesAre
<1>4. Held /\ AtBlock
  BY <1>2 DEF Inv, Held
<1>5. /\ cnt = BlockWords /\ result = <<>> /\ words = Split(Arg, step - 1)
      /\ hash = After(op, msg, pc - 2)
  BY <1>3, <1>4 DEF AtBlock, BlockWords
<1> DEFINE t == step - 1
<1>6. t \in Nat /\ t + 1 = step /\ t < 16
  BY <1>3
<1>7. Len(words) = t /\ Len(words) # BlockWords
  <2>1. Len(Split(Arg, t)) = t
    BY <1>6, SplitIs
  <2>2. Len(words) = t
    BY <1>5, <2>1, Zenon
  <2> QED
    BY <1>6, <2>2 DEF BlockWords
<1>8. words' = Append(words, <<Arg, step>>) /\ words' = Split(Arg, step) /\ Len(words') = step
  <2>1. words' = Append(words, <<Arg, step>>)
    BY <1>7, Zenon DEF WriteDin, Enter
  <2> HIDE DEF t
  <2>2. Append(Split(Arg, t), <<Arg, t + 1>>) = Split(Arg, t + 1) /\ Len(Split(Arg, t + 1)) = t + 1
    <3>1. t + 1 \in Nat
      BY <1>6
    <3> QED
      BY <1>6, <3>1, SplitIs
  <2>3. words = Split(Arg, t)
    BY <1>5 DEF t
  <2> QED
    BY <1>6, <2>1, <2>2, <2>3, Zenon
<1>9. reg_done' = FALSE /\ UNCHANGED <<result, Hx, hash_cnt, pre_cnt, hash_r, cnt, hash>>
  BY DEF WriteDin
<1>10. pre' = IF Len(words') = 4 THEN <<hash, SubSeq(words, 1, 3)>> ELSE pre
  BY <1>7, Zenon DEF WriteDin, Enter
<1>11. AtBlock'
  <2>1. step' - 1 = step /\ words' = Split(Arg', step' - 1)
    BY <1>2, <1>3, <1>8
  <2>2. cnt' = BlockWords /\ result' = <<>> /\ hash' = After(op', msg', pc' - 2)
    BY <1>2, <1>5, <1>9, Zenon
  <2>3. ~reg_done'
    BY <1>9
  <2>4. CASE step = 16
    <3>1. step' > BlockWords /\ step' - 1 = BlockWords
      BY <1>2, <2>4 DEF BlockWords
    <3> QED
      BY <2>1, <2>2, <2>3, <3>1, Zenon DEF AtBlock
  <2>5. CASE step # 16
    <3>1. step' <= BlockWords
      BY <1>2, <1>3, <2>5 DEF BlockWords
    <3> QED
      BY <2>1, <2>2, <2>3, <3>1, Zenon DEF AtBlock
  <2> QED
    BY <2>4, <2>5
<1>12. Counting'
  BY <1>2, <1>4, <1>9, CountersStay DEF Held
<1>13. Preparing'
  <2> SUFFICES ASSUME op'.fn = "precalc", pc' > 2 \/ (pc' = 2 /\ step' > 4)
               PROVE  pre' = Pre(op', msg')
    BY Zenon DEF Preparing
  <2>1. op.fn = "precalc" /\ Size(op, msg) = 1
    BY <1>2, <1>3, BodyIs DEF Size
  <2>2. pc = 2 /\ Arg = Args(Body(op, msg))[1]
    BY <1>3, <2>1 DEF Feeds, Arg
  <2>3. step >= 4
    BY <1>2, <1>3, <2>2
  <2>4. CASE step = 4
    <3>1. pre' = <<hash, SubSeq(words, 1, 3)>>
      BY <1>8, <1>10, <2>4
    <3>2. hash = After(op, msg, 0)
      BY <1>5, <2>2
    <3>3. words = Split(Arg, 3)
      BY <1>5, <2>4
    <3>4. SubSeq(Split(Arg, 3), 1, 3) = Split(Arg, 3)
      BY SplitIs
    <3> QED
      BY <1>2, <2>2, <3>1, <3>2, <3>3, <3>4, Zenon DEF Pre
  <2>5. CASE step > 4
    <3>1. pre' = pre
      BY <1>3, <1>8, <1>10, <2>5
    <3>2. pre = Pre(op, msg)
      BY <1>4, <2>1, <2>2, <2>5 DEF Held, Preparing
    <3> QED
      BY <1>2, <3>1, <3>2
  <2> QED
    BY <1>3, <2>3, <2>4, <2>5
<1>14. Default'
  BY <1>2, <1>4, <1>9 DEF Held, Default
<1>15. Held'
  BY <1>2, <1>11, <1>12, <1>13, <1>14 DEF Held
<1>16. Registers'
  <2>1. Len(words') <= BlockWords
    BY <1>3, <1>8 DEF BlockWords
  <2>2. reg_done' \in BOOLEAN
    BY <1>9, Zenon
  <2>3. Len(result') <= HashWords /\ Len(Hx') = HashWords /\ hash_cnt' \in 0 .. 7 /\ pre_cnt' \in 0 .. 7
    BY <1>1, <1>9 DEF Registers
  <2>4. cnt' \in 0 .. BlockWords
    BY <1>1, <1>9 DEF Registers
  <2> QED
    BY <2>1, <2>2, <2>3, <2>4, Zenon DEF Registers
<1> QED
  BY <1>2, <1>15, <1>16, Zenon DEF Inv

(* The call goes on when reg_done says that the block, or the hash, is compressed. *)
LEMMA PollDoneStep ==
  ASSUME Inv, PollDone
  PROVE  Inv'
<1>1. Control /\ Registers /\ Access({"block", "double"}) /\ LastAccess /\ reg_done
  BY Zenon DEF Inv, PollDone
<1>2. /\ Control' /\ Busy /\ Fn \in {"block", "double"} /\ op' = op /\ msg' = msg
      /\ pc' = pc + 1 /\ step' = 1 /\ (Busy' <=> pc < Len(Program)) /\ Program' = Program
      /\ Fn' = Program[pc + 1][1] /\ step = Accesses(Fn)
  BY <1>1, Moves
<1>3. /\ op \in Ops /\ pc \in 1 .. Len(Program) /\ Size(op, msg) \in Nat \ {0}
      /\ Fn = "block" => Feeds(Program, op, msg, Size(op, msg), pc)
      /\ Fn = "double" => Doubles(Program, op, Size(op, msg), pc)
  BY <1>1, <1>2, Here
<1>4. UNCHANGED <<result, Hx, reg_done, hash_cnt, pre_cnt, hash_r, cnt, hash, words, pre>>
  BY DEF PollDone
<1>5. Registers'
  BY <1>1, <1>4 DEF Registers
<1>6. Held
  BY <1>2 DEF Inv
<1>7. /\ Quiet /\ result = <<>>
      /\ Fn = "block" => hash = After(op, msg, pc - 1) /\ hash_r = hash
      /\ Fn = "double" => hash = FinalHash(op, msg)
  <2>1. CASE Fn = "block"
    <3>1. ~(step <= BlockWords) /\ AtBlock
      BY <1>2, <1>6, <2>1, AccessesAre DEF BlockWords, Held
    <3> QED
      BY <1>1, <2>1, <3>1 DEF AtBlock, Quiet
  <2>2. CASE Fn = "double"
    <3>1. ~(step = 1) /\ AtDouble
      BY <1>2, <1>6, <2>2, AccessesAre DEF Held
    <3> QED
      BY <1>1, <2>2, <3>1 DEF AtDouble
  <2> QED
    BY <1>2, <2>1, <2>2
<1>8. Quiet' /\ result' = <<>> /\ hash' = hash /\ hash_r' = hash_r /\ Hx' = Hx /\ pre' = pre
  BY <1>4, <1>7 DEF Quiet
<1>9. /\ Split(hash', step' - 1) = <<>> /\ Split(pre', step' - 1) = <<>> /\ Split(Arg', step' - 1) = <<>>
      /\ step' - 1 = 0
  <2>1. step' - 1 = 0
    BY <1>2
  <2>2. Split(hash', 0) = <<>> /\ Split(pre', 0) = <<>> /\ Split(Arg', 0) = <<>>
    BY SplitIs
  <2> QED
    BY <2>1, <2>2, Zenon
<1>10. Counting'
  <2>1. pc > 1
    BY <1>3, <1>2 DEF Feeds, Doubles
  <2>2. hash_cnt = 0 /\ pre_cnt = 0
    BY <1>2, <1>6, <2>1 DEF Held, Counting
  <2> QED
    BY <1>4, <1>9, <2>2, Zenon DEF Counting
<1>11. Preparing'
  <2> SUFFICES ASSUME op.fn = "precalc"
               PROVE  pre' = Pre(op', msg')
    BY <1>2, Zenon DEF Preparing
  <2>1. Fn = "block" /\ pc > 1
    BY <1>2, <1>3 DEF Doubles, Feeds
  <2>2. step > 4 /\ (pc > 2 \/ pc = 2)
    BY <1>2, <1>3, <2>1, AccessesAre
  <2>3. pre = Pre(op, msg)
    BY <1>6, <2>2, Zenon DEF Held, Preparing
  <2> QED
    BY <1>2, <1>8, <2>3, Zenon
<1>12. Default'
  <2>1. pc > 1
    BY <1>3, <1>2 DEF Feeds, Doubles
  <2> QED
    BY <1>2, <1>6, <1>8, <2>1, Zenon DEF Held, Default
<1>13. AtFinal' \/ Fn' # "final"
  <2> SUFFICES ASSUME Fn' = "final"
               PROVE  hash = FinalHash(op, msg)
    BY <1>2, <1>8, <1>9, Zenon DEF AtFinal
  <2>1. CASE Fn = "block"
    <3>1. pc - 1 = Size(op, msg) /\ op.fn \in {"midstate", "sha256"}
      BY <1>2, <1>3, <2>1 DEF Feeds
    <3>2. hash = After(op, msg, pc - 1)
      BY <1>7, <2>1
    <3> QED
      BY <3>1, <3>2, Zenon DEF FinalHash
  <2>2. CASE Fn = "double"
    BY <1>7, <2>2
  <2> QED
    BY <1>2, <2>1, <2>2
<1>14. AtPrecalc'
  BY <1>8, <1>9, Zenon DEF AtPrecalc
<1>15. AtBlock' \/ Fn' # "block"
  <2> SUFFICES ASSUME Fn' = "block"
               PROVE  AtBlock'
    OBVIOUS
  <2>1. Fn = "block" /\ pc - 1 = pc' - 2
    BY <1>2, <1>3 DEF Doubles
  <2>2. hash' = After(op', msg', pc' - 2)
    BY <1>2, <1>7, <1>8, <2>1, Zenon
  <2>3. step' <= BlockWords /\ ~(step' > 1)
    BY <1>2 DEF BlockWords
  <2> QED
    BY <1>8, <1>9, <2>2, <2>3, Zenon DEF AtBlock, Quiet
<1>16. Fn' \in {"double", "init", "load"} => Fn = "block" /\ pc - 1 = Size(op, msg)
  BY <1>2, <1>3 DEF Feeds, Doubles
<1>17. Fn' \in {"double", "init", "load"} => hash_r' = After(op', msg', Size(op', msg'))
  BY <1>2, <1>7, <1>8, <1>16
<1>18. AtDouble' \/ Fn' # "double"
  <2> SUFFICES ASSUME Fn' = "double"
               PROVE  Hx' = Split(H0, HashWords)
    BY <1>2, <1>8, <1>17, Zenon DEF AtDouble
  <2>1. op.fn = "dsha256" /\ pc > 1
    BY <1>2, <1>3, <1>16 DEF Feeds
  <2> QED
    BY <1>6, <1>8, <2>1 DEF Held, Default
<1>19. AtLoad' \/ Fn' \notin {"init", "load"}
  <2>1. ~(step' > 1)
    BY <1>2
  <2> QED
    BY <1>8, <1>17, <2>1 DEF AtLoad
<1>20. Busy'
  BY <1>2, <1>3 DEF Feeds, Doubles
<1>21. Held'
  BY <1>10, <1>11, <1>12, <1>13, <1>14, <1>15, <1>18, <1>19, Zenon DEF Held
<1> QED
  BY <1>2, <1>5, <1>20, <1>21, Zenon DEF Inv

(* A word of the result is read: of the last hash. *)
LEMMA ReadHashStep ==
  ASSUME Inv, ReadHash
  PROVE  Inv'
<1>1. Control /\ Registers /\ Access({"final"})
  BY Zenon DEF Inv, ReadHash
<1>2. /\ Control' /\ Busy /\ Fn = "final" /\ op' = op /\ msg' = msg
      /\ ~LastAccess => Busy' /\ pc' = pc /\ step' = step + 1 /\ Fn' = Fn /\ step < 8
      /\ LastAccess => step = 8 /\ (Busy' <=> pc < Len(Program))
  <2>1. Fn = "final" /\ Control' /\ Busy /\ op' = op /\ msg' = msg
    BY <1>1, Moves
  <2> QED
    BY <1>1, <2>1, Moves, AccessesAre
<1>3. /\ op \in Ops /\ op # NoOp /\ step \in 1 .. 8 /\ pc > 1 /\ Ends(Program, op, Size(op, msg), pc)
      /\ op.fn # "precalc" /\ pc = Len(Program)
  <2>1. /\ op \in Ops /\ op # NoOp /\ Ends(Program, op, Size(op, msg), pc) /\ step \in 1 .. Accesses(Fn)
        /\ Size(op, msg) \in Nat \ {0} /\ pc \in 1 .. Len(Program)
    BY <1>1, <1>2, Here
  <2>2. op.fn # "precalc"
    BY <1>2, <2>1 DEF Ends, Fn
  <2> QED
    BY <1>2, <2>1, <2>2, AccessesAre DEF Ends
<1>4. Held /\ AtFinal
  BY <1>2 DEF Inv, Held
<1>5. Quiet /\ hash = FinalHash(op, msg) /\ result = Split(hash, step - 1) /\ hash_cnt = step - 1 /\ pre_cnt = 0
  <2>1. hash_cnt = step - 1 /\ pre_cnt = 0
    BY <1>2, <1>3, <1>4 DEF Held, Counting
  <2> QED
    BY <1>4, <2>1, Zenon DEF AtFinal
<1>6. UNCHANGED <<Hx, reg_done, pre_cnt, hash_r, cnt, hash, words, pre>> /\ hash_cnt' = (hash_cnt + 1) % 8
  BY DEF ReadHash, NextWord
<1>7. result' = Split(hash, step) /\ Len(result') = step
  <2> DEFINE t == step - 1
  <2>1. t \in Nat /\ t + 1 = step /\ t + 1 \in Nat
    BY <1>3
  <2>2. words = <<>>
    BY <1>5 DEF Quiet
  <2>3. result' = Append(result, <<hash, hash_cnt + 1>>)
    BY <2>2 DEF ReadHash
  <2>4. result = Split(hash, t) /\ hash_cnt = t
    BY <1>5
  <2> HIDE DEF t
  <2>5. Append(Split(hash, t), <<hash, t + 1>>) = Split(hash, t + 1) /\ Len(Split(hash, t + 1)) = t + 1
    BY <2>1, SplitIs
  <2> QED
    BY <2>1, <2>3, <2>4, <2>5, Zenon
<1>8. Registers'
  <2>1. Len(result') <= HashWords
    BY <1>3, <1>7 DEF HashWords
  <2>2. hash_cnt' \in 0 .. 7
    BY <1>3, <1>5, <1>6
  <2>3. Len(Hx') = HashWords /\ pre_cnt' \in 0 .. 7 /\ cnt' \in 0 .. BlockWords /\ Len(words') <= BlockWords
    BY <1>1, <1>6 DEF Registers
  <2>4. reg_done' \in BOOLEAN
    BY <1>1, <1>6, Zenon DEF Registers
  <2> QED
    BY <2>1, <2>2, <2>3, <2>4, Zenon DEF Registers
<1>9. CASE ~LastAccess
  <2>1. Busy' /\ pc' = pc /\ step' = step + 1 /\ Fn' = "final" /\ step < 8
    BY <1>2, <1>9
  <2>2. hash_cnt' = step' - 1
    BY <1>3, <1>5, <1>6, <2>1
  <2>3. AtFinal'
    <3>1. step' - 1 = step
      BY <1>3, <2>1
    <3>2. Quiet'
      BY <1>5, <1>6 DEF Quiet
    <3>3. hash' = FinalHash(op', msg') /\ result' = Split(hash', step' - 1)
      BY <1>2, <1>5, <1>6, <1>7, <3>1, Zenon
    <3> QED
      BY <3>2, <3>3, Zenon DEF AtFinal
  <2>4. Counting'
    BY <1>5, <1>6, <2>1, <2>2 DEF Counting
  <2>5. Preparing' /\ Default'
    BY <1>2, <1>3, <1>4, <1>6, <2>1 DEF Held, Preparing, Default
  <2>6. Held'
    BY <2>1, <2>3, <2>4, <2>5 DEF Held
  <2> QED
    BY <1>2, <1>8, <2>1, <2>6, Zenon DEF Inv
<1>10. CASE LastAccess
  <2>1. step = 8 /\ ~Busy'
    BY <1>2, <1>3, <1>10
  <2>2. result' = Expected(op', msg')
    <3>1. Expected(op, msg) = Split(FinalHash(op, msg), HashWords)
      BY <1>3, HashesEnd
    <3> QED
      BY <1>2, <1>5, <1>7, <2>1, <3>1 DEF HashWords
  <2>3. Quiet'
    BY <1>5, <1>6 DEF Quiet
  <2>4. Rest'
    BY <2>2, <2>3, Zenon DEF Rest
  <2> QED
    BY <1>2, <1>8, <2>1, <2>4, Zenon DEF Inv
<1> QED
  BY <1>9, <1>10

(* A word of the result is read: of what the first three rounds left. *)
LEMMA ReadPreStep ==
  ASSUME Inv, ReadPre
  PROVE  Inv'
<1>1. Control /\ Registers /\ Access({"precalc"})
  BY Zenon DEF Inv, ReadPre
<1>2. /\ Control' /\ Busy /\ Fn = "precalc" /\ op' = op /\ msg' = msg
      /\ ~LastAccess => Busy' /\ pc' = pc /\ step' = step + 1 /\ Fn' = Fn /\ step < 6
      /\ LastAccess => step = 6 /\ (Busy' <=> pc < Len(Program))
  <2>1. Fn = "precalc" /\ Control' /\ Busy /\ op' = op /\ msg' = msg
    BY <1>1, Moves
  <2> QED
    BY <1>1, <2>1, Moves, AccessesAre
<1>3. /\ op \in Ops /\ op # NoOp /\ step \in 1 .. 6 /\ pc > 2 /\ op.fn = "precalc" /\ pc = Len(Program)
  <2>1. /\ op \in Ops /\ op # NoOp /\ Ends(Program, op, Size(op, msg), pc) /\ step \in 1 .. Accesses(Fn)
        /\ Size(op, msg) \in Nat \ {0} /\ pc \in 1 .. Len(Program)
    BY <1>1, <1>2, Here
  <2>2. op.fn = "precalc"
    BY <1>2, <2>1 DEF Ends, Fn
  <2> QED
    BY <1>2, <2>1, <2>2, AccessesAre DEF Ends
<1>4. Held /\ AtPrecalc
  BY <1>2 DEF Inv, Held
<1>5. Quiet /\ pre = Pre(op, msg) /\ result = Split(pre, step - 1) /\ hash_cnt = 0 /\ pre_cnt = step - 1
  <2>1. hash_cnt = 0 /\ pre_cnt = step - 1
    BY <1>2, <1>3, <1>4 DEF Held, Counting
  <2>2. pre = Pre(op, msg)
    BY <1>3, <1>4, Zenon DEF Held, Preparing
  <2> QED
    BY <1>4, <2>1, <2>2, Zenon DEF AtPrecalc
<1>6. UNCHANGED <<Hx, reg_done, hash_cnt, hash_r, cnt, hash, words, pre>> /\ pre_cnt' = (pre_cnt + 1) % 8
  BY DEF ReadPre, NextWord
<1>7. result' = Split(pre, step) /\ Len(result') = step
  <2> DEFINE t == step - 1
  <2>1. t \in Nat /\ t + 1 = step /\ t + 1 \in Nat
    BY <1>3
  <2>2. result' = Append(result, <<pre, pre_cnt + 1>>)
    BY DEF ReadPre
  <2>3. result = Split(pre, t) /\ pre_cnt = t
    BY <1>5
  <2> HIDE DEF t
  <2>4. Append(Split(pre, t), <<pre, t + 1>>) = Split(pre, t + 1) /\ Len(Split(pre, t + 1)) = t + 1
    BY <2>1, SplitIs
  <2> QED
    BY <2>1, <2>2, <2>3, <2>4, Zenon
<1>8. Registers'
  <2>1. Len(result') <= HashWords
    BY <1>3, <1>7 DEF HashWords
  <2>2. pre_cnt' \in 0 .. 7
    BY <1>3, <1>5, <1>6
  <2>3. Len(Hx') = HashWords /\ hash_cnt' \in 0 .. 7 /\ cnt' \in 0 .. BlockWords /\ Len(words') <= BlockWords
    BY <1>1, <1>6 DEF Registers
  <2>4. reg_done' \in BOOLEAN
    BY <1>1, <1>6, Zenon DEF Registers
  <2> QED
    BY <2>1, <2>2, <2>3, <2>4, Zenon DEF Registers
<1>9. CASE ~LastAccess
  <2>1. Busy' /\ pc' = pc /\ step' = step + 1 /\ Fn' = "precalc" /\ step < 6
    BY <1>2, <1>9
  <2>2. pre_cnt' = step' - 1
    BY <1>3, <1>5, <1>6, <2>1
  <2>3. AtPrecalc'
    <3>1. step' - 1 = step
      BY <1>3, <2>1
    <3>2. Quiet'
      BY <1>5, <1>6 DEF Quiet
    <3>3. result' = Split(pre', step' - 1)
      BY <1>6, <1>7, <3>1, Zenon
    <3> QED
      BY <3>2, <3>3, Zenon DEF AtPrecalc
  <2>4. Counting'
    BY <1>5, <1>6, <2>1, <2>2 DEF Counting
  <2>5. Preparing' /\ Default'
    BY <1>2, <1>3, <1>5, <1>6, <2>1 DEF Preparing, Default
  <2>6. Held'
    BY <2>1, <2>3, <2>4, <2>5 DEF Held
  <2> QED
    BY <1>2, <1>8, <2>1, <2>6, Zenon DEF Inv
<1>10. CASE LastAccess
  <2>1. step = 6 /\ ~Busy'
    BY <1>2, <1>3, <1>10
  <2>2. result' = Expected(op', msg')
    <3>1. Expected(op, msg) = Split(Pre(op, msg), PreWords)
      BY <1>3, HashesEnd
    <3> QED
      BY <1>2, <1>5, <1>7, <2>1, <3>1 DEF PreWords
  <2>3. Quiet'
    BY <1>5, <1>6 DEF Quiet
  <2>4. Rest'
    BY <2>2, <2>3, Zenon DEF Rest
  <2> QED
    BY <1>2, <1>8, <2>1, <2>4, Zenon DEF Inv
<1> QED
  BY <1>9, <1>10

(* A call begins when the one before has left the unit quiet. *)
LEMMA CallStep ==
  ASSUME Inv, Call
  PROVE  Inv'
<1>1. Control /\ Registers /\ Rest
  BY DEF Inv, Call
<1>2. /\ op' \in Ops /\ pc' = 1 /\ step' = 1 /\ msg' = 1 - msg /\ result' = <<>>
      /\ UNCHANGED <<Hx, reg_done, hash_cnt, pre_cnt, hash_r, cnt, hash, words, pre>>
  BY DEF Call
<1>3. op' # NoOp
  BY <1>2, Calls
<1>4. Shaped(Program', op', msg', Size(op', msg')) /\ Size(op', msg') \in Nat
  <2>1. Shaped(Statements(op', msg'), op', msg', Size(op', msg'))
    BY <1>2, Shape
  <2>2. Size(op', msg') \in Nat
    BY <1>2, BodyIs DEF Size
  <2>3. Program' = Statements(op', msg')
    BY DEF Program
  <2> QED
    BY <2>1, <2>2, <2>3, Zenon
<1>5. Len(Program') \in Nat /\ Len(Program') >= 1 /\ Fn' \in {"init", "load"}
  <2>1. Len(Program') = Size(op', msg') + 1 + Len(Ending(op')) /\ Program'[1] = First(op', msg')
    BY <1>4, Zenon DEF Shaped
  <2>2. Len(Ending(op')) \in Nat
    <3>1. op'.fn \in {"midstate", "sha256", "dsha256", "posthash", "precalc"}
      BY <1>2, Calls
    <3> QED
      BY <3>1 DEF Ending
  <2>3. First(op', msg')[1] \in {"init", "load"}
    BY DEF First, load_hash, sha256_init
  <2>4. Fn' = Program'[1][1]
    BY <1>2, Zenon DEF Fn
  <2> QED
    BY <1>4, <2>1, <2>2, <2>3, <2>4
<1>6. Busy'
  BY <1>2, <1>3, <1>5 DEF Busy
<1>7. Control'
  <2>1. msg' \in {0, 1} /\ pc' \in 1 .. Len(Program') + 1
    BY <1>1, <1>2, <1>5 DEF Control
  <2>2. step' \in 1 .. Accesses(Fn')
    BY <1>2, AccessesAre
  <2> QED
    BY <1>2, <1>3, <1>6, <2>1, <2>2 DEF Control
<1>8. Registers'
  BY <1>1, <1>2 DEF Registers, HashWords
<1>9. AtLoad'
  <2>1. ~(step' > 1) /\ ~(pc' > 1)
    BY <1>2
  <2>2. Quiet' /\ result' = <<>>
    BY <1>1, <1>2 DEF Rest, Quiet
  <2> QED
    BY <2>1, <2>2, Zenon DEF AtLoad
<1>10. Counting' /\ Preparing' /\ Default'
  BY <1>2 DEF Counting, Preparing, Default
<1>11. Held'
  BY <1>5, <1>9, <1>10 DEF Held
<1> QED
  BY <1>6, <1>7, <1>8, <1>11, Zenon DEF Inv

(* The unit works on its own only while a block is waiting for it or a hash is streamed. *)
LEMMA UnitAtWork ==
  ASSUME Inv, Len(words) = BlockWords \/ cnt < BlockWords
  PROVE  /\ Busy /\ Held /\ op \in Ops /\ pc > 1 /\ Size(op, msg) \in Nat \ {0}
         /\ \/ Fn = "block" /\ AtBlock /\ pc \in 2 .. Size(op, msg) + 1
               /\ Arg = Args(Body(op, msg))[pc - 1]
            \/ Fn = "double" /\ AtDouble /\ op.fn \in {"dsha256", "posthash"}
<1>1. ~Quiet
  BY DEF Quiet, BlockWords
<1>2. Busy /\ Held /\ Control
  BY <1>1 DEF Inv, Rest
<1>3. Fn \in {"block", "double"}
  <2>1. Fn \in {"init", "load", "block", "double", "final", "precalc"}
    BY <1>2, Here
  <2> QED
    BY <1>1, <1>2, <2>1 DEF Held, AtLoad, AtFinal, AtPrecalc
<1>4. /\ op \in Ops /\ Size(op, msg) \in Nat \ {0} /\ pc \in 1 .. Len(Program)
      /\ Fn = "block" => Feeds(Program, op, msg, Size(op, msg), pc)
      /\ Fn = "double" => Doubles(Program, op, Size(op, msg), pc)
  BY <1>2, <1>3, Here
<1>5. CASE Fn = "block"
  BY <1>2, <1>4, <1>5 DEF Held, Feeds, Arg
<1>6. CASE Fn = "double"
  BY <1>2, <1>4, <1>6 DEF Held, Doubles
<1> QED
  BY <1>3, <1>5, <1>6

(* Meanwhile the call is where it was. *)
LEMMA DriverStays ==
  ASSUME Control, Busy, UNCHANGED driver
  PROVE  /\ Control' /\ Busy' /\ op' = op /\ msg' = msg /\ pc' = pc /\ step' = step
         /\ result' = result /\ Fn' = Fn /\ Arg' = Arg
<1>1. op' = op /\ msg' = msg /\ pc' = pc /\ step' = step /\ result' = result
  BY DEF driver
<1>2. Program' = Program
  BY <1>1, Zenon DEF Program
<1>3. Fn' = Fn /\ Arg' = Arg /\ (Busy' <=> Busy)
  BY <1>1, <1>2, Zenon DEF Fn, Arg, Busy
<1>4. Control'
  BY <1>1, <1>2, <1>3, Zenon DEF Control
<1> QED
  BY <1>1, <1>3, <1>4

(* A block is compressed: one of the message, or the hash of it. *)
LEMMA FinishStep ==
  ASSUME Inv, Finish
  PROVE  Inv'
<1>1. Control /\ Registers /\ Len(words) = BlockWords
  BY Zenon DEF Inv, Finish
<1>2. /\ Busy /\ Held /\ op \in Ops /\ pc > 1 /\ Size(op, msg) \in Nat \ {0}
      /\ \/ Fn = "block" /\ AtBlock /\ pc \in 2 .. Size(op, msg) + 1
            /\ Arg = Args(Body(op, msg))[pc - 1]
         \/ Fn = "double" /\ AtDouble /\ op.fn \in {"dsha256", "posthash"}
  BY <1>1, UnitAtWork
<1>3. /\ Control' /\ Busy' /\ op' = op /\ msg' = msg /\ pc' = pc /\ step' = step
      /\ result' = result /\ Fn' = Fn /\ Arg' = Arg
  BY <1>1, <1>2, DriverStays DEF Finish
<1>4. /\ words' = <<>> /\ hash' = Compress(hash, Join(words)) /\ hash_r' = hash' /\ reg_done' = TRUE
      /\ UNCHANGED <<Hx, hash_cnt, pre_cnt, cnt, pre>>
  BY DEF Finish
<1>5. Counting' /\ Preparing' /\ Default'
  BY <1>2, <1>3, <1>4 DEF Held, Counting, Preparing, Default
<1>6. Registers'
  <2>1. reg_done' \in BOOLEAN
    BY <1>4, Zenon
  <2>2. Len(words') <= BlockWords
    BY <1>4 DEF BlockWords
  <2>3. /\ Len(result') <= HashWords /\ Len(Hx') = HashWords /\ hash_cnt' \in 0 .. 7
        /\ pre_cnt' \in 0 .. 7 /\ cnt' \in 0 .. BlockWords
    BY <1>1, <1>3, <1>4 DEF Registers
  <2> QED
    BY <2>1, <2>2, <2>3, Zenon DEF Registers
<1>7. CASE Fn = "block"
  <2>1. AtBlock /\ pc \in 2 .. Size(op, msg) + 1 /\ Arg = Args(Body(op, msg))[pc - 1]
    BY <1>2, <1>7
  <2>2. step \in Nat
    BY <1>1, <1>2, Here, AccessesAre
  <2>3. step > BlockWords /\ words = Split(Arg, BlockWords) /\ hash = After(op, msg, pc - 2)
    <3>1. ~(step <= BlockWords /\ words = Split(Arg, step - 1))
      <4> SUFFICES ASSUME step <= BlockWords, words = Split(Arg, step - 1)
                   PROVE  FALSE
        OBVIOUS
      <4> DEFINE t == step - 1
      <4>1. t \in Nat /\ t < 16
        BY <1>1, <1>2, <2>2, Here DEF BlockWords
      <4> HIDE DEF t
      <4>2. Len(Split(Arg, t)) = t
        BY <4>1, SplitIs
      <4>3. Len(words) = t
        BY <4>2, Zenon DEF t
      <4>4. Len(words) = 16
        BY <1>1 DEF BlockWords
      <4>5. t = 16
        BY <4>3, <4>4, Zenon
      <4> QED
        BY <4>1, <4>5
    <3>2. words # <<>>
      BY <1>1 DEF BlockWords
    <3> QED
      BY <2>1, <3>1, <3>2, Zenon DEF AtBlock
  <2>4. hash' = After(op, msg, pc - 1)
    <3> DEFINE j == pc - 1
    <3>1. j \in 1 .. Size(op, msg) /\ j - 1 = pc - 2
      BY <1>2, <2>1
    <3> HIDE DEF j
    <3>2. Compress(After(op, msg, j - 1), Args(Body(op, msg))[j]) = After(op, msg, j)
      BY <1>2, <3>1, Compressed
    <3>3. Join(Split(Arg, BlockWords)) = Arg
      BY SplitIs DEF BlockWords
    <3> QED
      BY <1>4, <2>1, <2>3, <3>1, <3>2, <3>3, Zenon DEF j
  <2>5. AtBlock'
    <3>1. cnt' = BlockWords /\ result' = <<>>
      BY <1>3, <1>4, <2>1 DEF AtBlock
    <3>2. hash' = After(op', msg', pc' - 1) /\ step' > BlockWords
      BY <1>3, <2>3, <2>4, Zenon
    <3> QED
      BY <1>4, <3>1, <3>2, Zenon DEF AtBlock
  <2>6. Held'
    BY <1>3, <1>5, <1>7, <2>5 DEF Held
  <2> QED
    BY <1>3, <1>6, <2>6, Zenon DEF Inv
<1>8. CASE Fn = "double"
  <2>1. AtDouble /\ op.fn \in {"dsha256", "posthash"} /\ words # <<>>
    <3>1. words # <<>>
      BY <1>1 DEF BlockWords
    <3> QED
      BY <1>2, <1>8, <3>1
  <2>2. /\ step > 1 /\ hash = H0 /\ hash_r = After(op, msg, Size(op, msg))
        /\ words = Split(HashBlock(hash_r), cnt) /\ Hx = Split(H0, HashWords) /\ result = <<>>
    BY <2>1, Zenon DEF AtDouble, Quiet
  <2>3. cnt = BlockWords
    <3>1. cnt \in Nat
      BY <1>1 DEF Registers
    <3>2. Len(Split(HashBlock(hash_r), cnt)) = cnt
      BY <3>1, SplitIs
    <3> QED
      BY <1>1, <2>2, <3>2, Zenon
  <2>4. hash' = FinalHash(op, msg)
    <3> DEFINE h == After(op, msg, Size(op, msg))
               b == HashBlock(h)
    <3>1. Join(words) = b
      <4>1. Join(Split(b, BlockWords)) = b
        BY SplitIs DEF BlockWords
      <4> QED
        BY <2>2, <2>3, <4>1, Zenon
    <3>2. b # Junk /\ H0 # Junk
      BY HashesAre
    <3>3. FinalHash(op, msg) = <<"default", <<b>>>>
      BY <2>1 DEF FinalHash
    <3> HIDE DEF b, h
    <3>4. hash' = <<H0[1], Append(H0[2], b)>>
      BY <1>4, <2>2, <3>1, <3>2, Zenon DEF Compress
    <3>5. H0[1] = "default" /\ H0[2] = <<>>
      BY DEF H0
    <3>6. Append(<<>>, b) = <<b>>
      OBVIOUS
    <3> QED
      BY <3>3, <3>4, <3>5, <3>6, Zenon
  <2>5. AtDouble'
    <3>1. Quiet'
      BY <1>4, <2>3 DEF Quiet
    <3>2. hash' = FinalHash(op', msg') /\ step' > 1 /\ reg_done' /\ Hx' = Split(H0, HashWords) /\ result' = <<>>
      BY <1>3, <1>4, <2>2, <2>4, Zenon
    <3> QED
      BY <3>1, <3>2, Zenon DEF AtDouble
  <2>6. Held'
    BY <1>3, <1>5, <1>8, <2>5 DEF Held
  <2> QED
    BY <1>3, <1>6, <2>6, Zenon DEF Inv
<1> QED
  BY <1>2, <1>7, <1>8

(* A word of the hash that is kept is streamed. *)
LEMMA StreamStep ==
  ASSUME Inv, Stream
  PROVE  Inv'
<1>1. Control /\ Registers /\ cnt < BlockWords /\ cnt' = cnt + 1
  BY Zenon DEF Inv, Stream
<1>2. /\ Busy /\ Held /\ op \in Ops /\ Fn = "double" /\ AtDouble /\ op.fn \in {"dsha256", "posthash"}
      /\ pc > 1
  <2>1. /\ Busy /\ Held /\ op \in Ops /\ pc > 1
        /\ \/ Fn = "block" /\ AtBlock
           \/ Fn = "double" /\ AtDouble /\ op.fn \in {"dsha256", "posthash"}
    BY <1>1, UnitAtWork
  <2>2. ~AtBlock
    BY <1>1 DEF AtBlock, BlockWords
  <2> QED
    BY <2>1, <2>2
<1>3. /\ Control' /\ Busy' /\ op' = op /\ msg' = msg /\ pc' = pc /\ step' = step
      /\ result' = result /\ Fn' = Fn /\ Arg' = Arg
  BY <1>1, <1>2, DriverStays DEF Stream
<1>4. UNCHANGED <<Hx, reg_done, hash_cnt, pre_cnt, hash_r, hash>>
  BY DEF Stream
<1>5. /\ step > 1 /\ ~reg_done /\ hash = H0 /\ hash_r = After(op, msg, Size(op, msg))
      /\ words = Split(HashBlock(hash_r), cnt) /\ Hx = Split(H0, HashWords) /\ result = <<>>
  <2>1. ~Quiet
    BY <1>1 DEF Quiet, BlockWords
  <2> QED
    BY <1>2, <2>1, Zenon DEF AtDouble
<1>6. cnt \in 0 .. 15 /\ Len(words) = cnt
  <2>1. cnt \in 0 .. 15
    BY <1>1 DEF Registers, BlockWords
  <2>2. Len(Split(HashBlock(hash_r), cnt)) = cnt
    BY <2>1, SplitIs
  <2> QED
    BY <1>5, <2>1, <2>2, Zenon
<1>7. words' = Split(HashBlock(hash_r), cnt + 1) /\ Len(words') = cnt + 1
  <2>1. Len(words) # BlockWords
    BY <1>6 DEF BlockWords
  <2>2. words' = Append(words, <<HashBlock(hash_r), cnt + 1>>)
    BY <2>1, Zenon DEF Stream, Enter
  <2>3. /\ Append(Split(HashBlock(hash_r), cnt), <<HashBlock(hash_r), cnt + 1>>)
             = Split(HashBlock(hash_r), cnt + 1)
        /\ Len(Split(HashBlock(hash_r), cnt + 1)) = cnt + 1
    <3> DEFINE c == cnt
               x == HashBlock(hash_r)
    <3>1. c \in Nat /\ c + 1 \in Nat
      BY <1>6
    <3> HIDE DEF c, x
    <3>2. Append(Split(x, c), <<x, c + 1>>) = Split(x, c + 1)
      BY <3>1, SplitIs
    <3>3. Len(Split(x, c + 1)) = c + 1
      BY <3>1, SplitIs
    <3> QED
      BY <3>2, <3>3 DEF c, x
  <2> QED
    BY <1>5, <2>2, <2>3, Zenon
<1>8. AtDouble'
  <2>1. words' = Split(HashBlock(hash_r'), cnt')
    BY <1>1, <1>4, <1>7, Zenon
  <2>2. /\ step' > 1 /\ ~reg_done' /\ hash' = H0 /\ hash_r' = After(op', msg', Size(op', msg'))
        /\ Hx' = Split(H0, HashWords) /\ result' = <<>>
    BY <1>3, <1>4, <1>5, Zenon
  <2> QED
    BY <2>1, <2>2, Zenon DEF AtDouble
<1>9. Counting' /\ Default'
  BY <1>2, <1>3, <1>4 DEF Held, Counting, Default
<1>10. Preparing'
  BY <1>2, <1>3 DEF Preparing
<1>11. Held'
  BY <1>2, <1>3, <1>8, <1>9, <1>10 DEF Held
<1>12. Registers'
  <2>1. cnt' \in 0 .. BlockWords /\ Len(words') <= BlockWords
    BY <1>1, <1>6, <1>7 DEF BlockWords
  <2>2. /\ Len(result') <= HashWords /\ Len(Hx') = HashWords /\ hash_cnt' \in 0 .. 7
        /\ pre_cnt' \in 0 .. 7
    BY <1>1, <1>3, <1>4 DEF Registers
  <2>3. reg_done' \in BOOLEAN
    BY <1>1, <1>4, Zenon DEF Registers
  <2> QED
    BY <2>1, <2>2, <2>3, Zenon DEF Registers
<1> QED
  BY <1>3, <1>11, <1>12, Zenon DEF Inv

(* Before the first call the unit is quiet. *)
LEMMA Start == Init => Inv
<1> SUFFICES ASSUME Init PROVE Inv
  OBVIOUS
<1>1. ~Busy /\ op = NoOp
  BY DEF Init, Busy
<1>2. Control
  BY <1>1 DEF Init, Control
<1>3. Registers
  <2>1. Len(Split(H0, HashWords)) = HashWords
    BY SplitIs DEF HashWords
  <2>2. Len(Hx) = HashWords
    BY <2>1, Zenon DEF Init
  <2>3. reg_done \in BOOLEAN
    BY Zenon DEF Init
  <2>4. Len(result) <= HashWords /\ Len(words) <= BlockWords
    BY DEF Init, HashWords, BlockWords
  <2>5. hash_cnt \in 0 .. 7 /\ pre_cnt \in 0 .. 7 /\ cnt \in 0 .. BlockWords
    BY DEF Init, BlockWords
  <2> QED
    BY <2>2, <2>3, <2>4, <2>5, Zenon DEF Registers
<1>4. Rest
  BY <1>1, Zenon DEF Init, Rest, Quiet
<1> QED
  BY <1>1, <1>2, <1>3, <1>4, Zenon DEF Inv

(* Every step preserves the invariant. *)
LEMMA Step == Inv /\ [Next]_vars => Inv'
<1> SUFFICES ASSUME Inv, [Next]_vars PROVE Inv'
  OBVIOUS
<1>1. CASE Call
  BY <1>1, CallStep
<1>2. CASE CmdRst
  BY <1>2, CmdRstStep
<1>3. CASE CmdInit
  BY <1>3, CmdInitStep
<1>4. CASE CmdDbl
  BY <1>4, CmdDblStep
<1>5. CASE WriteHi
  BY <1>5, WriteHiStep
<1>6. CASE WriteDin
  BY <1>6, WriteDinStep
<1>7. CASE PollDone
  BY <1>7, PollDoneStep
<1>8. CASE ReadHash
  BY <1>8, ReadHashStep
<1>9. CASE ReadPre
  BY <1>9, ReadPreStep
<1>10. CASE Finish
  BY <1>10, FinishStep
<1>11. CASE Stream
  BY <1>11, StreamStep
<1>12. CASE UNCHANGED vars
  <2>1. /\ op' = op /\ msg' = msg /\ pc' = pc /\ step' = step /\ result' = result
        /\ UNCHANGED <<Hx, reg_done, hash_cnt, pre_cnt, hash_r, cnt, hash, words, pre>>
    BY <1>12 DEF vars, driver
  <2>2. Program' = Program /\ Fn' = Fn /\ Arg' = Arg /\ (Busy' <=> Busy)
    BY <2>1, Zenon DEF Program, Fn, Arg, Busy
  <2>3. Control' /\ Registers' /\ (Quiet' <=> Quiet)
    BY <2>1, <2>2, Zenon DEF Inv, Control, Registers, Quiet
  <2>4. Busy => Counting' /\ Preparing' /\ Default'
    BY <2>1, <2>2, Zenon DEF Inv, Held, Counting, Preparing, Default
  <2>5. /\ AtLoad => AtLoad'
        /\ AtBlock => AtBlock'
        /\ AtDouble => AtDouble'
        /\ AtFinal => AtFinal'
        /\ AtPrecalc => AtPrecalc'
    <3>1. AtLoad => AtLoad'
      BY <2>1, <2>2, <2>3, Zenon DEF AtLoad, Given
    <3>2. AtBlock => AtBlock'
      BY <2>1, <2>2, <2>3 DEF AtBlock
    <3>3. AtDouble => AtDouble'
      BY <2>1, <2>2, <2>3 DEF AtDouble
    <3>4. AtFinal => AtFinal'
      BY <2>1, <2>2, <2>3, Zenon DEF AtFinal
    <3>5. AtPrecalc => AtPrecalc'
      BY <2>1, <2>2, <2>3, Zenon DEF AtPrecalc
    <3> QED
      BY <3>1, <3>2, <3>3, <3>4, <3>5
  <2>6. Busy => Held'
    BY <2>2, <2>4, <2>5, Zenon DEF Inv, Held
  <2>7. ~Busy => Rest'
    BY <2>1, <2>3, Zenon DEF Inv, Rest
  <2> QED
    BY <2>2, <2>3, <2>6, <2>7, Zenon DEF Inv
<1> QED
  BY <1>1, <1>2, <1>3, <1>4, <1>5, <1>6, <1>7, <1>8, <1>9, <1>10, <1>11, <1>12 DEF Next, Driver

(* The invariant holds in every behaviour. *)
LEMMA Always == FairSpec => []Inv
BY Start, Step, PTL DEF FairSpec

(* Types: a call stays within its statements and a statement within its accesses, the
   counters of the unit within their bits. *)
THEOREM TypeCorrect == FairSpec => []TypeOK
<1>1. Inv => TypeOK
  BY TypeParts, Zenon DEF Inv
<1> QED
  BY <1>1, Always, PTL

(* A call returns the hash it is meant to, of every message, and whatever calls came before:
   the loops of sha256_update(), sha256_padding() and load_hash() write the blocks of FIPS
   180-4, every word once and in order, and the double hash continues with the default
   value. *)
THEOREM HashesRight == FairSpec => []Correct
<1>1. Inv => Correct
  BY Zenon DEF Inv, Rest, Correct
<1> QED
  BY <1>1, Always, PTL

(* The loops that wait for the flag end when the block just written is compressed, and no
   word is written to a unit at work. *)
THEOREM DriverWaits == FairSpec => []WaitsForItsBlock
<1>1. Inv => WaitsForItsBlock
  <2> SUFFICES ASSUME Inv, Busy
               PROVE  /\ Fn \in {"block", "double"} /\ LastAccess /\ reg_done => words = <<>> /\ cnt = BlockWords
                      /\ Fn = "block" /\ ~LastAccess => Len(words) < BlockWords /\ cnt = BlockWords
    BY Zenon DEF WaitsForItsBlock
  <2>1. Held /\ step \in 1 .. Accesses(Fn)
    BY Here DEF Inv
  <2>2. CASE Fn = "block"
    <3>1. AtBlock /\ step \in 1 .. 17 /\ (LastAccess <=> step = 17)
      BY <2>1, <2>2, AccessesAre DEF Held, LastAccess
    <3>2. CASE LastAccess
      BY <2>2, <3>1, <3>2 DEF AtBlock, BlockWords
    <3>3. CASE ~LastAccess
      <4> DEFINE t == step - 1
      <4>1. t \in 0 .. 15
        BY <3>1, <3>3
      <4>2. words = Split(Arg, t) /\ cnt = BlockWords
        BY <3>1, <3>3 DEF AtBlock, BlockWords
      <4> HIDE DEF t
      <4>3. Len(Split(Arg, t)) = t
        BY <4>1, SplitIs
      <4>4. Len(words) = t
        BY <4>2, <4>3, Zenon
      <4> QED
        BY <3>3, <4>1, <4>2, <4>4 DEF BlockWords
    <3> QED
      BY <3>2, <3>3
  <2>3. CASE Fn = "double"
    <3>1. AtDouble /\ (LastAccess <=> step = 2)
      BY <2>1, <2>3, AccessesAre DEF Held, LastAccess
    <3> QED
      BY <2>3, <3>1 DEF AtDouble, Quiet
  <2>4. CASE Fn \notin {"block", "double"}
    BY <2>4
  <2> QED
    BY <2>2, <2>3, <2>4
<1> QED
  BY <1>1, Always, PTL

====
