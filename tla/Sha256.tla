-------------------------------- MODULE Sha256 --------------------------------
(***************************************************************************)
(* The SHA-256 driver (firmware/sha256.c) against the hash unit it feeds    *)
(* (sha.v, dbl_sha.v, sha_core.v).  A call is a sequence of statements,     *)
(* which access the registers of the unit one by one; the unit compresses a *)
(* block, or streams a hash back into itself, while the driver goes on.     *)
(*                                                                         *)
(* Hashes are symbolic: a hash is the initial value and the blocks that     *)
(* were compressed into it, and a word of a block or of a hash is what it   *)
(* is a word of, with its place.  Words that do not make up a block or a    *)
(* hash in their order are Junk.                                            *)
(***************************************************************************)
EXTENDS Integers, Sequences

CONSTANTS
  Lengths,    \* lengths of the messages, in bytes
  Prefixes    \* bytes hashed beforehand by the host, for dsha256_posthash()

SHA256_BLOCK_SIZE == 64
BlockWords == 16
HashWords == 8
PreWords == 6

(* Lengths in bits that fit the 32 bits sha256_padding() writes. *)
MaxLength == 536870911
ASSUME LengthAssumption == Lengths \subseteq 0 .. MaxLength
ASSUME PrefixAssumption == \A p \in Prefixes : p \in Nat /\ p % SHA256_BLOCK_SIZE = 0

VARIABLES
  op, msg,      \* the call in progress; msg tells its message from the one before
  pc, step,     \* its statement, and the access that makes next
  result,       \* the words read from the unit in this call
  Hx,           \* sha.v: SHA256_Hx, the words the initial value consists of
  reg_done, hash_cnt, pre_cnt,
  hash_r, cnt,  \* dbl_sha.v: the last hash, and the word it sends next (16: none)
  hash, words,  \* sha_core.v: A..H, and the words of the block begun
  pre           \* sha_core.v: A0..A2 and E0..E2

driver == <<op, msg, pc, step, result>>
vars == <<driver, Hx, reg_done, hash_cnt, pre_cnt, hash_r, cnt, hash, words, pre>>

-----------------------------------------------------------------------------
(* Symbolic hashes. *)

H0 == <<"default", <<>>>>                   \* the initial value of the standard
Junk == <<"junk", <<>>>>

Split(x, n) == [k \in 1 .. n |-> <<x, k>>]   \* the words of a block or a hash
Joined(ws) == \A k \in DOMAIN ws : ws[k] = <<ws[1][1], k>>
Join(ws) == IF Joined(ws) THEN ws[1][1] ELSE Junk

Compress(h, b) == IF h = Junk \/ b = Junk THEN Junk ELSE <<h[1], Append(h[2], b)>>

(* The part of message m from byte a to byte z, with the end mark and the length in bits
   of n bytes where they are there (0: no length). *)
Block(m, a, z, mark, n) == <<"data", m, a, z, mark, n>>
HashBlock(h) == <<"hash", h>>                \* a hash, padded to a block

-----------------------------------------------------------------------------
(* The functions of the driver, as the statements they consist of; Accesses is how many
   accesses to the registers of the unit a statement makes. *)

sha256_init == <<"init", H0>>
load_hash(ws) == <<"load", ws>>              \* the words in the order they are written
write_block(b) == <<"block", b>>
sha256_double == <<"double", H0>>
sha256_final == <<"final", H0>>
sha256_precalc_final == <<"precalc", H0>>

BlockAccesses_Short == BlockWords
BlockAccesses == BlockWords + 1

Accesses(fn) ==
  CASE fn = "load"    -> HashWords + 2
    [] fn = "block"   -> BlockAccesses
    [] fn = "final"   -> HashWords
    [] fn = "precalc" -> PreWords
    [] OTHER          -> 2

sha256_update(m, input, count) ==
  [k \in 1 .. count \div SHA256_BLOCK_SIZE |->
     write_block(Block(m, input + (k - 1) * SHA256_BLOCK_SIZE, input + k * SHA256_BLOCK_SIZE,
                       FALSE, 0))]

(* One block more when the mark and the eight bytes of the length do not fit. *)
BlockNb_OffByOne(len_rem) == SHA256_BLOCK_SIZE - 8 < len_rem
BlockNb(len_rem) == SHA256_BLOCK_SIZE - 9 < len_rem

(* input is the offset in message m. *)
sha256_padding(m, input, count) ==
  LET end == input + (count % SHA256_BLOCK_SIZE)
  IN IF BlockNb(count % SHA256_BLOCK_SIZE)
     THEN <<write_block(Block(m, input, end, TRUE, 0)),
            write_block(Block(m, end, end, FALSE, count))>>
     ELSE <<write_block(Block(m, input, end, TRUE, count))>>

(* The rest of a message of count bytes from byte input on. *)
Hashed(m, input, count) ==
  sha256_update(m, input, count - input)
    \o sha256_padding(m, input + ((count - input) \div SHA256_BLOCK_SIZE) * SHA256_BLOCK_SIZE,
                      count)

(* The whole blocks of the first n bytes of message m; the hash of them. *)
WholeBlocks(m, n) ==
  [k \in 1 .. n \div SHA256_BLOCK_SIZE |->
     Block(m, (k - 1) * SHA256_BLOCK_SIZE, k * SHA256_BLOCK_SIZE, FALSE, 0)]
MidState(m, n) == <<"default", WholeBlocks(m, n)>>

(* Words from the last to the first. *)
Backwards(ws) == [k \in DOMAIN ws |-> ws[Len(ws) + 1 - k]]

(* h and input hold their words from the last to the first, as rev() (miner.c:211) left them. *)
sha256_precalc(h, input, count) ==
  <<load_hash(Backwards(h))>> \o Hashed(Join(Backwards(input)), 0, count)
    \o <<sha256_precalc_final>>

Statements(o, m) ==
  CASE o.fn = "midstate" -> <<sha256_init>> \o sha256_update(m, 0, o.count) \o <<sha256_final>>
    [] o.fn = "sha256"   -> <<sha256_init>> \o Hashed(m, 0, o.count) \o <<sha256_final>>
    [] o.fn = "dsha256"  ->
         <<sha256_init>> \o Hashed(m, 0, o.count) \o <<sha256_double, sha256_final>>
    [] o.fn = "posthash" ->
         <<load_hash(Split(MidState(m, o.prefix), HashWords))>> \o Hashed(m, o.prefix, o.count)
           \o <<sha256_init, sha256_double, sha256_final>>
    [] o.fn = "precalc"  ->
         sha256_precalc(Backwards(Split(MidState(m, o.prefix), HashWords)),
                        Backwards(Split(m, 3)), o.count)

Ops ==
  [fn : {"sha256", "dsha256"}, count : Lengths, prefix : {0}]
    \cup {o \in [fn : {"posthash"}, count : Lengths, prefix : Prefixes] : o.prefix <= o.count}
    \cup [fn : {"midstate"}, count : {SHA256_BLOCK_SIZE}, prefix : {0}]
    \cup [fn : {"precalc"}, count : {12}, prefix : {SHA256_BLOCK_SIZE}]
NoOp == [fn |-> "none", count |-> 0, prefix |-> 0]

-----------------------------------------------------------------------------
(* The driver: one access at a time. *)

Program == Statements(op, msg)
Busy == op # NoOp /\ pc <= Len(Program)
Fn == Program[pc][1]
Arg == Program[pc][2]
LastAccess == step = Accesses(Fn)

Access(fns) ==
  /\ Busy /\ Fn \in fns /\ UNCHANGED <<op, msg>>
  /\ IF LastAccess THEN pc' = pc + 1 /\ step' = 1 ELSE pc' = pc /\ step' = step + 1

Call ==
  /\ ~Busy /\ op' \in Ops /\ pc' = 1 /\ step' = 1 /\ msg' = 1 - msg /\ result' = <<>>
  /\ UNCHANGED <<Hx, reg_done, hash_cnt, pre_cnt, hash_r, cnt, hash, words, pre>>

(* The counters of the words read have three bits. *)
NextWord_Wide(c) == c + 1
NextWord(c) == (c + 1) % 8

(* reg_rst *)
CmdRst ==
  /\ Access({"init", "load"}) /\ step = 1 /\ Hx' = Split(H0, HashWords)
  /\ UNCHANGED <<result, reg_done, hash_cnt, pre_cnt, hash_r, cnt, hash, words, pre>>

(* reg_init: A..H are loaded, the round is not reset. *)
Initialise ==
  /\ hash' = IF words = <<>> THEN Join(Hx) ELSE Junk
  /\ hash_cnt' = 0 /\ pre_cnt' = 0

CmdInit ==
  /\ Access({"init", "load"}) /\ LastAccess /\ Initialise
  /\ UNCHANGED <<result, Hx, reg_done, hash_r, cnt, words, pre>>

DoneAfterDbl_Kept == reg_done
DoneAfterDbl == FALSE

(* reg_dbl, which comes with reg_init *)
CmdDbl ==
  /\ Access({"double"}) /\ step = 1 /\ Initialise
  /\ reg_done' = DoneAfterDbl /\ cnt' = 0
  /\ UNCHANGED <<result, Hx, hash_r, words, pre>>

WriteHi ==
  /\ Access({"load"}) /\ step \in 2 .. HashWords + 1
  /\ Hx' = Append(Tail(Hx), Arg[step - 1])
  /\ UNCHANGED <<result, reg_done, hash_cnt, pre_cnt, hash_r, cnt, hash, words, pre>>

(* A word enters the block; A0..E2 are taken from the first three.  While a block is
   being compressed words are not looked at. *)
Enter(w) ==
  IF Len(words) = BlockWords THEN UNCHANGED <<words, pre>>
  ELSE /\ words' = Append(words, w)
       /\ pre' = IF Len(words') = 4 THEN <<hash, SubSeq(words, 1, 3)>> ELSE pre

WriteDin ==
  /\ Access({"block"}) /\ ~LastAccess /\ Enter(<<Arg, step>>) /\ reg_done' = FALSE
  /\ UNCHANGED <<result, Hx, hash_cnt, pre_cnt, hash_r, cnt, hash>>

PollDone ==
  /\ Access({"block", "double"}) /\ LastAccess /\ reg_done
  /\ UNCHANGED <<result, Hx, reg_done, hash_cnt, pre_cnt, hash_r, cnt, hash, words, pre>>

(* A..H are between two hashes while a block is being compressed. *)
ReadHash ==
  /\ Access({"final"})
  /\ result' = Append(result, <<IF words = <<>> THEN hash ELSE Junk, hash_cnt + 1>>)
  /\ hash_cnt' = NextWord(hash_cnt)
  /\ UNCHANGED <<Hx, reg_done, pre_cnt, hash_r, cnt, hash, words, pre>>

ReadPre ==
  /\ Access({"precalc"})
  /\ result' = Append(result, <<pre, pre_cnt + 1>>) /\ pre_cnt' = NextWord(pre_cnt)
  /\ UNCHANGED <<Hx, reg_done, hash_cnt, hash_r, cnt, hash, words, pre>>

Driver ==
  CmdRst \/ CmdInit \/ CmdDbl \/ WriteHi \/ WriteDin \/ PollDone \/ ReadHash \/ ReadPre

-----------------------------------------------------------------------------
(* The hash unit on its own. *)

(* The 64 rounds, the flag, and the copy dbl_sha.v keeps. *)
Finish ==
  /\ Len(words) = BlockWords /\ words' = <<>>
  /\ hash' = Compress(hash, Join(words)) /\ hash_r' = hash' /\ reg_done' = TRUE
  /\ UNCHANGED <<driver, Hx, hash_cnt, pre_cnt, cnt, pre>>

(* dbl_sha.v sends the hash it keeps and then its padding, a word each clock; the
   shift register holds neither any more in the end, until Finish loads it again. *)
Stream ==
  /\ cnt < BlockWords /\ cnt' = cnt + 1
  /\ Enter(<<HashBlock(hash_r), cnt + 1>>)
  /\ UNCHANGED <<driver, Hx, reg_done, hash_cnt, pre_cnt, hash_r, hash>>

-----------------------------------------------------------------------------
Init ==
  /\ op = NoOp /\ msg = 0 /\ pc = 1 /\ step = 1 /\ result = <<>>
  /\ Hx = Split(H0, HashWords) /\ reg_done = FALSE /\ hash_cnt = 0 /\ pre_cnt = 0
  /\ hash_r = Junk /\ cnt = BlockWords /\ hash = Junk /\ words = <<>> /\ pre = <<Junk, <<>>>>

Next == Call \/ Driver \/ Finish \/ Stream

FairSpec == Init /\ [][Next]_vars /\ WF_vars(Driver) /\ WF_vars(Finish) /\ WF_vars(Stream)

-----------------------------------------------------------------------------
TypeOK ==
  /\ op \in Ops \cup {NoOp} /\ msg \in {0, 1}
  /\ pc \in 1 .. (IF op = NoOp THEN 0 ELSE Len(Program)) + 1
  /\ step \in 1 .. IF Busy THEN Accesses(Fn) ELSE 1
  /\ Len(result) <= HashWords /\ Len(Hx) = HashWords /\ reg_done \in BOOLEAN
  /\ hash_cnt \in 0 .. 7 /\ pre_cnt \in 0 .. 7
  /\ cnt \in 0 .. BlockWords /\ Len(words) <= BlockWords

(* FIPS 180-4, 5.1.1 and 6.2: the blocks of a message of n bytes are its whole blocks and
   the rest with the mark and the length, in one block more when they do not fit. *)
Padded(m, n) ==
  LET rest == n - (n % SHA256_BLOCK_SIZE)
  IN WholeBlocks(m, n)
       \o IF n - rest + 1 + 8 <= SHA256_BLOCK_SIZE
          THEN <<Block(m, rest, n, TRUE, n)>>
          ELSE <<Block(m, rest, n, TRUE, 0), Block(m, n, n, FALSE, n)>>

Digest(m, n) == <<"default", Padded(m, n)>>

Expected(o, m) ==
  CASE o.fn = "midstate" -> Split(MidState(m, o.count), HashWords)
    [] o.fn = "sha256"   -> Split(Digest(m, o.count), HashWords)
    [] o.fn = "precalc"  ->
         Split(<<MidState(m, o.prefix), Split(Block(m, 0, o.count, TRUE, o.count), 3)>>, PreWords)
    [] OTHER -> Split(<<"default", <<HashBlock(Digest(m, o.count))>>>>, HashWords)

(* A call returns the hash it is meant to, over messages that end anywhere in a block,
   whatever the calls before left in the registers: dsha256_posthash(), which continues
   the host's hash, the same as dsha256() over the whole message. *)
Correct == op # NoOp /\ ~Busy => result = Expected(op, msg)

(* The driver goes on only when its own block is compressed: reg_done is never the flag of
   the block before, and no word is written while the unit is busy. *)
WaitsForItsBlock ==
  Busy =>
    /\ Fn \in {"block", "double"} /\ LastAccess /\ reg_done => words = <<>> /\ cnt = BlockWords
    /\ Fn = "block" /\ ~LastAccess => Len(words) < BlockWords /\ cnt = BlockWords

(* Every call returns. *)
CallReturns == Busy ~> ~Busy
===============================================================================
