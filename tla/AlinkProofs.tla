------------------------------ MODULE AlinkProofs ------------------------------
(***************************************************************************)
(* Theorems of Alink, for every number of PHYs, depth of the RX FIFO and    *)
(* set of timeouts: types, that a report carries the id of its own task,    *)
(* and that reports lie whole in the RX FIFO.  The first argument is about  *)
(* time: a PHY is selected only when it is free, a free PHY begins no       *)
(* report, and the transmitter needs longer to get to the task id than a    *)
(* PHY needs to push a report.  The second counts words.                    *)
(***************************************************************************)
EXTENDS Alink, FiniteSetTheorems, WellFoundedInduction, TLAPS

(* The parameters are numbers. *)
LEMMA Sizes ==
  /\ PHY_NUM \in Nat /\ PHY_NUM >= 1 /\ RX_FIFO_DEPTH \in Nat
  /\ MaxTasks \in Nat /\ MaxReports \in Nat /\ MaxFlushes \in Nat
  /\ Touts \subseteq Nat \ {0}
BY PhyAssumption, DepthAssumption, BoundAssumption, ToutAssumption

(* The arbiters choose from what they are offered. *)
LEMMA LowestIn ==
  ASSUME NEW S \in SUBSET PHYs
  PROVE  IF S = {} THEN Lowest(S) = None ELSE Lowest(S) \in S
<1>1. CASE S = {}
  BY <1>1 DEF Lowest
<1>2. CASE S # {}
  <2>1. S \subseteq Nat
    BY Sizes DEF PHYs
  <2>2. PICK x \in S : \A y \in S : ~(<<y, x>> \in OpToRel(<, Nat))
    <3> DEFINE R == OpToRel(<, Nat)
    <3>1. IsWellFoundedOn(R, Nat)
      BY NatLessThanWellFounded
    <3> HIDE DEF R
    <3>2. \E x \in S : \A y \in S : ~(<<y, x>> \in R)
      BY <1>2, <2>1, <3>1, WFMin
    <3> QED
      BY <3>2 DEF R
  <2>3. OpToRel(<, Nat) = {ss \in Nat \X Nat : ss[1] < ss[2]}
    BY DEF OpToRel
  <2>4. \A y \in S : ~(<<y, x>> \in {ss \in Nat \X Nat : ss[1] < ss[2]})
    BY <2>2, <2>3
  <2>5. ASSUME NEW y \in S PROVE x <= y
    <3>1. x \in Nat /\ y \in Nat
      BY <2>1
    <3>2. <<y, x>> \in Nat \X Nat
      BY <3>1
    <3>3. y < x => <<y, x>> \in {ss \in Nat \X Nat : ss[1] < ss[2]}
      BY <3>2
    <3>4. ~(y < x)
      BY <2>4, <3>3
    <3> QED
      BY <3>1, <3>4
  <2> QED
    BY <1>2, <2>5 DEF Lowest
<1> QED
  BY <1>1, <1>2

-----------------------------------------------------------------------------
(* What the registers of a clock have to do with each other: the transmitter is at a word
   of the first task of the TX FIFO; the PHY it is selected for stays free until it has the
   task id, and has no report left by then; a granted PHY pushes words. *)
Wired ==
  /\ word > 0 => cur_state = "SENT" /\ tx_fifo # <<>>
  /\ word > TX_TASKID_LEN => reg_tout \in Touts
  /\ \A p \in PHYs : tx_phy_sel = p /\ word <= TX_TASKID_LEN + 1 =>
       ~timer_busy[p] /\ push_cnt[p] \notin 1 .. word + 1
  /\ rx_sel # None => push_cnt[rx_sel] \in 1 .. RX_DATA_LEN

(* The id of a PHY is that of its last task: none is missed while a report is pushed. *)
Latched == \A p \in PHYs : task_id_r[p] = own[p]

Inv == TypeOK /\ Wired /\ Latched /\ OwnTask

(* The registers in one clock. *)
Registers(stop, done) ==
  /\ stop \subseteq PHYs /\ stop \subseteq Starts(stop) /\ done \in BOOLEAN
  /\ done => word = TX_TASKID_LEN + 2
  /\ Txc(done) /\ TxPhy(done) /\ Timers /\ RxPhys(stop) /\ Rxc(stop)

(* The PHYs that start a report are busy and push none. *)
LEMMA StartsAreBusy ==
  ASSUME NEW stop \in SUBSET PHYs
  PROVE  Starts(stop) \in SUBSET PHYs /\ \A p \in Starts(stop) : reg_busy(p) /\ push_cnt[p] = 0
BY DEF Starts

(* The transmitter. *)
LEMMA TxTypes ==
  ASSUME TypeOK, Wired, NEW stop, NEW done, Registers(stop, done)
  PROVE  /\ cur_state' \in {"IDLE", "REQ", "SENT"} /\ tx_phy_sel' \in PHYs \cup {None}
         /\ word' \in 0 .. TX_TASKID_LEN + 2 /\ reg_tout' \in Touts \cup {0}
         /\ word' > TX_TASKID_LEN => reg_tout' \in Touts
         /\ word' > 0 => cur_state' = "SENT" /\ tx_fifo # <<>> /\ ~InReset /\ ~done
<1>1. Free \subseteq PHYs
  BY DEF Free, TypeOK
<1>2. tx_phy_sel' \in PHYs \cup {None}
  <2>1. tx_phy_sel' = None \/ tx_phy_sel' = Lowest(Free) \/ tx_phy_sel' = tx_phy_sel
    BY DEF Registers, Txc
  <2>2. Lowest(Free) \in PHYs \cup {None}
    BY <1>1, LowestIn
  <2> QED
    BY <2>1, <2>2 DEF TypeOK
<1>3. cur_state' \in {"IDLE", "REQ", "SENT"}
  BY DEF Registers, Txc, TypeOK
<1>4. word \in 0 .. 6 /\ word' \in 0 .. 6
  BY DEF Registers, TxPhy, TypeOK, TX_TASKID_LEN
<1>5. word' > 0 => cur_state' = "SENT" /\ tx_fifo # <<>> /\ ~InReset /\ ~done
  BY <1>4 DEF Registers, TxPhy, Txc, TypeOK, Wired
<1>6. word = TX_TASKID_LEN => Head(tx_fifo).tout \in Touts
  <2> SUFFICES ASSUME word = TX_TASKID_LEN PROVE Head(tx_fifo).tout \in Touts
    OBVIOUS
  <2>1. tx_fifo # <<>> /\ tx_fifo \in Seq(Task)
    BY DEF Wired, TypeOK, TX_TASKID_LEN
  <2>2. Head(tx_fifo) \in Task
    BY <2>1
  <2> QED
    BY <2>2 DEF Task
<1>7. reg_tout' \in Touts \cup {0}
  BY <1>6 DEF Registers, TxPhy, TypeOK
<1>8. word' > TX_TASKID_LEN => reg_tout' \in Touts
  BY <1>4, <1>6 DEF Registers, TxPhy, TypeOK, Wired, TX_TASKID_LEN
<1> QED
  BY <1>2, <1>3, <1>4, <1>5, <1>7, <1>8 DEF TX_TASKID_LEN

(* The timers. *)
LEMMA TimerTypes ==
  ASSUME TypeOK, Wired, NEW stop, NEW done, Registers(stop, done)
  PROVE  /\ timer' \in [PHYs -> Nat] /\ timer_busy' \in [PHYs -> BOOLEAN]
         /\ \A p \in PHYs : \E t \in Touts \cup {0} : timer'[p] <= t
<1>1. timer_busy' \in [PHYs -> BOOLEAN]
  BY DEF Registers, Timers
<1>2. ASSUME NEW p \in PHYs
      PROVE  timer'[p] \in Nat /\ \E t \in Touts \cup {0} : timer'[p] <= t
  <2>1. timer'[p] = IF InReset \/ timer[p] = reg_tout THEN 0
                    ELSE IF TimerStart(p) THEN 1
                    ELSE IF Counts(p) THEN timer[p] + 1 ELSE timer[p]
    BY DEF Registers, Timers
  <2>2. timer[p] \in Nat /\ (\E t \in Touts \cup {0} : timer[p] <= t) /\ reg_tout \in Touts \cup {0}
    BY DEF TypeOK
  <2>3. CASE timer'[p] = 0
    BY <2>3
  <2>4. CASE timer'[p] = 1 /\ TimerStart(p)
    <3>1. reg_tout \in Touts
      BY <2>4 DEF TimerStart, task_id_vld, Wired, TX_TASKID_LEN
    <3>2. 1 <= reg_tout
      BY <3>1, Sizes
    <3> QED
      BY <2>4, <3>1, <3>2
  <2>5. CASE timer'[p] = timer[p] + 1 /\ Counts(p)
    <3>1. reg_tout \in Nat
      BY <2>2, Sizes
    <3>2. timer'[p] <= reg_tout
      BY <2>2, <2>5, <3>1 DEF Counts
    <3> QED
      BY <2>2, <2>5, <3>2
  <2>6. CASE timer'[p] = timer[p]
    BY <2>2, <2>6
  <2> QED
    BY <2>1, <2>3, <2>4, <2>5, <2>6
<1>3. timer' \in [PHYs -> Nat]
  <2>1. DOMAIN timer' = PHYs /\ timer' = [p \in PHYs |-> timer'[p]]
    BY DEF Registers, Timers
  <2> QED
    BY <1>2, <2>1
<1> QED
  BY <1>1, <1>2, <1>3

(* One PHY: its report goes on word by word, and begins while it is busy. *)
LEMMA Pushing ==
  ASSUME TypeOK, NEW stop, NEW done, Registers(stop, done), NEW p \in PHYs
  PROVE  /\ push_cnt[p] \in 0 .. RX_DATA_LEN
         /\ push_cnt'[p] = IF InReset THEN 0
                           ELSE IF p \in Starts(stop) THEN 1
                           ELSE IF push_cnt[p] \in 1 .. RX_DATA_LEN - 1 THEN push_cnt[p] + 1 ELSE 0
         /\ push_cnt'[p] \in 0 .. RX_DATA_LEN
         /\ p \in Starts(stop) => reg_busy(p) /\ push_cnt[p] = 0
<1>1. push_cnt[p] \in 0 .. 5
  BY DEF TypeOK, RX_DATA_LEN
<1>2. push_cnt'[p] = IF InReset THEN 0
                     ELSE IF p \in Starts(stop) THEN 1
                     ELSE IF push_cnt[p] \in 1 .. RX_DATA_LEN - 1 THEN push_cnt[p] + 1 ELSE 0
  BY DEF Registers, RxPhys
<1>3. p \in Starts(stop) => reg_busy(p) /\ push_cnt[p] = 0
  BY DEF Starts
<1>4. push_cnt'[p] \in 0 .. 5
  BY <1>1, <1>2 DEF RX_DATA_LEN
<1> QED
  BY <1>1, <1>2, <1>3, <1>4 DEF RX_DATA_LEN

(* The PHY the transmitter is selected for is free, and what it pushed when it was selected
   is nearly gone when the task id comes. *)
LEMMA Selected ==
  ASSUME TypeOK, Wired, NEW stop, NEW done, Registers(stop, done), NEW p \in PHYs,
         tx_phy_sel' = p, word' <= TX_TASKID_LEN + 1
  PROVE  ~timer_busy'[p] /\ push_cnt'[p] \notin 1 .. word' + 1
<1>1. p # None /\ ~InReset /\ ~done
  BY Sizes DEF Registers, Txc, PHYs, None
<1>2. word \in 0 .. 6 /\ word <= 4 /\ word' \in {word, word + 1} /\ (word > 0 => word' = word + 1)
  <2>1. word \in 0 .. 6
    BY DEF TypeOK, TX_TASKID_LEN
  <2>2. word' = IF word = 0
                THEN IF cur_state = "REQ" /\ tx_fifo # <<>> THEN 1 ELSE 0
                ELSE IF word <= TX_TASKID_LEN + 1 THEN word + 1 ELSE word
    BY <1>1 DEF Registers, TxPhy
  <2> QED
    BY <2>1, <2>2 DEF TX_TASKID_LEN
<1>3. ~reg_busy(p) /\ push_cnt[p] \notin 1 .. word + (IF cur_state = "IDLE" THEN 0 ELSE 1)
  <2>1. ~TimerStart(p)
    BY <1>2 DEF TimerStart, task_id_vld, TX_TASKID_LEN
  <2>2. CASE cur_state = "IDLE"
    <3>1. word = 0
      BY <1>2, <2>2 DEF Wired
    <3>2. Lowest(Free) = p
      BY <1>1, <2>2 DEF Registers, Txc
    <3>3. Free \in SUBSET PHYs
      BY DEF Free, TypeOK
    <3>4. p \in Free
      BY <1>1, <3>2, <3>3, LowestIn
    <3> QED
      BY <2>2, <3>1, <3>4 DEF Free
  <2>3. CASE cur_state # "IDLE"
    <3>1. tx_phy_sel = p
      BY <1>1, <2>3 DEF Registers, Txc
    <3>2. ~timer_busy[p] /\ push_cnt[p] \notin 1 .. word + 1
      BY <1>2, <3>1 DEF Wired, TX_TASKID_LEN
    <3> QED
      BY <2>1, <2>3, <3>2 DEF reg_busy
  <2> QED
    BY <2>2, <2>3
<1>4. ~timer_busy'[p]
  BY <1>3 DEF Registers, Timers, reg_busy
<1>5. push_cnt'[p] = IF push_cnt[p] \in 1 .. RX_DATA_LEN - 1 THEN push_cnt[p] + 1 ELSE 0
  BY <1>1, <1>3, Pushing
<1>6. cur_state = "IDLE" => word = 0 /\ word' = 0
  BY <1>1, <1>2 DEF Wired, Registers, TxPhy
<1>7. push_cnt[p] \in 0 .. 5
  BY Pushing DEF RX_DATA_LEN
<1> QED
  BY <1>2, <1>3, <1>4, <1>5, <1>6, <1>7 DEF RX_DATA_LEN

(* The receivers: the id of a new task is latched, because its PHY pushes nothing; a report
   that begins takes it. *)
LEMMA IdsLatched ==
  ASSUME Inv, NEW stop, NEW done, Registers(stop, done)
  PROVE  /\ Latched' /\ OwnTask'
         /\ push_cnt' \in [PHYs -> 0 .. RX_DATA_LEN]
         /\ task_id_r' \in [PHYs -> 0 .. MaxTasks]
         /\ own' \in [PHYs -> 0 .. MaxTasks] /\ told' \in [PHYs -> 0 .. MaxTasks]
<1>1. ASSUME NEW p \in PHYs, TimerStart(p)
      PROVE  push_cnt[p] = 0 /\ Head(tx_fifo).id \in 0 .. MaxTasks
  <2>1. word = 5 /\ tx_phy_sel = p
    BY <1>1 DEF TimerStart, task_id_vld, TX_TASKID_LEN
  <2>2. push_cnt[p] \notin 1 .. 6 /\ push_cnt[p] \in 0 .. 5
    BY <2>1, Pushing DEF Inv, Wired, TX_TASKID_LEN, RX_DATA_LEN
  <2>3. tx_fifo # <<>> /\ tx_fifo \in Seq(Task)
    BY <2>1 DEF Inv, Wired, TypeOK
  <2>4. Head(tx_fifo) \in Task
    BY <2>3
  <2> QED
    BY <2>2, <2>4 DEF Task
<1>2. ASSUME NEW p \in PHYs
      PROVE  /\ own'[p] = IF TimerStart(p) THEN Head(tx_fifo).id ELSE own[p]
             /\ own'[p] \in 0 .. MaxTasks /\ task_id_r'[p] = own'[p]
             /\ told'[p] = IF p \in Starts(stop) THEN own'[p] ELSE told[p]
             /\ told'[p] \in 0 .. MaxTasks
  <2>1. own'[p] = IF TimerStart(p) THEN Head(tx_fifo).id ELSE own[p]
    BY DEF Registers, RxPhys
  <2>2. own'[p] \in 0 .. MaxTasks
    BY <1>1, <2>1 DEF Inv, TypeOK
  <2>3. task_id_r'[p] = IF push_cnt[p] = 0 /\ TimerStart(p) THEN Head(tx_fifo).id ELSE task_id_r[p]
    BY DEF Registers, RxPhys
  <2>4. task_id_r'[p] = own'[p]
    BY <1>1, <2>1, <2>3 DEF Inv, Latched
  <2>5. told'[p] = IF p \in Starts(stop) THEN own'[p] ELSE told[p]
    BY DEF Registers, RxPhys
  <2> QED
    BY <2>1, <2>2, <2>4, <2>5 DEF Inv, TypeOK
<1>3. Latched'
  BY <1>2 DEF Latched
<1>4. OwnTask'
  <2> SUFFICES ASSUME NEW p \in PHYs, push_cnt'[p] \in 1 .. 3
               PROVE  task_id_r'[p] = told'[p]
    BY DEF OwnTask
  <2>1. CASE p \in Starts(stop)
    BY <1>2, <2>1
  <2>2. CASE p \notin Starts(stop)
    <3>1. push_cnt[p] \in 1 .. 2
      BY <2>2, Pushing DEF RX_DATA_LEN, Inv
    <3>2. ~TimerStart(p)
      BY <1>1, <3>1
    <3>3. own'[p] = own[p] /\ told'[p] = told[p] /\ task_id_r[p] = told[p]
      BY <1>2, <2>2, <3>1, <3>2 DEF Inv, OwnTask
    <3> QED
      BY <1>2, <3>3 DEF Inv, Latched
  <2> QED
    BY <2>1, <2>2
<1>5. /\ push_cnt' \in [PHYs -> 0 .. RX_DATA_LEN]
      /\ task_id_r' \in [PHYs -> 0 .. MaxTasks]
      /\ own' \in [PHYs -> 0 .. MaxTasks] /\ told' \in [PHYs -> 0 .. MaxTasks]
  <2>1. /\ push_cnt' = [p \in PHYs |-> push_cnt'[p]]
        /\ task_id_r' = [p \in PHYs |-> task_id_r'[p]]
        /\ own' = [p \in PHYs |-> own'[p]] /\ told' = [p \in PHYs |-> told'[p]]
    BY DEF Registers, RxPhys
  <2>2. \A p \in PHYs : push_cnt'[p] \in 0 .. RX_DATA_LEN
    BY Pushing DEF Inv
  <2>3. \A p \in PHYs : own'[p] \in 0 .. MaxTasks /\ told'[p] \in 0 .. MaxTasks
                          /\ task_id_r'[p] \in 0 .. MaxTasks
    BY <1>2
  <2> QED
    BY <2>1, <2>2, <2>3
<1> QED
  BY <1>3, <1>4, <1>5

(* The multiplexer of the reports. *)
LEMMA MuxTypes ==
  ASSUME TypeOK, Wired, NEW stop, NEW done, Registers(stop, done)
  PROVE  /\ rx_sel' \in PHYs \cup {None} /\ collided' \in BOOLEAN
         /\ rx_out' \in Seq(Words) /\ Len(rx_out') <= 1
         /\ rx_sel' # None => push_cnt'[rx_sel'] \in 1 .. RX_DATA_LEN
<1>1. Starts(stop) \in SUBSET PHYs
  BY StartsAreBusy DEF Registers
<1>2. rx_sel' = IF InReset \/ LastWord THEN None
                ELSE IF ~AlmostFull /\ Starts(stop) # {} THEN Lowest(Starts(stop))
                ELSE rx_sel
  BY DEF Registers, Rxc, Released
<1>3. Starts(stop) # {} => Lowest(Starts(stop)) \in Starts(stop)
  BY <1>1, LowestIn
<1>4. rx_sel' \in PHYs \cup {None}
  BY <1>1, <1>2, <1>3 DEF TypeOK
<1>5. rx_sel' # None => push_cnt'[rx_sel'] \in 1 .. RX_DATA_LEN
  <2> SUFFICES ASSUME rx_sel' # None PROVE push_cnt'[rx_sel'] \in 1 .. 5
    BY DEF RX_DATA_LEN
  <2>1. ~InReset /\ ~LastWord
    BY <1>2
  <2>2. CASE rx_sel' \in Starts(stop)
    <3>1. push_cnt'[rx_sel'] = 1
      BY <1>4, <2>1, <2>2, Pushing
    <3> QED
      BY <3>1
  <2>3. CASE rx_sel' \notin Starts(stop)
    <3>1. rx_sel' = rx_sel /\ rx_sel # None /\ rx_sel \in PHYs
      BY <1>2, <1>3, <1>4, <2>1, <2>3
    <3>2. push_cnt[rx_sel] \in 1 .. 4
      BY <2>1, <3>1 DEF Wired, LastWord, RX_DATA_LEN
    <3>3. push_cnt'[rx_sel] = push_cnt[rx_sel] + 1
      BY <2>1, <2>3, <3>1, <3>2, Pushing DEF RX_DATA_LEN
    <3> QED
      BY <3>1, <3>2, <3>3
  <2> QED
    BY <2>2, <2>3
<1>6. rx_out' \in Seq(Words) /\ Len(rx_out') <= 1
  <2>1. CASE rx_out' = <<>>
    BY <2>1
  <2>2. CASE rx_sel # None /\ rx_out' = <<[phy |-> rx_sel, k |-> push_cnt[rx_sel]]>>
    <3>1. [phy |-> rx_sel, k |-> push_cnt[rx_sel]] \in Words
      BY <2>2 DEF TypeOK, Wired, Words
    <3> QED
      BY <2>2, <3>1
  <2> QED
    BY <2>1, <2>2 DEF Registers, Rxc
<1>7. collided' \in BOOLEAN
  BY DEF Registers, Rxc
<1> QED
  BY <1>4, <1>5, <1>6, <1>7

(* The FIFOs. *)
LEMMA FifoTypes ==
  ASSUME TypeOK, Wired, NEW new \in Seq(Task), NEW pop, NEW flush, NEW m, Clock(new, pop, flush, m)
  PROVE  /\ tx_fifo' \in Seq(Task)
         /\ rx_fifo' \in Seq(Words) /\ Len(rx_fifo') <= RX_FIFO_DEPTH
         /\ reg_flush' \in 0 .. FlushClocks /\ reg_mask' = m /\ reports' \in 0 .. MaxReports
         /\ \E stop, done :
              /\ Registers(stop, done)
              /\ ~InReset /\ ~done => tx_fifo' = tx_fifo \o new
<1>1. PICK stop \in SUBSET PHYs, done \in BOOLEAN :
        /\ stop \subseteq Starts(stop) /\ reports + Cardinality(stop) <= MaxReports
        /\ done => word = TX_TASKID_LEN + 2
        /\ Txc(done) /\ TxPhy(done) /\ Timers /\ RxPhys(stop) /\ Rxc(stop)
        /\ tx_fifo' = IF InReset THEN <<>> ELSE (IF done THEN Tail(tx_fifo) ELSE tx_fifo) \o new
        /\ rx_fifo' = IF InReset THEN <<>>
                      ELSE (IF pop /\ rx_fifo # <<>> THEN Tail(rx_fifo) ELSE rx_fifo)
                             \o (IF Len(rx_fifo) < RX_FIFO_DEPTH THEN rx_out ELSE <<>>)
        /\ reg_flush' = IF flush THEN FlushClocks ELSE IF InReset THEN reg_flush - 1 ELSE 0
        /\ reg_mask' = m
        /\ reports' = reports + Cardinality(stop)
  BY DEF Clock
<1>2. Registers(stop, done)
  BY <1>1 DEF Registers
<1>3. tx_fifo' \in Seq(Task)
  <2>1. tx_fifo \in Seq(Task)
    BY DEF TypeOK
  <2>2. CASE done /\ ~InReset
    <3>1. tx_fifo' = Tail(tx_fifo) \o new
      BY <1>1, <2>2
    <3>2. tx_fifo # <<>>
      BY <1>1, <2>2 DEF Wired, TX_TASKID_LEN
    <3> QED
      BY <2>1, <3>1, <3>2
  <2>3. CASE ~done /\ ~InReset
    BY <1>1, <2>1, <2>3
  <2>4. CASE InReset
    BY <1>1, <2>4
  <2> QED
    BY <1>1, <2>2, <2>3, <2>4
<1>4. rx_fifo' \in Seq(Words) /\ Len(rx_fifo') <= RX_FIFO_DEPTH
  <2> DEFINE kept == IF pop /\ rx_fifo # <<>> THEN Tail(rx_fifo) ELSE rx_fifo
             more == IF Len(rx_fifo) < RX_FIFO_DEPTH THEN rx_out ELSE <<>>
  <2>1. kept \in Seq(Words) /\ Len(kept) <= Len(rx_fifo)
    BY DEF TypeOK
  <2>2. more \in Seq(Words) /\ Len(more) <= 1 /\ (Len(rx_fifo) >= RX_FIFO_DEPTH => Len(more) = 0)
    <3>1. CASE Len(rx_fifo) < RX_FIFO_DEPTH
      BY <3>1, Sizes DEF TypeOK
    <3>2. CASE ~(Len(rx_fifo) < RX_FIFO_DEPTH)
      BY <3>2
    <3> QED
      BY <3>1, <3>2, Sizes DEF TypeOK
  <2>3. rx_fifo' = IF InReset THEN <<>> ELSE kept \o more
    BY <1>1
  <2>4. Len(rx_fifo) \in Nat /\ Len(rx_fifo) <= RX_FIFO_DEPTH
    BY DEF TypeOK
  <2> HIDE DEF kept, more
  <2>5. Len(kept \o more) = Len(kept) + Len(more) /\ kept \o more \in Seq(Words)
        /\ Len(kept) \in Nat /\ Len(more) \in Nat
    BY <2>1, <2>2
  <2>6. Len(kept \o more) <= RX_FIFO_DEPTH
    BY <2>1, <2>2, <2>4, <2>5, Sizes
  <2> QED
    BY <2>3, <2>5, <2>6, Sizes
<1>5. reg_flush' \in 0 .. FlushClocks
  BY <1>1 DEF TypeOK, InReset, FlushClocks
<1>6. reports' \in 0 .. MaxReports
  <2>1. IsFiniteSet(stop)
    <3>1. IsFiniteSet(PHYs)
      BY Sizes, FS_Interval DEF PHYs
    <3> QED
      BY <3>1, FS_Subset
  <2>2. Cardinality(stop) \in Nat
    BY <2>1, FS_CardinalityType
  <2>3. reports' = reports + Cardinality(stop) /\ reports + Cardinality(stop) <= MaxReports
    BY <1>1
  <2>4. reports \in 0 .. MaxReports
    BY DEF TypeOK
  <2> QED
    BY <2>2, <2>3, <2>4, Sizes
<1>7. ~InReset /\ ~done => tx_fifo' = tx_fifo \o new
  BY <1>1
<1> QED
  BY <1>1, <1>2, <1>3, <1>4, <1>5, <1>6, <1>7

(* A clock keeps the invariant, whatever the firmware does in it. *)
LEMMA ClockKeeps ==
  ASSUME Inv, NEW new \in Seq(Task), NEW pop, NEW flush, Clock(new, pop, flush, reg_mask),
         rd' \in 0 .. RX_DATA_LEN - 1, tasks' \in 0 .. MaxTasks, flushes' \in 0 .. MaxFlushes
  PROVE  Inv'
<1>1. TypeOK /\ Wired
  BY DEF Inv
<1>2. PICK stop, done : /\ Registers(stop, done)
                        /\ ~InReset /\ ~done => tx_fifo' = tx_fifo \o new
  BY <1>1, FifoTypes
<1>3. /\ tx_fifo' \in Seq(Task)
      /\ rx_fifo' \in Seq(Words) /\ Len(rx_fifo') <= RX_FIFO_DEPTH
      /\ reg_flush' \in 0 .. FlushClocks /\ reg_mask' = reg_mask /\ reports' \in 0 .. MaxReports
  BY <1>1, FifoTypes
<1>4. /\ cur_state' \in {"IDLE", "REQ", "SENT"} /\ tx_phy_sel' \in PHYs \cup {None}
      /\ word' \in 0 .. TX_TASKID_LEN + 2 /\ reg_tout' \in Touts \cup {0}
      /\ word' > TX_TASKID_LEN => reg_tout' \in Touts
      /\ word' > 0 => cur_state' = "SENT" /\ tx_fifo # <<>> /\ ~InReset /\ ~done
  BY <1>1, <1>2, TxTypes
<1>5. /\ timer' \in [PHYs -> Nat] /\ timer_busy' \in [PHYs -> BOOLEAN]
      /\ \A p \in PHYs : \E t \in Touts \cup {0} : timer'[p] <= t
  BY <1>1, <1>2, TimerTypes
<1>6. /\ Latched' /\ OwnTask'
      /\ push_cnt' \in [PHYs -> 0 .. RX_DATA_LEN]
      /\ task_id_r' \in [PHYs -> 0 .. MaxTasks]
      /\ own' \in [PHYs -> 0 .. MaxTasks] /\ told' \in [PHYs -> 0 .. MaxTasks]
  BY <1>2, IdsLatched
<1>7. /\ rx_sel' \in PHYs \cup {None} /\ collided' \in BOOLEAN
      /\ rx_out' \in Seq(Words) /\ Len(rx_out') <= 1
      /\ rx_sel' # None => push_cnt'[rx_sel'] \in 1 .. RX_DATA_LEN
  BY <1>1, <1>2, MuxTypes
<1>8. \A p \in PHYs : tx_phy_sel' = p /\ word' <= TX_TASKID_LEN + 1 =>
        ~timer_busy'[p] /\ push_cnt'[p] \notin 1 .. word' + 1
  BY <1>1, <1>2, Selected
<1>9. word' > 0 => tx_fifo' # <<>>
  <2> SUFFICES ASSUME word' > 0 PROVE tx_fifo' # <<>>
    OBVIOUS
  <2>1. tx_fifo # <<>> /\ tx_fifo' = tx_fifo \o new
    BY <1>2, <1>4
  <2>2. tx_fifo \in Seq(Task)
    BY <1>1 DEF TypeOK
  <2> QED
    BY <2>1, <2>2
<1>10. TypeOK'
  <2>1. reg_mask' \subseteq PHYs
    BY <1>1, <1>3 DEF TypeOK
  <2> QED
    BY <1>3, <1>4, <1>5, <1>6, <1>7, <2>1 DEF TypeOK
<1>11. Wired'
  BY <1>4, <1>7, <1>8, <1>9 DEF Wired
<1> QED
  BY <1>6, <1>10, <1>11 DEF Inv

(* Every step is a clock, and keeps the invariant. *)
LEMMA Step ==
  ASSUME Inv, [Next]_vars
  PROVE  Inv'
<1>1. /\ rd \in 0 .. RX_DATA_LEN - 1 /\ tasks \in 0 .. MaxTasks /\ flushes \in 0 .. MaxFlushes
      /\ <<>> \in Seq(Task)
  BY DEF Inv, TypeOK
<1>2. CASE Tick
  BY <1>1, <1>2, ClockKeeps DEF Tick
<1>3. CASE alink_send_work
  <2>1. PICK t \in Touts : Send(t)
    BY <1>3 DEF alink_send_work
  <2>2. tasks' = tasks + 1 /\ tasks' \in 0 .. MaxTasks
    BY <1>1, <2>1, Sizes DEF Send
  <2>3. <<[id |-> tasks + 1, tout |-> t]>> \in Seq(Task)
    <3>1. [id |-> tasks + 1, tout |-> t] \in Task
      BY <2>2 DEF Task
    <3> QED
      BY <3>1
  <2>4. rd' = rd /\ flushes' = flushes
    BY <1>3, <2>1 DEF alink_send_work, Send
  <2>5. Clock(<<[id |-> tasks + 1, tout |-> t]>>, FALSE, FALSE, reg_mask)
    BY <2>1 DEF Send
  <2> QED
    BY <1>1, <2>2, <2>3, <2>4, <2>5, ClockKeeps
<1>4. CASE alink_read_result
  <2>1. rd' \in 0 .. RX_DATA_LEN - 1
    BY <1>1, <1>4 DEF alink_read_result, RX_DATA_LEN
  <2> QED
    BY <1>1, <1>4, <2>1, ClockKeeps DEF alink_read_result
<1>5. CASE alink_flush_fifo
  <2>1. flushes' \in 0 .. MaxFlushes
    BY <1>1, <1>5, Sizes DEF alink_flush_fifo
  <2> QED
    BY <1>1, <1>5, <2>1, ClockKeeps DEF alink_flush_fifo
<1>6. CASE UNCHANGED vars
  BY <1>6 DEF vars, slave, tx, rx, history, counts, Inv, TypeOK, Wired, Latched, OwnTask
<1> QED
  BY <1>2, <1>3, <1>4, <1>5, <1>6 DEF Next

(* After the reset nothing is selected and nothing pushed. *)
LEMMA Start ==
  ASSUME Init
  PROVE  Inv
<1>1. tx_fifo \in Seq(Task) /\ rx_fifo \in Seq(Words) /\ rx_out \in Seq(Words)
      /\ Len(rx_fifo) = 0 /\ Len(rx_out) = 0
  BY DEF Init
<1>2. timer_busy \in [PHYs -> BOOLEAN] /\ collided \in BOOLEAN
  BY DEF Init
<1>3. timer \in [PHYs -> Nat] /\ \A p \in PHYs : timer[p] = 0 /\ push_cnt[p] = 0
  BY DEF Init
<1>4. reg_mask \subseteq PHYs
  BY DEF Init
<1>5. TypeOK
  BY <1>1, <1>2, <1>3, <1>4, Sizes DEF Init, TypeOK, RX_DATA_LEN, TX_TASKID_LEN, FlushClocks
<1>6. Wired
  BY <1>3 DEF Init, Wired, TX_TASKID_LEN
<1>7. Latched /\ OwnTask
  BY <1>3 DEF Init, Latched, OwnTask
<1> QED
  BY <1>5, <1>6, <1>7 DEF Inv

-----------------------------------------------------------------------------
(* Where the reports lie.  A word is popped, one is written, and one leaves the multiplexer
   in the same clock; the invariant counts the words that are in the FIFO or on their way
   into it, and tells of the report being pushed how many words it has still to come, for
   which there is room. *)
End == Len(rx_fifo) + Len(rx_out)
At(n) == IF n <= Len(rx_fifo) THEN rx_fifo[n] ELSE rx_out[1]

Reading ==
  /\ InReset => rd = 0
  /\ rd > 0 => Len(rx_fifo) + rd >= RX_DATA_LEN

InPlace ==
  \A n \in 1 .. End :
    /\ At(n).k = ((n + rd - 1) % RX_DATA_LEN) + 1
    /\ n > 1 /\ At(n).k > 1 => At(n).phy = At(n - 1).phy

Pushed ==
  /\ rx_sel = None => (End + rd) % RX_DATA_LEN = 0 /\ End <= RX_FIFO_DEPTH
  /\ rx_sel # None =>
       /\ push_cnt[rx_sel] = ((End + rd) % RX_DATA_LEN) + 1
       /\ End + RX_DATA_LEN + 1 - push_cnt[rx_sel] <= RX_FIFO_DEPTH
       /\ push_cnt[rx_sel] > 1 => Len(rx_out) = 1 /\ rx_out[1].phy = rx_sel

Placed == Reading /\ (~collided => InPlace /\ Pushed)

(* Counting words modulo the length of a report. *)
LEMMA Modulo ==
  ASSUME NEW a \in Nat
  PROVE  /\ a % 5 \in 0 .. 4
         /\ (a + 1) % 5 = IF a % 5 = 4 THEN 0 ELSE (a % 5) + 1
OBVIOUS

(* The pointer of the reader moves with the words. *)
LEMMA Rotate ==
  ASSUME NEW a \in Nat, NEW r \in 0 .. 4, NEW d \in 0 .. 1
  PROVE  (a + ((r + d) % 5)) % 5 = (a + d + r) % 5
OBVIOUS

(* What the invariant counts are numbers, and its words are words. *)
LEMMA Counted ==
  ASSUME TypeOK
  PROVE  /\ rx_fifo \in Seq(Words) /\ rx_out \in Seq(Words)
         /\ Len(rx_fifo) \in Nat /\ Len(rx_out) \in 0 .. 1
         /\ End \in Nat /\ End <= Len(rx_fifo) + 1 /\ rd \in 0 .. 4
<1>1. rx_fifo \in Seq(Words) /\ rx_out \in Seq(Words) /\ Len(rx_out) <= 1 /\ rd \in 0 .. 5 - 1
  BY DEF TypeOK, RX_DATA_LEN
<1>2. Len(rx_fifo) \in Nat
  BY <1>1
<1>3. Len(rx_out) \in Nat
  BY <1>1
<1> DEFINE f == Len(rx_fifo)
          o == Len(rx_out)
<1>5. f \in Nat /\ o \in Nat /\ o <= 1 /\ End = f + o
  BY <1>1, <1>2, <1>3 DEF End
<1> HIDE DEF f, o
<1>6. o \in 0 .. 1 /\ End \in Nat /\ End <= f + 1
  BY <1>5
<1>4. rd \in 0 .. 4
  BY <1>1
<1> QED
  BY <1>1, <1>2, <1>4, <1>6, Zenon DEF f, o

(* No report is cut off while there is room for what is left of it. *)
LEMMA Room ==
  ASSUME TypeOK, Wired, Pushed, rx_out # <<>>
  PROVE  Len(rx_fifo) < RX_FIFO_DEPTH
<1>1. Len(rx_out) = 1 /\ End = Len(rx_fifo) + 1 /\ Len(rx_fifo) \in Nat
  BY Counted DEF End
<1>2. CASE rx_sel = None
  BY <1>1, <1>2, Sizes DEF Pushed
<1>3. CASE rx_sel # None
  <2>1. push_cnt[rx_sel] \in 1 .. 5
    BY <1>3 DEF Wired, RX_DATA_LEN
  <2>2. End + 6 - push_cnt[rx_sel] <= RX_FIFO_DEPTH
    BY <1>1, <1>3, <2>1 DEF Pushed, RX_DATA_LEN
  <2> QED
    BY <1>1, <2>1, <2>2, Sizes
<1> QED
  BY <1>2, <1>3

(* The words of the FIFO after a clock are those before it, and the one on its way, less
   the one that is popped. *)
LEMMA Shift ==
  ASSUME TypeOK, Wired, Pushed, NEW new, NEW pop \in BOOLEAN, NEW flush, NEW m,
         Clock(new, pop, flush, m), ~InReset, pop => rx_fifo # <<>>,
         NEW d \in 0 .. 1, d = IF pop THEN 1 ELSE 0
  PROVE  /\ Len(rx_fifo') = End - d
         /\ \A n \in 1 .. End - d : rx_fifo'[n] = At(n + d)
<1>1. rx_fifo' = (IF pop /\ rx_fifo # <<>> THEN Tail(rx_fifo) ELSE rx_fifo)
                   \o (IF Len(rx_fifo) < RX_FIFO_DEPTH THEN rx_out ELSE <<>>)
  BY DEF Clock
<1>2. (IF Len(rx_fifo) < RX_FIFO_DEPTH THEN rx_out ELSE <<>>) = rx_out
  BY Room
<1>3. CASE pop
  <2>1. rx_fifo' = Tail(rx_fifo) \o rx_out /\ rx_fifo # <<>> /\ d = 1
    BY <1>1, <1>2, <1>3
  <2>2. /\ Len(Tail(rx_fifo)) = Len(rx_fifo) - 1 /\ Tail(rx_fifo) \in Seq(Words)
        /\ \A n \in 1 .. Len(rx_fifo) - 1 : Tail(rx_fifo)[n] = rx_fifo[n + 1]
    BY <2>1, Counted
  <2>3. Len(rx_fifo) >= 1
    BY <2>1, Counted
  <2> QED
    BY <2>1, <2>2, <2>3, Counted DEF End, At
<1>4. CASE ~pop
  <2>1. rx_fifo' = rx_fifo \o rx_out /\ d = 0
    BY <1>1, <1>2, <1>4
  <2> QED
    BY <2>1, Counted DEF End, At
<1> QED
  BY <1>3, <1>4

(* Without a collision the grant is given when none is held and there is room for two
   reports, is kept while words are left, and ends with the last. *)
LEMMA Grant ==
  ASSUME TypeOK, Wired, NEW stop, NEW done, Registers(stop, done), ~InReset, ~collided'
  PROVE  /\ ~collided
         /\ rx_sel = None =>
              /\ rx_out' = <<>>
              /\ rx_sel' # None => push_cnt'[rx_sel'] = 1 /\ Len(rx_fifo) + 10 <= RX_FIFO_DEPTH
         /\ rx_sel # None =>
              /\ rx_out' = <<[phy |-> rx_sel, k |-> push_cnt[rx_sel]]>>
              /\ push_cnt[rx_sel] = 5 => rx_sel' = None
              /\ push_cnt[rx_sel] # 5 =>
                   rx_sel' = rx_sel /\ push_cnt'[rx_sel] = push_cnt[rx_sel] + 1
<1>1. Starts(stop) \in SUBSET PHYs
  BY StartsAreBusy DEF Registers
<1>2. rx_sel' = IF LastWord THEN None
                ELSE IF ~AlmostFull /\ Starts(stop) # {} THEN Lowest(Starts(stop))
                ELSE rx_sel
  BY DEF Registers, Rxc, Released
<1>3. Starts(stop) # {} => Lowest(Starts(stop)) \in Starts(stop)
  BY <1>1, LowestIn
<1>4. collided' = (collided \/ (rx_sel # None /\ ~LastWord /\ rx_sel' # rx_sel))
  BY DEF Registers, Rxc
<1>5. ~collided
  BY <1>4 DEF TypeOK
<1>6. rx_out' = IF rx_sel = None THEN <<>> ELSE <<[phy |-> rx_sel, k |-> push_cnt[rx_sel]]>>
  BY DEF Registers, Rxc
<1>7. ASSUME rx_sel = None, rx_sel' # None
      PROVE  push_cnt'[rx_sel'] = 1 /\ Len(rx_fifo) + 10 <= RX_FIFO_DEPTH
  <2>1. ~AlmostFull /\ rx_sel' \in Starts(stop) /\ rx_sel' \in PHYs
    BY <1>1, <1>2, <1>3, <1>7 DEF LastWord
  <2>2. push_cnt'[rx_sel'] = 1
    BY <2>1, Pushing
  <2> QED
    BY <2>1, <2>2, Counted, Sizes DEF AlmostFull, RX_DATA_LEN
<1>8. ASSUME rx_sel # None, push_cnt[rx_sel] # 5
      PROVE  rx_sel' = rx_sel /\ push_cnt'[rx_sel] = push_cnt[rx_sel] + 1
  <2>1. rx_sel' = rx_sel
    BY <1>4, <1>8 DEF LastWord, RX_DATA_LEN
  <2>2. rx_sel \in PHYs /\ push_cnt[rx_sel] \in 1 .. 4
    BY <1>8 DEF Wired, TypeOK, RX_DATA_LEN
  <2>3. rx_sel \notin Starts(stop)
    BY <2>2, Pushing
  <2> QED
    BY <2>1, <2>2, <2>3, Pushing DEF RX_DATA_LEN
<1>9. rx_sel # None /\ push_cnt[rx_sel] = 5 => rx_sel' = None
  BY <1>2 DEF LastWord, RX_DATA_LEN
<1> QED
  BY <1>5, <1>6, <1>7, <1>8, <1>9

(* The words that are there after a clock without a collision. *)
LEMMA EndMoves ==
  ASSUME TypeOK, Wired, Pushed, NEW new, NEW pop \in BOOLEAN, NEW flush, NEW m,
         Clock(new, pop, flush, m), ~InReset, ~collided', pop => rx_fifo # <<>>,
         NEW d \in 0 .. 1, d = IF pop THEN 1 ELSE 0
  PROVE  /\ rx_sel = None => End' = End - d
         /\ rx_sel # None => End' = End - d + 1 /\ Len(rx_out') = 1
                               /\ rx_out'[1].phy = rx_sel /\ rx_out'[1].k = push_cnt[rx_sel]
         /\ \A n \in 1 .. End - d : At(n)' = At(n + d)
<1>1. PICK stop, done : Registers(stop, done)
  BY DEF Clock, Registers
<1>2. Len(rx_fifo') = End - d /\ \A n \in 1 .. End - d : rx_fifo'[n] = At(n + d)
  BY Shift
<1>3. rx_out' = IF rx_sel = None THEN <<>> ELSE <<[phy |-> rx_sel, k |-> push_cnt[rx_sel]]>>
  BY <1>1, Grant
<1>4. End' = End - d + Len(rx_out')
  BY <1>2 DEF End
<1>5. rx_sel = None => Len(rx_out') = 0
  BY <1>3
<1>6. rx_sel # None => Len(rx_out') = 1 /\ rx_out'[1] = [phy |-> rx_sel, k |-> push_cnt[rx_sel]]
  BY <1>3
<1>7. \A n \in 1 .. End - d : At(n)' = At(n + d)
  BY <1>2, Counted DEF At
<1>8. rx_sel = None => End' = End - d
  BY <1>4, <1>5, Counted
<1>9. rx_sel # None => End' = End - d + 1 /\ Len(rx_out') = 1
                        /\ rx_out'[1].phy = rx_sel /\ rx_out'[1].k = push_cnt[rx_sel]
  <2> SUFFICES ASSUME rx_sel # None
               PROVE  /\ End' = End - d + 1 /\ Len(rx_out') = 1
                      /\ rx_out'[1].phy = rx_sel /\ rx_out'[1].k = push_cnt[rx_sel]
    BY Zenon
  <2>1. End' = End - d + 1 /\ Len(rx_out') = 1
    BY <1>4, <1>6, Counted
  <2>2. rx_out'[1].phy = rx_sel /\ rx_out'[1].k = push_cnt[rx_sel]
    BY <1>6
  <2> QED
    BY <2>1, <2>2
<1> QED
  BY <1>7, <1>8, <1>9

(* The words stay in place: a report goes on where its PHY stopped. *)
LEMMA InPlaceKept ==
  ASSUME TypeOK, Wired, InPlace, Pushed, NEW new, NEW pop \in BOOLEAN, NEW flush, NEW m,
         Clock(new, pop, flush, m), ~InReset, ~collided', pop => rx_fifo # <<>>,
         NEW d \in 0 .. 1, d = (IF pop THEN 1 ELSE 0), rd' = (rd + d) % 5
  PROVE  InPlace'
<1> DEFINE e == End
           e1 == End'
           r1 == rd'
           fst(n) == At(n)
           snd(n) == At(n)'
<1>1. /\ rx_sel = None => e1 = e - d
      /\ rx_sel # None => e1 = e - d + 1 /\ Len(rx_out') = 1
                            /\ rx_out'[1].phy = rx_sel /\ rx_out'[1].k = push_cnt[rx_sel]
      /\ \A n \in 1 .. e - d : snd(n) = fst(n + d)
  BY EndMoves
<1>2. e \in Nat /\ rd \in 0 .. 4 /\ d \in 0 .. 1 /\ r1 = (rd + d) % 5 /\ d <= e
  <2>1. pop => Len(rx_fifo) >= 1
    BY Counted
  <2> QED
    BY <2>1, Counted DEF End
<1>3. \A n \in 1 .. e : /\ fst(n).k = ((n + rd - 1) % 5) + 1
                        /\ n > 1 /\ fst(n).k > 1 => fst(n).phy = fst(n - 1).phy
  BY DEF InPlace, RX_DATA_LEN
<1>4. rx_sel # None => /\ push_cnt[rx_sel] = ((e + rd) % 5) + 1
                       /\ \A n : n = e1 => snd(n) = rx_out'[1]
                       /\ push_cnt[rx_sel] > 1 => e >= 1 /\ fst(e).phy = rx_sel
  <2> SUFFICES ASSUME rx_sel # None
               PROVE  /\ push_cnt[rx_sel] = ((e + rd) % 5) + 1
                      /\ \A n : n = e1 => snd(n) = rx_out'[1]
                      /\ push_cnt[rx_sel] > 1 => e >= 1 /\ fst(e).phy = rx_sel
    BY Zenon
  <2>1. push_cnt[rx_sel] = ((e + rd) % 5) + 1
    BY DEF Pushed, RX_DATA_LEN
  <2>2. \A n : n = e1 => snd(n) = rx_out'[1]
    <3>1. Len(rx_fifo') = e - d
      BY Shift
    <3>2. ~(e1 <= Len(rx_fifo'))
      BY <1>1, <1>2, <3>1
    <3>3. \A n : ~(n <= Len(rx_fifo')) => snd(n) = rx_out'[1]
      BY DEF At
    <3> HIDE DEF e1, snd
    <3> QED
      BY <3>2, <3>3
  <2>3. push_cnt[rx_sel] > 1 => e >= 1 /\ fst(e).phy = rx_sel
    <3>1. push_cnt[rx_sel] > 1 => Len(rx_out) = 1 /\ rx_out[1].phy = rx_sel
      BY DEF Pushed
    <3>2. Len(rx_out) = 1 => e = Len(rx_fifo) + 1 /\ ~(e <= Len(rx_fifo))
      BY Counted DEF End
    <3>3. Len(rx_out) = 1 => fst(e) = rx_out[1] /\ e >= 1
      BY <3>2, Counted DEF At
    <3> QED
      BY <3>1, <3>3
  <2> QED
    BY <2>1, <2>2, <2>3
<1> HIDE DEF e, e1, r1, fst, snd
<1>5. ASSUME NEW n \in 1 .. e1
      PROVE  /\ snd(n).k = ((n + r1 - 1) % 5) + 1
             /\ n > 1 /\ snd(n).k > 1 => snd(n).phy = snd(n - 1).phy
  <2>1. (n + r1 - 1) % 5 = (n + d + rd - 1) % 5
    BY <1>1, <1>2
  <2>2. CASE n <= e - d
    <3>1. n + d \in 1 .. e /\ n \in 1 .. e - d
      BY <1>1, <1>2, <2>2
    <3>2. snd(n) = fst(n + d)
      BY <1>1, <3>1
    <3>3. fst(n + d).k = ((n + d + rd - 1) % 5) + 1
      BY <1>3, <3>1
    <3>4. n > 1 => snd(n - 1) = fst(n + d - 1)
      <4> SUFFICES ASSUME n > 1 PROVE snd(n - 1) = fst(n + d - 1)
        OBVIOUS
      <4>1. n - 1 \in 1 .. e - d /\ n - 1 + d = n + d - 1
        BY <1>2, <3>1
      <4> QED
        BY <1>1, <4>1
    <3>5. n > 1 /\ fst(n + d).k > 1 => fst(n + d).phy = fst(n + d - 1).phy
      BY <1>2, <1>3, <3>1
    <3> QED
      BY <2>1, <3>2, <3>3, <3>4, <3>5
  <2>3. CASE ~(n <= e - d)
    <3>1. rx_sel # None /\ n = e1 /\ n = e - d + 1
      BY <1>1, <1>2, <2>3
    <3>2. snd(n).k = push_cnt[rx_sel] /\ snd(n).phy = rx_sel
      BY <1>1, <1>4, <3>1
    <3>3. push_cnt[rx_sel] = ((e + rd) % 5) + 1
      BY <1>4, <3>1
    <3>4. e + rd = n + d + rd - 1
      BY <1>2, <3>1
    <3>5. n > 1 /\ push_cnt[rx_sel] > 1 => snd(n - 1).phy = rx_sel
      <4> SUFFICES ASSUME n > 1, push_cnt[rx_sel] > 1 PROVE snd(n - 1).phy = rx_sel
        OBVIOUS
      <4>1. n - 1 \in 1 .. e - d /\ n - 1 + d = e
        BY <1>2, <3>1
      <4>2. snd(n - 1) = fst(e)
        BY <1>1, <4>1
      <4> QED
        BY <1>4, <3>1, <4>2
    <3> QED
      BY <2>1, <3>2, <3>3, <3>4, <3>5
  <2> QED
    BY <2>2, <2>3
<1> QED
  BY <1>5 DEF InPlace, RX_DATA_LEN, e1, r1, snd

(* The report being pushed keeps its room, and a granted one gets it. *)
LEMMA PushedKept ==
  ASSUME TypeOK, Wired, Pushed, NEW new, NEW pop \in BOOLEAN, NEW flush, NEW m,
         Clock(new, pop, flush, m), ~InReset, ~collided', pop => rx_fifo # <<>>,
         NEW d \in 0 .. 1, d = (IF pop THEN 1 ELSE 0), rd' = (rd + d) % 5
  PROVE  Pushed'
<1> DEFINE e == End
           e1 == End'
           r1 == rd'
           q == push_cnt[rx_sel]
           q1 == push_cnt'[rx_sel']
<1>1. /\ rx_sel = None => e1 = e - d
      /\ rx_sel # None => e1 = e - d + 1 /\ Len(rx_out') = 1 /\ rx_out'[1].phy = rx_sel
  BY EndMoves
<1>2. /\ e \in Nat /\ e <= Len(rx_fifo) + 1 /\ Len(rx_fifo) \in Nat
      /\ rd \in 0 .. 4 /\ d \in 0 .. 1 /\ r1 = (rd + d) % 5 /\ d <= e
  <2>1. pop => Len(rx_fifo) >= 1
    BY Counted
  <2> QED
    BY <2>1, Counted DEF End
<1>3. PICK stop, done : Registers(stop, done)
  BY DEF Clock, Registers
<1>4. /\ rx_sel = None =>
           (rx_sel' # None => q1 = 1 /\ Len(rx_fifo) + 10 <= RX_FIFO_DEPTH)
      /\ rx_sel # None =>
           /\ q = 5 => rx_sel' = None
           /\ q # 5 => rx_sel' = rx_sel /\ q1 = q + 1
  BY <1>3, Grant
<1>5. /\ rx_sel = None => (e + rd) % 5 = 0 /\ e <= RX_FIFO_DEPTH
      /\ rx_sel # None => q = ((e + rd) % 5) + 1 /\ e + 5 + 1 - q <= RX_FIFO_DEPTH
  BY DEF Pushed, RX_DATA_LEN
<1>6. rx_sel # None => q \in 1 .. 5
  BY DEF Wired, RX_DATA_LEN
<1> HIDE DEF e, e1, r1, q, q1
<1>7. (e1 + r1) % 5 = (e1 + d + rd) % 5
  <2>1. e1 \in Nat
    BY <1>1, <1>2
  <2>2. (e1 + ((rd + d) % 5)) % 5 = (e1 + d + rd) % 5
    BY <1>2, <2>1, Rotate
  <2> QED
    BY <1>2, <2>2
<1>8. rx_sel' = None => (e1 + r1) % 5 = 0 /\ e1 <= RX_FIFO_DEPTH
  <2>1. CASE rx_sel = None
    BY <1>1, <1>2, <1>5, <1>7, <2>1, Sizes
  <2>2. CASE rx_sel # None /\ q = 5
    BY <1>1, <1>2, <1>5, <1>7, <2>2, Sizes
  <2>3. CASE rx_sel # None /\ q # 5
    BY <1>4, <2>3
  <2> QED
    BY <2>1, <2>2, <2>3
<1>9. rx_sel' # None =>
        /\ q1 = ((e1 + r1) % 5) + 1 /\ e1 + 5 + 1 - q1 <= RX_FIFO_DEPTH
        /\ q1 > 1 => rx_sel # None /\ rx_sel' = rx_sel
  <2> SUFFICES ASSUME rx_sel' # None
               PROVE  /\ q1 = ((e1 + r1) % 5) + 1 /\ e1 + 5 + 1 - q1 <= RX_FIFO_DEPTH
                      /\ q1 > 1 => rx_sel # None /\ rx_sel' = rx_sel
    BY Zenon
  <2>1. CASE rx_sel = None
    <3>1. q1 = 1 /\ Len(rx_fifo) + 10 <= RX_FIFO_DEPTH
      BY <1>4, <2>1
    <3>2. e1 = e - d /\ e1 + d + rd = e + rd /\ (e + rd) % 5 = 0
      BY <1>1, <1>2, <1>5, <2>1
    <3>3. (e1 + r1) % 5 = 0
      BY <1>7, <3>2
    <3> QED
      BY <1>2, <3>1, <3>2, <3>3, Sizes
  <2>2. CASE rx_sel # None
    <3>1. q \in 1 .. 4 /\ rx_sel' = rx_sel /\ q1 = q + 1
      BY <1>4, <1>6, <2>2
    <3>2. e1 + d + rd = e + rd + 1
      BY <1>1, <1>2, <2>2
    <3> QED
      BY <1>1, <1>2, <1>5, <1>7, <2>2, <3>1, <3>2, Sizes
  <2> QED
    BY <2>1, <2>2
<1>10. rx_sel' # None /\ q1 > 1 => Len(rx_out') = 1 /\ rx_out'[1].phy = rx_sel'
  BY <1>1, <1>9
<1>11. e1 \in Nat
  BY <1>1, <1>2
<1> QED
  BY <1>8, <1>9, <1>10, <1>11 DEF Pushed, RX_DATA_LEN, e1, r1, q1

(* The reader begins when a whole report is there, and a flush finds it between reports. *)
LEMMA ReadingKept ==
  ASSUME TypeOK, Wired, Reading, NEW new, NEW pop \in BOOLEAN, NEW flush \in BOOLEAN, NEW m,
         Clock(new, pop, flush, m), pop => ~InReset /\ ~flush /\ (rd > 0 \/ ~rxempty),
         flush => rd = 0,
         NEW d \in 0 .. 1, d = (IF pop THEN 1 ELSE 0), rd' = (rd + d) % 5
  PROVE  Reading'
<1>1. rd \in 0 .. 4 /\ Len(rx_fifo) \in Nat /\ rx_fifo \in Seq(Words) /\ rx_out \in Seq(Words)
      /\ Len(rx_out) \in 0 .. 1 /\ rd' = (rd + d) % 5
  BY Counted
<1>2. reg_flush' = IF flush THEN FlushClocks ELSE IF InReset THEN reg_flush - 1 ELSE 0
  BY DEF Clock
<1>3. ~pop => rd' = rd
  BY <1>1
<1>4. InReset' => rd' = 0
  <2> SUFFICES ASSUME InReset' PROVE rd' = 0
    OBVIOUS
  <2>1. flush \/ InReset
    BY <1>2 DEF InReset
  <2>2. ~pop /\ rd = 0
    BY <2>1 DEF Reading
  <2> QED
    BY <1>3, <2>2
<1>5. rd' > 0 => Len(rx_fifo') + rd' >= 5
  <2> SUFFICES ASSUME rd' > 0 PROVE Len(rx_fifo') + rd' >= 5
    OBVIOUS
  <2>1. ~InReset
    <3>1. InReset => ~pop /\ rd = 0
      BY DEF Reading
    <3> QED
      BY <1>3, <3>1
  <2> DEFINE kept == IF pop /\ rx_fifo # <<>> THEN Tail(rx_fifo) ELSE rx_fifo
             more == IF Len(rx_fifo) < RX_FIFO_DEPTH THEN rx_out ELSE <<>>
  <2>2. rx_fifo' = kept \o more
    BY <2>1 DEF Clock
  <2>3. kept \in Seq(Words) /\ Len(kept) >= Len(rx_fifo) - d
    <3>1. CASE pop /\ rx_fifo # <<>>
      <4>1. kept = Tail(rx_fifo) /\ d = 1
        BY <3>1
      <4>2. Tail(rx_fifo) \in Seq(Words) /\ Len(Tail(rx_fifo)) = Len(rx_fifo) - 1
        BY <1>1, <3>1
      <4> HIDE DEF kept
      <4> QED
        BY <1>1, <4>1, <4>2
    <3>2. CASE ~(pop /\ rx_fifo # <<>>)
      <4>1. kept = rx_fifo
        BY <3>2
      <4> HIDE DEF kept
      <4> QED
        BY <1>1, <4>1
    <3> QED
      BY <3>1, <3>2
  <2>4. more \in Seq(Words)
    <3>1. more = rx_out \/ more = <<>>
      OBVIOUS
    <3>2. <<>> \in Seq(Words)
      OBVIOUS
    <3> HIDE DEF more
    <3> QED
      BY <1>1, <3>1, <3>2, Zenon
  <2> HIDE DEF kept, more
  <2>5. Len(rx_fifo') >= Len(rx_fifo) - d /\ Len(rx_fifo') \in Nat
    BY <1>1, <2>2, <2>3, <2>4
  <2>6. CASE ~pop
    <3>1. rd' = rd /\ d = 0 /\ Len(rx_fifo) + rd >= 5
      BY <1>3, <2>6 DEF Reading, RX_DATA_LEN
    <3> QED
      BY <1>1, <2>5, <3>1
  <2>7. CASE pop
    <3>1. d = 1 /\ (rd > 0 => Len(rx_fifo) + rd >= 5) /\ (rd = 0 => Len(rx_fifo) >= 5)
      BY <1>1, <2>7 DEF Reading, rxempty, RX_DATA_LEN
    <3>2. rd' = rd + 1
      BY <1>1, <3>1
    <3> QED
      BY <1>1, <2>5, <3>1, <3>2
  <2> QED
    BY <2>6, <2>7
<1> QED
  BY <1>4, <1>5 DEF Reading, RX_DATA_LEN

(* While a flush lasts there are no words. *)
LEMMA Flushed ==
  ASSUME TypeOK, Reading, NEW new, NEW flush, NEW m,
         Clock(new, FALSE, flush, m), InReset, rd' = rd
  PROVE  InPlace' /\ Pushed'
<1>1. PICK stop, done : Registers(stop, done)
  BY DEF Clock, Registers
<1>2. rx_fifo' = <<>> /\ rx_out' = <<>> /\ rx_sel' = None
  BY <1>1 DEF Clock, Registers, Rxc
<1>3. rd' = 0
  BY DEF Reading
<1>4. End' = 0
  <2>1. Len(rx_fifo') = 0 /\ Len(rx_out') = 0
    BY <1>2
  <2> QED
    BY <2>1 DEF End
<1>5. InPlace'
  BY <1>4 DEF InPlace
<1>6. Pushed'
  BY <1>2, <1>3, <1>4, Sizes DEF Pushed, RX_DATA_LEN
<1> QED
  BY <1>5, <1>6

(* A clock keeps the reports where they belong. *)
LEMMA ClockPlaces ==
  ASSUME TypeOK, Wired, Placed, NEW new, NEW pop \in BOOLEAN, NEW flush \in BOOLEAN, NEW m,
         Clock(new, pop, flush, m), pop => ~InReset /\ ~flush /\ (rd > 0 \/ ~rxempty),
         flush => rd = 0, rd' = IF pop THEN (rd + 1) % 5 ELSE rd
  PROVE  Placed'
<1> DEFINE d == IF pop THEN 1 ELSE 0
<1>1. d \in 0 .. 1 /\ d = (IF pop THEN 1 ELSE 0)
  OBVIOUS
<1>2. rd' = (rd + d) % 5
  BY Counted
<1>3. pop => rx_fifo # <<>>
  <2>1. pop => Len(rx_fifo) >= 1
    BY Counted DEF Placed, Reading, rxempty, RX_DATA_LEN
  <2> QED
    BY <2>1
<1> HIDE DEF d
<1>4. Reading /\ Reading'
  BY <1>1, <1>2, ReadingKept DEF Placed
<1>5. ASSUME ~collided' PROVE InPlace' /\ Pushed'
  <2>1. CASE InReset
    <3>1. rd' = rd /\ Clock(new, FALSE, flush, m)
      BY <2>1
    <3> QED
      BY <1>4, <2>1, <3>1, Flushed
  <2>2. CASE ~InReset
    <3>1. PICK stop, done : Registers(stop, done)
      BY DEF Clock, Registers
    <3>2. InPlace /\ Pushed
      BY <1>5, <2>2, <3>1, Grant DEF Placed
    <3>3. InPlace'
      BY <1>1, <1>2, <1>3, <1>5, <2>2, <3>2, InPlaceKept
    <3>4. Pushed'
      BY <1>1, <1>2, <1>3, <1>5, <2>2, <3>2, PushedKept
    <3> QED
      BY <3>3, <3>4
  <2> QED
    BY <2>1, <2>2
<1> QED
  BY <1>4, <1>5 DEF Placed

(* Every step does. *)
LEMMA StepPlaces ==
  ASSUME Inv, Placed, [Next]_vars
  PROVE  Placed'
<1>1. TypeOK /\ Wired /\ TRUE \in BOOLEAN /\ FALSE \in BOOLEAN
  BY DEF Inv
<1>2. CASE Tick
  BY <1>1, <1>2, ClockPlaces DEF Tick
<1>3. CASE alink_send_work
  <2>1. PICK t \in Touts : Send(t)
    BY <1>3 DEF alink_send_work
  <2>2. rd' = rd /\ Clock(<<[id |-> tasks + 1, tout |-> t]>>, FALSE, FALSE, reg_mask)
    BY <1>3, <2>1 DEF alink_send_work, Send
  <2> QED
    BY <1>1, <2>2, ClockPlaces
<1>4. CASE alink_read_result
  <2>1. /\ ~InReset /\ (rd > 0 \/ ~rxempty) /\ rd' = (rd + 1) % 5
        /\ Clock(<<>>, TRUE, FALSE, reg_mask)
    BY <1>4 DEF alink_read_result, RX_DATA_LEN
  <2> QED
    BY <1>1, <2>1, ClockPlaces
<1>5. CASE alink_flush_fifo
  <2>1. rd = 0 /\ rd' = rd /\ Clock(<<>>, FALSE, TRUE, reg_mask)
    BY <1>5 DEF alink_flush_fifo
  <2> QED
    BY <1>1, <2>1, ClockPlaces
<1>6. CASE UNCHANGED vars
  <2>1. UNCHANGED <<reg_flush, rx_fifo, rx_out, rx_sel, push_cnt, rd, collided>>
    BY <1>6 DEF vars, slave, tx, rx, history
  <2> QED
    BY <2>1 DEF Placed, Reading, InPlace, Pushed, End, At, InReset
<1> QED
  BY <1>2, <1>3, <1>4, <1>5, <1>6 DEF Next

(* No word is there after the reset. *)
LEMMA StartPlaced ==
  ASSUME Init
  PROVE  Placed
<1>1. End = 0
  <2>1. Len(rx_fifo) = 0 /\ Len(rx_out) = 0
    BY DEF Init
  <2> QED
    BY <2>1 DEF End
<1>2. InPlace
  BY <1>1 DEF InPlace
<1>3. rd = 0 /\ rx_sel = None
  BY DEF Init
<1>4. Pushed /\ Reading
  BY <1>1, <1>3, Sizes DEF Pushed, Reading, RX_DATA_LEN
<1> QED
  BY <1>2, <1>4 DEF Placed

(* The counted words are the FIFO and what is on its way into it. *)
LEMMA PlacedAligned ==
  ASSUME Inv, Placed
  PROVE  Aligned
<1> SUFFICES ASSUME ~collided
             PROVE  /\ rx_out # <<>> => Len(rx_fifo) < RX_FIFO_DEPTH
                    /\ LET ws == rx_fifo \o rx_out IN
                       \A n \in DOMAIN ws :
                         /\ ws[n].k = ((n + rd - 1) % RX_DATA_LEN) + 1
                         /\ n > 1 /\ ws[n].k > 1 => ws[n].phy = ws[n - 1].phy
  BY DEF Aligned
<1> DEFINE ws == rx_fifo \o rx_out
<1>1. TypeOK /\ Wired /\ InPlace /\ Pushed
  BY DEF Inv, Placed
<1>2. rx_out # <<>> => Len(rx_fifo) < RX_FIFO_DEPTH
  BY <1>1, Room
<1>3. DOMAIN ws = 1 .. End /\ \A n \in 1 .. End : ws[n] = At(n)
  BY <1>1, Counted DEF End, At
<1> HIDE DEF ws
<1>4. ASSUME NEW n \in 1 .. End
      PROVE  /\ ws[n].k = ((n + rd - 1) % RX_DATA_LEN) + 1
             /\ n > 1 /\ ws[n].k > 1 => ws[n].phy = ws[n - 1].phy
  <2>1. n > 1 => n - 1 \in 1 .. End
    BY <1>1, Counted
  <2> QED
    BY <1>1, <1>3, <2>1 DEF InPlace
<1> QED
  BY <1>2, <1>3, <1>4 DEF ws

(* Every register keeps its type: no timer runs past the longest timeout, and nothing is
   written into a full RX FIFO. *)
THEOREM TypeCorrect == FairSpec => []TypeOK
<1>1. Inv /\ [Next]_vars => Inv'
  BY Step
<1>2. Inv => TypeOK
  BY DEF Inv
<1> QED
  BY Start, <1>1, <1>2, PTL DEF FairSpec

(* A report carries the id of the task its PHY was given last when it began, for every
   number of PHYs and every timeout, however reports and tasks interleave. *)
THEOREM ReportsOwnTask == FairSpec => []OwnTask
<1>1. Inv /\ [Next]_vars => Inv'
  BY Step
<1>2. Inv => OwnTask
  BY DEF Inv
<1> QED
  BY Start, <1>1, <1>2, PTL DEF FairSpec

(* alink_read_result() finds every report whole and where it looks for it, and none is cut
   off by a full FIFO, for every depth of it: the limit AlmostFull leaves room for the words
   of the report being pushed, unless a report has begun during another. *)
THEOREM ReportsAligned == FairSpec => []Aligned
<1>1. Inv /\ [Next]_vars => Inv'
  BY Step
<1>2. Inv /\ Placed /\ [Next]_vars => Placed'
  BY StepPlaces
<1>3. Inv /\ Placed => Aligned
  BY PlacedAligned
<1> QED
  BY Start, StartPlaced, <1>1, <1>2, <1>3, PTL DEF FairSpec

-----------------------------------------------------------------------------
(* The block as TaskDispatch.  A PHY that is selected is enabled, and stays selected until
   its task is sent. *)
Chosen ==
  /\ cur_state # "IDLE" => tx_phy_sel # None
  /\ tx_phy_sel # None => tx_phy_sel \in reg_mask

(* The choice does not go away while the arbiter is idle, since no PHY becomes busy then. *)
LEMMA ChosenKept ==
  ASSUME Inv, Chosen, NEW stop, NEW done, Registers(stop, done), reg_mask' = reg_mask
  PROVE  Chosen'
<1>1. CASE InReset \/ done
  BY <1>1 DEF Registers, Txc, Chosen
<1>2. CASE ~InReset /\ ~done /\ cur_state = "IDLE"
  <2>1. tx_phy_sel' = Lowest(Free) /\ (cur_state' # "IDLE" => tx_phy_sel # None)
    BY <1>2 DEF Registers, Txc
  <2>2. Free \in SUBSET PHYs /\ Free \subseteq reg_mask
    BY DEF Free, Inv, TypeOK
  <2>3. tx_phy_sel # None => tx_phy_sel \in Free
    <3> SUFFICES ASSUME tx_phy_sel # None PROVE tx_phy_sel \in Free
      OBVIOUS
    <3>1. word = 0 /\ tx_phy_sel \in reg_mask /\ tx_phy_sel \in PHYs
      BY <1>2 DEF Inv, Wired, TypeOK, Chosen
    <3>2. ~timer_busy[tx_phy_sel]
      BY <3>1 DEF Inv, Wired, TX_TASKID_LEN
    <3>3. ~TimerStart(tx_phy_sel)
      BY <3>1 DEF TimerStart, task_id_vld, TX_TASKID_LEN
    <3> QED
      BY <3>1, <3>2, <3>3 DEF Free, reg_busy
  <2>4. IF Free = {} THEN Lowest(Free) = None ELSE Lowest(Free) \in Free
    BY <2>2, LowestIn
  <2>5. Lowest(Free) # None => Lowest(Free) \in reg_mask
    BY <2>2, <2>4
  <2>6. tx_phy_sel # None => Lowest(Free) # None
    <3>1. tx_phy_sel # None => Lowest(Free) \in PHYs
      BY <2>2, <2>3, <2>4
    <3> QED
      BY <3>1, Sizes DEF PHYs, None
  <2> QED
    BY <2>1, <2>5, <2>6 DEF Chosen
<1>3. CASE ~InReset /\ ~done /\ cur_state # "IDLE"
  <2>1. tx_phy_sel' = tx_phy_sel
    BY <1>3 DEF Registers, Txc
  <2> QED
    BY <1>3, <2>1 DEF Chosen
<1> QED
  BY <1>1, <1>2, <1>3

(* The ids of tasks that wait. *)
LEMMA IdsOf ==
  ASSUME NEW s \in Seq(Task)
  PROVE  /\ \A t \in Task : Ids(Append(s, t)) = Append(Ids(s), t.id)
         /\ s # <<>> => /\ Ids(Tail(s)) = Tail(Ids(s)) /\ Ids(s) # <<>>
                        /\ Head(Ids(s)) = Head(s).id /\ Head(s).id \in 0 .. MaxTasks
<1>1. \A n \in 1 .. Len(s) : s[n].id \in 0 .. MaxTasks
  <2>1. \A t \in Task : t.id \in 0 .. MaxTasks
    BY DEF Task
  <2>2. \A n \in 1 .. Len(s) : s[n] \in Task
    OBVIOUS
  <2> QED
    BY <2>1, <2>2
<1>2. /\ Ids(s) \in Seq(0 .. MaxTasks) /\ Len(Ids(s)) = Len(s)
      /\ \A n \in 1 .. Len(s) : Ids(s)[n] = s[n].id
  <2>1. Len(s) \in Nat /\ DOMAIN s = 1 .. Len(s)
    OBVIOUS
  <2>2. Ids(s) = [n \in 1 .. Len(s) |-> s[n].id]
    BY <2>1 DEF Ids
  <2>3. \A n \in 1 .. Len(s) : Ids(s)[n] = s[n].id
    BY <2>2
  <2>4. Ids(s) \in [1 .. Len(s) -> 0 .. MaxTasks]
    BY <1>1, <2>2
  <2>5. Ids(s) \in Seq(0 .. MaxTasks)
    <3>1. \A S, f : f \in [1 .. Len(s) -> S] => f \in Seq(S)
      BY <2>1
    <3> QED
      BY Zenon, <2>4, <3>1
  <2>6. DOMAIN Ids(s) = 1 .. Len(s)
    BY <2>2
  <2> QED
    BY <2>1, <2>3, <2>5, <2>6
<1>3. ASSUME NEW t \in Task
      PROVE  Ids(Append(s, t)) = Append(Ids(s), t.id)
  <2>1. t.id \in 0 .. MaxTasks
    BY DEF Task
  <2>2. /\ Append(s, t) \in Seq(Task) /\ Len(Append(s, t)) = Len(s) + 1
        /\ \A n \in 1 .. Len(s) + 1 : Append(s, t)[n] = IF n <= Len(s) THEN s[n] ELSE t
    OBVIOUS
  <2>3. Ids(Append(s, t)) = [n \in 1 .. Len(s) + 1 |-> Append(s, t)[n].id]
    BY <2>2 DEF Ids
  <2>4. /\ Append(Ids(s), t.id) \in Seq(0 .. MaxTasks) /\ Len(Append(Ids(s), t.id)) = Len(s) + 1
        /\ \A n \in 1 .. Len(s) + 1 :
             Append(Ids(s), t.id)[n] = IF n <= Len(s) THEN Ids(s)[n] ELSE t.id
    BY <1>2, <2>1
  <2>5. Append(Ids(s), t.id) = [n \in 1 .. Len(s) + 1 |-> Append(Ids(s), t.id)[n]]
    BY <2>4
  <2>6. \A n \in 1 .. Len(s) + 1 : Append(Ids(s), t.id)[n] = Append(s, t)[n].id
    BY <1>2, <2>2, <2>4
  <2> QED
    BY <2>3, <2>5, <2>6
<1>4. ASSUME s # <<>>
      PROVE  /\ Ids(s) # <<>> /\ Head(Ids(s)) = Head(s).id /\ Head(s).id \in 0 .. MaxTasks
  <2>1. Len(s) > 0
    BY <1>4
  <2> QED
    BY <1>1, <1>2, <2>1
<1>5. ASSUME s # <<>>
      PROVE  Ids(Tail(s)) = Tail(Ids(s))
  <2>1. /\ Tail(s) \in Seq(Task) /\ Len(Tail(s)) = Len(s) - 1
        /\ \A n \in 1 .. Len(s) - 1 : Tail(s)[n] = s[n + 1]
    BY <1>5
  <2>2. Ids(Tail(s)) = [n \in 1 .. Len(s) - 1 |-> Tail(s)[n].id]
    BY <2>1 DEF Ids
  <2>3. /\ Tail(Ids(s)) \in Seq(0 .. MaxTasks) /\ Len(Tail(Ids(s))) = Len(s) - 1
        /\ \A n \in 1 .. Len(s) - 1 : Tail(Ids(s))[n] = Ids(s)[n + 1]
    BY <1>2, <1>4, <1>5
  <2>4. Tail(Ids(s)) = [n \in 1 .. Len(s) - 1 |-> Tail(Ids(s))[n]]
    <3>1. \A S : \A u \in Seq(S) : u = [n \in 1 .. Len(u) |-> u[n]]
      OBVIOUS
    <3> QED
      BY Zenon, <2>3, <3>1
  <2>5. \A n \in 1 .. Len(s) - 1 : Tail(Ids(s))[n] = Tail(s)[n].id
    BY <1>2, <2>1, <2>3
  <2> QED
    BY <2>2, <2>4, <2>5
<1> QED
  BY <1>3, <1>4, <1>5

(* A task begins when the last word of its id is out. *)
LEMMA StartsNext ==
  ASSUME Inv, Chosen, NEW stop, NEW done, Registers(stop, done), NEW p \in PHYs
  PROVE  TimerStart(p)' <=> ~InReset /\ word = TX_TASKID_LEN /\ tx_phy_sel = p
<1>1. word \in 0 .. 6
  BY DEF Inv, TypeOK, TX_TASKID_LEN
<1>2. done => word = 6
  BY DEF Registers, TX_TASKID_LEN
<1>3. word' = 5 <=> ~InReset /\ word = 4
  BY <1>1, <1>2 DEF Registers, TxPhy, TX_TASKID_LEN
<1>4. ~InReset /\ word = 4 => tx_phy_sel' = tx_phy_sel
  BY <1>2 DEF Registers, Txc, Inv, Wired
<1> QED
  BY <1>3, <1>4 DEF TimerStart, task_id_vld, TX_TASKID_LEN

(* What a PHY works on is known by its id. *)
LEMMA TaskKnown ==
  ASSUME Inv, NEW p \in PHYs
  PROVE  /\ TaskOf(p) \in 0 .. MaxTasks \cup {None} /\ (reg_busy(p) => TaskOf(p) # None)
         /\ ReportOf(p) \in 0 .. MaxTasks \cup {None}
<1>1. TimerStart(p) => Head(tx_fifo).id \in 0 .. MaxTasks
  <2> SUFFICES ASSUME TimerStart(p) PROVE Head(tx_fifo).id \in 0 .. MaxTasks
    OBVIOUS
  <2>1. tx_fifo # <<>> /\ tx_fifo \in Seq(Task)
    BY DEF TimerStart, task_id_vld, TX_TASKID_LEN, Inv, Wired, TypeOK
  <2> QED
    BY <2>1, IdsOf
<1>2. own[p] \in 0 .. MaxTasks /\ task_id_r[p] \in 0 .. MaxTasks
  BY DEF Inv, TypeOK
<1>3. None \notin 0 .. MaxTasks
  BY Sizes DEF None
<1> QED
  BY <1>1, <1>2, <1>3 DEF TaskOf, ReportOf, reg_busy

AllKnown == \A p \in PHYs : TaskOf(p) \in 0 .. MaxTasks \cup {None}
                            /\ ReportOf(p) \in 0 .. MaxTasks \cup {None}

(* The same of all PHYs, after the clock. *)
LEMMA KnownNext == Inv' => AllKnown'
<1>1. Inv => AllKnown
  BY TaskKnown DEF AllKnown
<1> QED
  BY <1>1, PTL

(* The ids a PHY holds after the clock. *)
LEMMA IdsNext ==
  ASSUME Inv, NEW stop, NEW done, Registers(stop, done), NEW p \in PHYs
  PROVE  /\ own'[p] = IF TimerStart(p) THEN Head(tx_fifo).id ELSE own[p]
         /\ TimerStart(p) => push_cnt[p] = 0
         /\ task_id_r'[p] = own'[p] /\ task_id_r[p] = own[p]
<1>1. own'[p] = IF TimerStart(p) THEN Head(tx_fifo).id ELSE own[p]
  BY DEF Registers, RxPhys
<1>2. TimerStart(p) => push_cnt[p] = 0
  <2> SUFFICES ASSUME TimerStart(p) PROVE push_cnt[p] = 0
    OBVIOUS
  <2>1. word = 5 /\ tx_phy_sel = p
    BY DEF TimerStart, task_id_vld, TX_TASKID_LEN
  <2>2. push_cnt[p] \notin 1 .. 6 /\ push_cnt[p] \in 0 .. 5
    BY <2>1, Pushing DEF Inv, Wired, TX_TASKID_LEN, RX_DATA_LEN
  <2> QED
    BY <2>2
<1>3. Latched'
  BY IdsLatched
<1> QED
  BY <1>1, <1>2, <1>3 DEF Latched, Inv

(* A PHY works on, ends its task, or is given one. *)
LEMMA Works ==
  ASSUME Inv, Chosen, NEW stop, NEW done, Registers(stop, done), NEW p \in PHYs, ~TimerStart(p)'
  PROVE  TaskOf(p)' \in {TaskOf(p), None}
<1>1. TaskOf(p)' = IF timer_busy'[p] THEN own'[p] ELSE None
  BY DEF TaskOf
<1>2. timer_busy'[p] => TimerStart(p) \/ timer_busy[p]
  BY DEF Registers, Timers
<1>3. own'[p] = IF TimerStart(p) THEN Head(tx_fifo).id ELSE own[p]
  BY IdsNext
<1> QED
  BY <1>1, <1>2, <1>3 DEF TaskOf

(* A report begins with the task its PHY has, and keeps it while the id is passed on. *)
LEMMA ReportsTask ==
  ASSUME Inv, NEW stop, NEW done, Registers(stop, done), NEW p \in PHYs
  PROVE  \/ ReportOf(p)' \in {ReportOf(p), None}
         \/ ReportOf(p) = None /\ TaskOf(p) # None /\ ReportOf(p)' = TaskOf(p)
<1>1. /\ own'[p] = IF TimerStart(p) THEN Head(tx_fifo).id ELSE own[p]
      /\ TimerStart(p) => push_cnt[p] = 0
      /\ task_id_r'[p] = own'[p] /\ task_id_r[p] = own[p]
  BY IdsNext
<1>2. ReportOf(p)' = IF push_cnt'[p] \in 1 .. 3 THEN task_id_r'[p] ELSE None
  BY DEF ReportOf
<1>3. CASE push_cnt'[p] \notin 1 .. 3
  BY <1>2, <1>3
<1>4. CASE push_cnt'[p] \in 1 .. 3 /\ p \in Starts(stop)
  <2>1. reg_busy(p) /\ push_cnt[p] = 0
    BY <1>4, Pushing DEF Inv
  <2>2. own'[p] = TaskOf(p) /\ TaskOf(p) # None
    BY <1>1, <2>1, TaskKnown DEF TaskOf, reg_busy
  <2> QED
    BY <1>1, <1>2, <1>4, <2>1, <2>2 DEF ReportOf
<1>5. CASE push_cnt'[p] \in 1 .. 3 /\ p \notin Starts(stop)
  <2>1. push_cnt[p] \in 1 .. 2
    BY <1>5, Pushing DEF Inv, RX_DATA_LEN
  <2>2. own'[p] = own[p]
    BY <1>1, <2>1
  <2> QED
    BY <1>1, <1>2, <1>5, <2>1, <2>2 DEF ReportOf
<1> QED
  BY <1>3, <1>4, <1>5

(* What is not given out yet. *)
Pending == IF Given THEN Tail(tx_fifo) ELSE tx_fifo

(* The queue: a task leaves it when its PHY starts, and no other way; the last bit of a task
   removes what has left already. *)
LEMMA Queued ==
  ASSUME Inv, ~InReset, NEW new \in Seq(Task), NEW stop, NEW done, Registers(stop, done),
         tx_fifo' = (IF done THEN Tail(tx_fifo) ELSE tx_fifo) \o new
  PROVE  /\ Pending \in Seq(Task)
         /\ word # TX_TASKID_LEN => Pending' = Pending \o new
         /\ word = TX_TASKID_LEN =>
              Pending = tx_fifo /\ tx_fifo # <<>> /\ Head(tx_fifo') = Head(tx_fifo)
              /\ Pending' = Tail(tx_fifo) \o new
<1>1. word \in 0 .. 6 /\ tx_fifo \in Seq(Task) /\ (word > 0 => tx_fifo # <<>>)
  BY DEF Inv, TypeOK, Wired, TX_TASKID_LEN
<1>2. done => word = 6
  BY DEF Registers, TX_TASKID_LEN
<1>3. word' = IF done THEN 0
              ELSE IF word = 0 THEN IF cur_state = "REQ" /\ tx_fifo # <<>> THEN 1 ELSE 0
              ELSE IF word <= 5 THEN word + 1 ELSE word
  BY DEF Registers, TxPhy, TX_TASKID_LEN
<1>4. (Given <=> word > 4) /\ (Given' <=> word' > 4)
  BY DEF Given, TX_TASKID_LEN
<1>5. Pending \in Seq(Task)
  BY <1>1, <1>4 DEF Pending
<1>6. CASE done
  BY <1>2, <1>3, <1>4, <1>5, <1>6 DEF Pending, TX_TASKID_LEN
<1>7. CASE ~done /\ word > 4
  <2>1. Given /\ Given' /\ tx_fifo' = tx_fifo \o new /\ tx_fifo # <<>>
    BY <1>1, <1>3, <1>4, <1>7
  <2>2. Tail(tx_fifo \o new) = Tail(tx_fifo) \o new
    BY <1>1, <2>1
  <2> QED
    BY <1>5, <1>7, <2>1, <2>2 DEF Pending, TX_TASKID_LEN
<1>8. CASE ~done /\ word = 4
  <2>1. ~Given /\ Given' /\ tx_fifo' = tx_fifo \o new /\ tx_fifo # <<>>
    BY <1>1, <1>3, <1>4, <1>8
  <2>2. Tail(tx_fifo \o new) = Tail(tx_fifo) \o new /\ Head(tx_fifo \o new) = Head(tx_fifo)
    BY <1>1, <2>1
  <2> QED
    BY <1>5, <1>8, <2>1, <2>2 DEF Pending, TX_TASKID_LEN
<1>9. CASE ~done /\ word < 4
  <2>1. ~Given /\ ~Given' /\ tx_fifo' = tx_fifo \o new
    BY <1>1, <1>3, <1>4, <1>9
  <2> QED
    BY <1>5, <1>9, <2>1 DEF Pending, TX_TASKID_LEN
<1>10. word > 4 \/ word = 4 \/ word < 4
  BY <1>1
<1> QED
  BY <1>6, <1>7, <1>8, <1>9, <1>10

(* Tasks sent in the clock wait behind the others. *)
LEMMA Waits ==
  ASSUME NEW s \in Seq(Task), NEW new, new = <<>> \/ \E t \in Task : new = <<t>>
  PROVE  Ids(s \o new) = Ids(s) \/ \E i \in 0 .. MaxTasks : Ids(s \o new) = Append(Ids(s), i)
<1>1. CASE new = <<>>
  <2>1. s \o new = s
    BY <1>1
  <2> QED
    BY <2>1
<1>2. ASSUME NEW t \in Task, new = <<t>>
      PROVE  \E i \in 0 .. MaxTasks : Ids(s \o new) = Append(Ids(s), i)
  <2>1. s \o new = Append(s, t)
    BY <1>2
  <2>2. t.id \in 0 .. MaxTasks
    BY DEF Task
  <2> QED
    BY <2>1, <2>2, IdsOf
<1> QED
  BY <1>1, <1>2

(* A clock is a step of TaskDispatch. *)
LEMMA ClockDispatches ==
  ASSUME Inv, Chosen, Inv', NEW new, new = <<>> \/ \E t \in Task : new = <<t>>,
         NEW pop, NEW flush, Clock(new, pop, flush, reg_mask)
  PROVE  Chosen' /\ (Dispatch!Step \/ Dispatch!Flush)
<1> DEFINE Q == Ids(IF Given THEN Tail(tx_fifo) ELSE tx_fifo)
           T == [p \in PHYs |-> TaskOf(p)]
           R == [p \in PHYs |-> ReportOf(p)]
<1>1. PICK stop \in SUBSET PHYs, done \in BOOLEAN :
        /\ Registers(stop, done)
        /\ tx_fifo' = IF InReset THEN <<>> ELSE (IF done THEN Tail(tx_fifo) ELSE tx_fifo) \o new
        /\ reg_mask' = reg_mask
  BY Zenon DEF Clock, Registers
<1>2. Chosen'
  BY <1>1, ChosenKept
<1>3. Q = Ids(Pending) /\ Q' = Ids(Pending')
  BY DEF Pending
<1>4. CASE InReset
  <2>1. tx_fifo' = <<>> /\ word' = 0
    BY <1>1, <1>4 DEF Registers, TxPhy
  <2>2. ASSUME NEW p \in PHYs
        PROVE  TaskOf(p)' = None /\ ReportOf(p)' = None
    <3>1. ~timer_busy'[p] /\ push_cnt'[p] = 0
      BY <1>1, <1>4 DEF Registers, Timers, RxPhys
    <3>2. ~TimerStart(p)'
      BY <2>1 DEF TimerStart, task_id_vld, TX_TASKID_LEN
    <3> QED
      BY <3>1, <3>2 DEF TaskOf, ReportOf
  <2>3. Q' = <<>>
    BY <2>1 DEF Given, TX_TASKID_LEN, Ids
  <2>4. T' = [p \in PHYs |-> None] /\ R' = [p \in PHYs |-> None]
    BY <2>2
  <2> QED
    BY <1>2, <2>3, <2>4 DEF Dispatch!Flush, Dispatch!Nothing
<1>5. CASE ~InReset
  <2>1. new \in Seq(Task)
    <3>1. \A t \in Task : <<t>> \in Seq(Task)
      OBVIOUS
    <3>2. <<>> \in Seq(Task)
      OBVIOUS
    <3> QED
      BY Zenon, <3>1, <3>2
  <2>2. /\ Pending \in Seq(Task)
        /\ word # TX_TASKID_LEN => Pending' = Pending \o new
        /\ word = TX_TASKID_LEN =>
             Pending = tx_fifo /\ tx_fifo # <<>> /\ Head(tx_fifo') = Head(tx_fifo)
             /\ Pending' = Tail(tx_fifo) \o new
    BY <1>1, <1>5, <2>1, Queued
  <2>3. T' \in [PHYs -> 0 .. MaxTasks \cup {None}] /\ R' \in [PHYs -> 0 .. MaxTasks \cup {None}]
    <3>1. \A p \in PHYs : TaskOf(p)' \in 0 .. MaxTasks \cup {None}
                          /\ ReportOf(p)' \in 0 .. MaxTasks \cup {None}
      BY KnownNext DEF AllKnown
    <3> QED
      BY <3>1
  <2>4. \A p \in PHYs : \/ R'[p] \in {R[p], None}
                        \/ R[p] = None /\ T[p] # None /\ R'[p] = T[p]
    BY <1>1, ReportsTask
  <2>5. \A p \in PHYs : ~TimerStart(p)' => T'[p] \in {T[p], None}
    BY <1>1, Works
  <2>6. \A p \in PHYs : TimerStart(p)' <=> word = TX_TASKID_LEN /\ tx_phy_sel = p
    BY <1>1, <1>5, StartsNext
  <2>7. CASE word # TX_TASKID_LEN
    <3>1. \A p \in PHYs : T'[p] \in {T[p], None}
      BY <2>5, <2>6, <2>7
    <3>2. Q' = Q \/ \E i \in 0 .. MaxTasks : Q' = Append(Q, i)
      BY <1>3, <2>2, <2>7, Waits
    <3> HIDE DEF Q, T, R
    <3> QED
      BY <1>2, <2>3, <2>4, <3>1, <3>2
         DEF Dispatch!Step, Dispatch!Report, Dispatch!Wait, Dispatch!Work, Q, T, R
  <2>8. CASE word = TX_TASKID_LEN
    <3>1. PICK p \in PHYs : p = tx_phy_sel /\ ~timer_busy[p]
      <4>1. cur_state = "SENT"
        BY <2>8 DEF Inv, Wired, TX_TASKID_LEN
      <4>2. tx_phy_sel \in PHYs
        BY <4>1 DEF Chosen, Inv, TypeOK
      <4> QED
        BY <2>8, <4>2 DEF Inv, Wired, TX_TASKID_LEN
    <3>2. T[p] = None
      BY <2>8, <3>1 DEF TaskOf, TimerStart, task_id_vld, TX_TASKID_LEN
    <3>3. T'[p] = Head(tx_fifo).id
      <4>1. TimerStart(p)'
        BY <2>6, <2>8, <3>1
      <4> QED
        BY <2>2, <2>8, <3>1, <4>1 DEF TaskOf
    <3>4. Q # <<>> /\ Head(Q) = Head(tx_fifo).id /\ Tail(Q) = Ids(Tail(tx_fifo))
      BY <1>3, <2>2, <2>8, IdsOf
    <3>5. Q' = Tail(Q) \/ \E i \in 0 .. MaxTasks : Q' = Append(Tail(Q), i)
      <4>1. Tail(tx_fifo) \in Seq(Task)
        BY <2>2, <2>8
      <4> QED
        BY <1>3, <2>2, <2>8, <3>4, <4>1, Waits
    <3>6. \A q \in PHYs \ {p} : T'[q] \in {T[q], None}
      BY <2>5, <2>6, <3>1
    <3> HIDE DEF Q, T, R
    <3>7. Dispatch!Give(p) /\ Dispatch!Wait(Tail(Q)) /\ \A q \in PHYs \ {p} : Dispatch!Work(q)
      BY <3>1, <3>2, <3>3, <3>4, <3>5, <3>6 DEF Dispatch!Give, Dispatch!Wait, Dispatch!Work, Q, T
    <3> QED
      BY <1>2, <2>3, <2>4, <3>1, <3>7 DEF Dispatch!Step, Dispatch!Report, Q, T, R
  <2> QED
    BY <2>7, <2>8
<1> QED
  BY <1>4, <1>5

(* The block does what TaskDispatch promises, for every number of PHYs and every timeout:
   tasks go out in order, each to one PHY that has none, a report carries the task its PHY
   had when it began, although one transmitter, one task id and one timeout register serve
   all PHYs, and a flush leaves nothing. *)
THEOREM DispatchRefined == FairSpec => Dispatches
<1> DEFINE Q == Ids(IF Given THEN Tail(tx_fifo) ELSE tx_fifo)
           T == [p \in PHYs |-> TaskOf(p)]
           R == [p \in PHYs |-> ReportOf(p)]
<1>1. Init => Chosen /\ Dispatch!Init
  <2> SUFFICES ASSUME Init
               PROVE  Chosen /\ Q = <<>> /\ T = [p \in PHYs |-> None] /\ R = [p \in PHYs |-> None]
    BY DEF Dispatch!Init, Dispatch!Nothing
  <2>1. Q = <<>>
    BY DEF Init, Given, Ids, TX_TASKID_LEN
  <2>2. \A p \in PHYs : TaskOf(p) = None /\ ReportOf(p) = None
    BY DEF Init, TaskOf, ReportOf, TimerStart, task_id_vld, TX_TASKID_LEN
  <2>3. Chosen
    BY DEF Init, Chosen
  <2> QED
    BY <2>1, <2>2, <2>3
<1>2. Inv /\ Inv' /\ Chosen /\ [Next]_vars => Chosen' /\ [Dispatch!Step \/ Dispatch!Flush]_<<Q, T, R>>
  <2> SUFFICES ASSUME Inv, Inv', Chosen, [Next]_vars
               PROVE  Chosen' /\ (Dispatch!Step \/ Dispatch!Flush \/ UNCHANGED <<Q, T, R>>)
    OBVIOUS
  <2>1. CASE Tick
    BY <2>1, ClockDispatches DEF Tick
  <2>2. CASE alink_send_work
    <3>1. PICK t \in Touts : Send(t)
      BY <2>2 DEF alink_send_work
    <3> DEFINE new == [id |-> tasks + 1, tout |-> t]
    <3>2. new \in Task
      <4>1. tasks + 1 \in 0 .. MaxTasks
        BY <3>1, Sizes DEF Send, Inv, TypeOK
      <4> QED
        BY <4>1 DEF Task
    <3>3. Clock(<<new>>, FALSE, FALSE, reg_mask)
      BY <3>1 DEF Send
    <3> HIDE DEF new
    <3> QED
      BY <3>2, <3>3, ClockDispatches
  <2>3. CASE alink_read_result
    BY <2>3, ClockDispatches DEF alink_read_result
  <2>4. CASE alink_flush_fifo
    BY <2>4, ClockDispatches DEF alink_flush_fifo
  <2>5. CASE UNCHANGED vars
    <3>1. UNCHANGED <<word, tx_fifo, tx_phy_sel, timer_busy, own, push_cnt, task_id_r, reg_mask, cur_state>>
      BY <2>5 DEF vars, slave, tx, rx, history
    <3>2. Q' = Q
      BY <3>1 DEF Given, Ids
    <3>3. \A p \in PHYs : TaskOf(p)' = TaskOf(p) /\ ReportOf(p)' = ReportOf(p)
      BY <3>1 DEF TaskOf, ReportOf, TimerStart, task_id_vld
    <3>4. T' = T /\ R' = R
      BY <3>3
    <3>5. Chosen'
      BY <3>1 DEF Chosen
    <3> QED
      BY <3>2, <3>4, <3>5
  <2> QED
    BY <2>1, <2>2, <2>3, <2>4, <2>5 DEF Next
<1>3. Inv /\ [Next]_vars => Inv'
  BY Step
<1> QED
  BY Start, <1>1, <1>2, <1>3, PTL DEF FairSpec, Dispatches, Dispatch!Spec
================================================================================
