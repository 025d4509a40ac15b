--------------------------------- MODULE Alink ---------------------------------
(***************************************************************************)
(* The alink controller, clock by clock: the arbiter (txc.v), the           *)
(* transmitter all PHYs share (tx_phy.v), the timer of each PHY             *)
(* (tx_timer.v), the receivers (rx_phy.v), the multiplexer of the reports   *)
(* (rxc.v) and the two FIFOs and registers (alink.v, alink_slave.v).        *)
(*                                                                         *)
(* In one clock every register takes its next value from the values of all  *)
(* registers, and the firmware makes at most one access.  A task is one     *)
(* element of the TX FIFO, although it is 23 words, and the transmitter     *)
(* needs any number of clocks for its hash and nonces; a report is five     *)
(* words of the RX FIFO, because five words is what can go wrong.  The      *)
(* ASICs report at any time; their line is not modelled.                    *)
(*                                                                         *)
(* The timer of a PHY has 26 bits, and the PHY is free when it equals the   *)
(* lowest 26 bits of the timeout.  Touts are timeouts below 2^26, for which *)
(* these are all of it, and 0x2fffffff, the idle tasks', which is exactly   *)
(* 2^26 - 1 to the timer: it wraps to 0 there.  The timeouts above 2^26 of  *)
(* a very low clock of the ASICs are not modelled.                          *)
(***************************************************************************)
EXTENDS Integers, Sequences, FiniteSets

CONSTANTS
  PHY_NUM,
  RX_FIFO_DEPTH,
  Touts,         \* timeouts of the tasks, in clocks, as the timer of 26 bits sees them
  MaxTasks,      \* bound: tasks the firmware sends
  MaxReports,    \* bound: reports of the ASICs
  MaxFlushes     \* bound: flushes

PHYs == 0 .. PHY_NUM - 1
None == -1
RX_DATA_LEN == 5
TX_TASKID_LEN == 4
FlushClocks == 4

ASSUME PhyAssumption == PHY_NUM \in Nat \ {0}
ASSUME ToutAssumption == Touts \subseteq Nat \ {0} /\ IsFiniteSet(Touts)
ASSUME DepthAssumption == RX_FIFO_DEPTH \in Nat /\ RX_FIFO_DEPTH >= 2 * RX_DATA_LEN
ASSUME BoundAssumption == MaxTasks \in Nat /\ MaxReports \in Nat /\ MaxFlushes \in Nat

VARIABLES
  reg_mask, reg_flush,           \* alink_slave.v: enabled PHYs, clocks the flush still lasts
  tx_fifo, rx_fifo,
  cur_state, tx_phy_sel,         \* txc.v
  word, reg_tout,                \* tx_phy.v: 0 IDLE, 1..4 TASK, 5 the first clock of HASH, 6 after
  timer, timer_busy,             \* tx_timer.v
  push_cnt, task_id_r,           \* rx_phy.v
  rx_sel, rx_out,                \* rxc.v: the PHY that is granted; rx_vld and rx_dat
  own, told,                     \* history: the last task of a PHY; the same when its report began
  rd,                            \* alink_read_result(): words of the result it has read
  collided,                      \* history: since the last flush one report took another's grant
  tasks, reports, flushes        \* history: how many there were

slave == <<reg_mask, reg_flush>>
tx == <<cur_state, tx_phy_sel, word, reg_tout, timer, timer_busy>>
rx == <<push_cnt, task_id_r, rx_sel, rx_out>>
history == <<own, told, collided>>
counts == <<tasks, reports, flushes>>
vars == <<slave, tx_fifo, rx_fifo, tx, rx, rd, history, counts>>

Lowest(S) == IF S = {} THEN None ELSE CHOOSE p \in S : \A q \in S : p <= q

Task == [id : 0 .. MaxTasks, tout : Touts]

-----------------------------------------------------------------------------
(* What the registers show before the clock. *)

InReset == reg_flush > 0

task_id_vld == word = TX_TASKID_LEN + 1
TimerStart(p) == task_id_vld /\ tx_phy_sel = p
reg_busy(p) == TimerStart(p) \/ timer_busy[p]

Free == {p \in reg_mask : ~reg_busy(p)}

AlmostFull_One == Len(rx_fifo) + RX_DATA_LEN > RX_FIFO_DEPTH
AlmostFull == Len(rx_fifo) + 2 * RX_DATA_LEN > RX_FIFO_DEPTH

rxempty == Len(rx_fifo) < RX_DATA_LEN

(* A PHY whose ASICs end a report now. *)
Starts_Ungated(stop) == {p \in stop : push_cnt[p] = 0}
Starts(stop) == {p \in stop : reg_busy(p) /\ push_cnt[p] = 0}

LastWord == rx_sel # None /\ push_cnt[rx_sel] = RX_DATA_LEN

-----------------------------------------------------------------------------
(* The registers after it.  done: the transmitter has sent the last bit. *)

Txc(done) ==
  /\ cur_state' = IF InReset \/ done THEN "IDLE"
                  ELSE IF cur_state = "IDLE" /\ tx_phy_sel # None THEN "REQ"
                  ELSE IF cur_state = "REQ" /\ tx_fifo # <<>> THEN "SENT"
                  ELSE cur_state
  /\ tx_phy_sel' = IF InReset \/ done THEN None
                   ELSE IF cur_state = "IDLE" THEN Lowest(Free)
                   ELSE tx_phy_sel

TxPhy(done) ==
  /\ word' = IF InReset \/ done THEN 0
             ELSE IF word = 0
                  THEN IF cur_state = "REQ" /\ tx_fifo # <<>> THEN 1 ELSE 0
             ELSE IF word <= TX_TASKID_LEN + 1 THEN word + 1 ELSE word
  /\ reg_tout' = IF word = TX_TASKID_LEN THEN Head(tx_fifo).tout ELSE reg_tout

Counts_Short(p) == timer[p] > 0 /\ timer[p] + 1 < reg_tout
Counts_On(p) == timer[p] > 0
Counts(p) == timer[p] > 0 /\ timer[p] < reg_tout

Timers ==
  /\ timer' = [p \in PHYs |->
       IF InReset \/ timer[p] = reg_tout THEN 0
       ELSE IF TimerStart(p) THEN 1
       ELSE IF Counts(p) THEN timer[p] + 1 ELSE timer[p]]
  /\ timer_busy' = [p \in PHYs |->
       ~InReset /\ (TimerStart(p) \/ (timer_busy[p] /\ ~(timer[p] = reg_tout /\ reg_tout > 0)))]

RxPhys(stop) ==
  /\ push_cnt' = [p \in PHYs |->
       IF InReset THEN 0
       ELSE IF p \in Starts(stop) THEN 1
       ELSE IF push_cnt[p] \in 1 .. RX_DATA_LEN - 1 THEN push_cnt[p] + 1 ELSE 0]
  /\ task_id_r' = [p \in PHYs |->
       IF push_cnt[p] = 0 /\ TimerStart(p) THEN Head(tx_fifo).id ELSE task_id_r[p]]
  /\ own' = [p \in PHYs |-> IF TimerStart(p) THEN Head(tx_fifo).id ELSE own[p]]
  /\ told' = [p \in PHYs |-> IF p \in Starts(stop) THEN own'[p] ELSE told[p]]

(* The grant ends with the last word; another PHY that starts takes it over. *)
Released_Never == FALSE
Released == LastWord

Rxc(stop) ==
  /\ rx_sel' = IF InReset \/ Released THEN None
               ELSE IF ~AlmostFull /\ Starts(stop) # {} THEN Lowest(Starts(stop))
               ELSE rx_sel
  /\ rx_out' = IF InReset \/ rx_sel = None THEN <<>> ELSE <<[phy |-> rx_sel, k |-> push_cnt[rx_sel]]>>
  /\ collided' = (~InReset /\ (collided \/ (rx_sel # None /\ ~LastWord /\ rx_sel' # rx_sel)))

(* One clock, in which the firmware writes the task of new, or pops a word, or flushes, or
   sets the mask to m. *)
Clock(new, pop, flush, m) ==
  \E stop \in SUBSET PHYs, done \in BOOLEAN :
    /\ stop \subseteq Starts(stop) /\ reports + Cardinality(stop) <= MaxReports
    /\ done => word = TX_TASKID_LEN + 2
    /\ Txc(done) /\ TxPhy(done) /\ Timers /\ RxPhys(stop) /\ Rxc(stop)
    /\ tx_fifo' = IF InReset THEN <<>> ELSE (IF done THEN Tail(tx_fifo) ELSE tx_fifo) \o new
    /\ rx_fifo' = IF InReset THEN <<>>
                  ELSE (IF pop /\ rx_fifo # <<>> THEN Tail(rx_fifo) ELSE rx_fifo)
                         \o (IF Len(rx_fifo) < RX_FIFO_DEPTH THEN rx_out ELSE <<>>)
    /\ reg_flush' = IF flush THEN FlushClocks ELSE IF InReset THEN reg_flush - 1 ELSE 0
    /\ reg_mask' = m
    /\ reports' = reports + Cardinality(stop)

-----------------------------------------------------------------------------
(* The firmware.  While a flush lasts it waits in delay(). *)

Tick == Clock(<<>>, FALSE, FALSE, reg_mask) /\ UNCHANGED <<rd, tasks, flushes>>

(* alink_send_work() *)
Send(t) ==
  /\ tasks < MaxTasks /\ tasks' = tasks + 1
  /\ Clock(<<[id |-> tasks + 1, tout |-> t]>>, FALSE, FALSE, reg_mask)
  /\ UNCHANGED flushes

alink_send_work ==
  /\ ~InReset /\ rd = 0 /\ \E t \in Touts : Send(t)
  /\ UNCHANGED rd

(* One word of alink_read_result(), which begins when a whole report is there. *)
alink_read_result ==
  /\ ~InReset /\ (rd > 0 \/ ~rxempty)
  /\ Clock(<<>>, TRUE, FALSE, reg_mask) /\ rd' = (rd + 1) % RX_DATA_LEN
  /\ UNCHANGED <<tasks, flushes>>

alink_flush_fifo ==
  /\ ~InReset /\ rd = 0 /\ flushes < MaxFlushes /\ flushes' = flushes + 1
  /\ Clock(<<>>, FALSE, TRUE, reg_mask)
  /\ UNCHANGED <<rd, tasks>>

Init ==
  /\ reg_mask = PHYs /\ reg_flush = 0 /\ tx_fifo = <<>> /\ rx_fifo = <<>>
  /\ cur_state = "IDLE" /\ tx_phy_sel = None /\ word = 0 /\ reg_tout = 0
  /\ timer = [p \in PHYs |-> 0] /\ timer_busy = [p \in PHYs |-> FALSE]
  /\ push_cnt = [p \in PHYs |-> 0] /\ task_id_r = [p \in PHYs |-> 0]
  /\ rx_sel = None /\ rx_out = <<>> /\ rd = 0
  /\ own = [p \in PHYs |-> 0] /\ told = [p \in PHYs |-> 0] /\ collided = FALSE
  /\ tasks = 0 /\ reports = 0 /\ flushes = 0

Next == Tick \/ alink_send_work \/ alink_read_result \/ alink_flush_fifo

(* The clock does not stop. *)
FairSpec == Init /\ [][Next]_vars /\ WF_vars(Tick)

-----------------------------------------------------------------------------
Words == [phy : PHYs, k : 1 .. RX_DATA_LEN]

TypeOK ==
  /\ reg_mask \subseteq PHYs /\ reg_flush \in 0 .. FlushClocks
  /\ tx_fifo \in Seq(Task) /\ rx_fifo \in Seq(Words) /\ Len(rx_fifo) <= RX_FIFO_DEPTH
  /\ cur_state \in {"IDLE", "REQ", "SENT"} /\ tx_phy_sel \in PHYs \cup {None}
  /\ word \in 0 .. TX_TASKID_LEN + 2 /\ reg_tout \in Touts \cup {0}
  /\ timer \in [PHYs -> Nat] /\ \A p \in PHYs : \E t \in Touts \cup {0} : timer[p] <= t
  /\ timer_busy \in [PHYs -> BOOLEAN]
  /\ push_cnt \in [PHYs -> 0 .. RX_DATA_LEN] /\ task_id_r \in [PHYs -> 0 .. MaxTasks]
  /\ rx_sel \in PHYs \cup {None} /\ rx_out \in Seq(Words) /\ Len(rx_out) <= 1
  /\ own \in [PHYs -> 0 .. MaxTasks] /\ told \in [PHYs -> 0 .. MaxTasks]
  /\ rd \in 0 .. RX_DATA_LEN - 1 /\ collided \in BOOLEAN
  /\ tasks \in 0 .. MaxTasks /\ reports \in 0 .. MaxReports /\ flushes \in 0 .. MaxFlushes

(* A report carries the id of the task its PHY was given last when it began: rx_phy.v
   takes no id while it pushes a report, and a PHY that has become free gets its next task
   only after the report it may still push has ended. *)
OwnTask == \A p \in PHYs : push_cnt[p] \in 1 .. 3 => task_id_r[p] = told[p]

(* The block does what TaskDispatch promises.  A task leaves the queue when its id is out
   and the timer of its PHY starts, not when its last bit is sent; the task of a report is
   the id rx_phy.v holds while it pushes the words with it. *)
Given == word > TX_TASKID_LEN

Ids(ts) == [n \in DOMAIN ts |-> ts[n].id]

TaskOf(p) == IF TimerStart(p) THEN Head(tx_fifo).id ELSE IF timer_busy[p] THEN own[p] ELSE None

ReportOf(p) == IF push_cnt[p] \in 1 .. 3 THEN task_id_r[p] ELSE None

Dispatch == INSTANCE TaskDispatch WITH Tasks <- 0 .. MaxTasks,
              queue <- Ids(IF Given THEN Tail(tx_fifo) ELSE tx_fifo),
              task <- [p \in PHYs |-> TaskOf(p)], report <- [p \in PHYs |-> ReportOf(p)]

Dispatches == Dispatch!Spec

(* Reports lie whole in the RX FIFO, one after the other, where alink_read_result() looks
   for them, and none is cut off by a full FIFO; unless since the last flush a report began
   while another was being pushed. *)
Aligned ==
  ~collided =>
    /\ rx_out # <<>> => Len(rx_fifo) < RX_FIFO_DEPTH
    /\ LET ws == rx_fifo \o rx_out IN
       \A n \in DOMAIN ws :
         /\ ws[n].k = ((n + rd - 1) % RX_DATA_LEN) + 1
         /\ n > 1 /\ ws[n].k > 1 => ws[n].phy = ws[n - 1].phy

(* A PHY becomes free again and again, unless a task with a shorter timeout has overtaken
   its timer: all timers compare with the timeout of the task sent last. *)
FreedOrOvertaken ==
  \A p \in PHYs : []<>~timer_busy[p] \/ <>[](timer[p] > reg_tout)
===============================================================================
