----------------------------- MODULE MinerManager -----------------------------
(***************************************************************************)
(* The main loop of the firmware (firmware/main.c): one module of the       *)
(* daisy chain takes packages from the host, turns the stratum job they     *)
(* carry into works for the ASICs, and reports the nonces that come back.   *)
(*                                                                         *)
(* The loop is a single thread, so a package handler runs to its end; what  *)
(* runs beside it is the hardware: the alink controller takes works and     *)
(* delivers results, the idle timer counts down, the temperatures move.     *)
(* Packages enter at the three calls of get_pkg() only, and the second and  *)
(* the third sit between a decision of the loop and its use.                *)
(*                                                                         *)
(* The data of a job is abstracted to "which job this part came from": a    *)
(* part is one package of the upload, P_STATIC first.  Fan, frequency, LED  *)
(* and the clock-configuration counter are left out: nothing branches on    *)
(* them.                                                                    *)
(***************************************************************************)
EXTENDS Integers, Sequences, FiniteSets

CONSTANTS
  Jobs,            \* stratum jobs the host uploads
  NoJob,           \* what a part holds before any job wrote it
  Coinbase,        \* number of P_COINBASE packages of a job
  Merkles,         \* number of P_MERKLES packages of a job
  Headers,         \* number of P_HEADER packages of a job
  Miners,          \* the PHYs of the alink controller
  NoTask,          \* a PHY without a task
  RetSize,         \* RET_RINGBUFFER_SIZE_RX
  WorkWords,       \* words of a work in the TX FIFO
  TxThreshold,     \* the loop adds a work while fewer words are queued
  RxResults,       \* results the RX FIFO holds
  IDLE_TIME,       \* seconds without a package before the module idles
  Modules,         \* AVA2_DEFAULT_MODULES
  ModuleId,        \* g_module_id
  Word,            \* the number of values of a uint32_t
  Nonce2Offset,    \* nonce2 start carried by P_SET
  Nonce2Range,     \* nonce2 range carried by P_SET
  Faults,          \* what may go wrong outside: {"heat", "death", "test"}
  MaxLost,         \* bound: packages damaged on the line
  MaxSessions,     \* bound: accepted P_SET packages
  MaxLocalWork     \* bound: results between two clearings of g_local_work

ASSUME JobAssumption == NoJob \notin Jobs
ASSUME PartAssumption == Coinbase \in Nat \ {0} /\ Merkles \in Nat /\ Headers \in Nat \ {0}
ASSUME RingAssumption == RetSize \in Nat \ {0, 1}
ASSUME FifoAssumption == WorkWords \in Nat \ {0} /\ TxThreshold \in Nat /\ RxResults \in Nat
ASSUME TimeAssumption == IDLE_TIME \in Nat \ {0}
ASSUME NonceAssumption ==
  /\ Modules \in Nat \ {0} /\ ModuleId \in 0 .. Modules - 1
  /\ Word \in Nat \ {0} /\ Nonce2Offset \in 0 .. Word - 1 /\ Nonce2Range \in 0 .. Word - 1
ASSUME BoundAssumption == MaxLost \in Nat /\ MaxSessions \in Nat /\ MaxLocalWork \in Nat

VARIABLES
  pc,             \* where the main loop is
  g_new_stratum,  \* TRUE while works are generated
  g_local_work, g_hw_work,
  voltage,        \* FALSE while the ASICs are at ASIC_0V
  timer,          \* timer 0, in seconds
  temp0, temp1,   \* TRUE while a sensor is at IDLE_TEMP or above
  mw,             \* mm_work: the job each part was last written by
  nonce2,         \* mm_work.nonce2
  work,           \* the local variable of main()
  txq, busy, rxq, \* alink: TX FIFO, the task of each busy PHY, RX FIFO
  ret_buf, ret_produce, ret_consume,
  hostAlive,      \* FALSE once the host sends nothing more
  upJob, upPos,   \* the upload in progress: its job, the packages sent of it
  lost,           \* history: packages damaged on the line
  damaged,        \* history: one of them belonged to the upload mw comes from
  session,        \* history: accepted P_SET packages
  issued          \* history: nonce2 of the works generated and sent since P_SET

counters == <<g_local_work, g_hw_work>>
alink    == <<txq, busy, rxq>>
ring     == <<ret_buf, ret_produce, ret_consume>>
sensors  == <<temp0, temp1>>
upload   == <<upJob, upPos, lost, damaged>>
history  == <<session, issued>>
vars == <<pc, g_new_stratum, counters, voltage, timer, sensors, mw, nonce2, work,
          alink, ring, hostAlive, upload, history>>

-----------------------------------------------------------------------------
(* The upload of a job, one package per part, in the order protocol.md gives. *)

StaticPart    == 1
TargetPart    == 2
JobIdPart     == 3
CoinbaseParts == 4 .. 3 + Coinbase
NParts        == 3 + Coinbase + Merkles + Headers
Parts         == 1 .. NParts
HashParts     == Parts \ {TargetPart, JobIdPart}

(* What a work is hashed from. *)
Content(m) == [p \in HashParts |-> m[p]]

(* The job all of c comes from, NoJob if it is a mixture. *)
JobOf(c) ==
  IF \E j \in Jobs : \A p \in HashParts : c[p] = j THEN c[StaticPart] ELSE NoJob

Job      == Jobs \union {NoJob}
Contents == [HashParts -> Job]
Task     == [content : Contents, pool : Job, nonce2 : 0 .. Word - 1,
             session : Nat, clean : BOOLEAN]
Share    == [job : Job, pool : Job, work : Job, clean : BOOLEAN]

ASSUME TaskAssumption == NoTask \notin Task

PkgSites == {"top", "window", "inner"}   \* main.c:402, :423 and :433

-----------------------------------------------------------------------------
(* nonce2 *)

(* The first nonce2 of a module's partition. *)
Nonce2Start_Shared(id) == Nonce2Offset
Nonce2Start(id) == (Nonce2Offset + (Nonce2Range \div Modules) * id) % Word

NextNonce2_Stuck(n) == n
NextNonce2(n) == (n + 1) % Word

-----------------------------------------------------------------------------
(* Pieces of the handlers. *)

NoReports == [m \in Miners |-> NoTask]

(* A flush empties both FIFOs and resets the timers of the PHYs; a PHY whose
   timer does not run drops what its ASICs still report. *)
Flush_KeepsTx == txq' = txq /\ busy' = NoReports /\ rxq' = <<>>
Flush == txq' = <<>> /\ busy' = NoReports /\ rxq' = <<>>

StopMining_Forgotten == UNCHANGED g_new_stratum
StopMining == g_new_stratum' = FALSE

ClearCounters == g_local_work' = 0 /\ g_hw_work' = 0

Advance_SkipsSlot(i) == (i + 2) % RetSize
Advance_Unmasked(i) == i + 1
Advance(i) == (i + 1) % RetSize

(* Where the loop goes on after a get_pkg() that found it mining or not. *)
StillMining_Unchecked(next) == next
StillMining(next) == IF g_new_stratum THEN next ELSE "top"

AfterPkg ==
  IF pc = "top" THEN "check" ELSE StillMining(IF pc = "window" THEN "send" ELSE "read")

-----------------------------------------------------------------------------
(* decode_pkg(): one action per package.  Each is taken inside get_pkg(), which
   stays in its loop after it, and each restarts the idle timer. *)

Receive ==
  /\ hostAlive /\ pc \in PkgSites
  /\ UNCHANGED <<pc, sensors, work, hostAlive>>

Detect ==
  /\ Receive /\ timer' = IDLE_TIME
  /\ StopMining /\ ClearCounters /\ Flush
  /\ UNCHANGED <<voltage, mw, nonce2, ring, upload, history>>

(* The first package of an upload: mining stops until P_SET. *)
Static(j) ==
  /\ Receive /\ timer' = IDLE_TIME
  /\ StopMining /\ Flush
  /\ mw' = [mw EXCEPT ![StaticPart] = j]
  /\ upJob' = j /\ upPos' = 1 /\ damaged' = FALSE
  /\ UNCHANGED <<lost, counters, voltage, nonce2, ring, history>>

(* P_TARGET, P_JOB_ID, P_COINBASE, P_MERKLES and P_HEADER, in that order; the
   first P_COINBASE clears the whole buffer. *)
Part ==
  LET p == upPos + 1 IN
  /\ Receive /\ timer' = IDLE_TIME
  /\ upPos \in 1 .. NParts - 1
  /\ upPos' = p
  /\ mw' = [i \in Parts |-> IF i = p THEN upJob
                            ELSE IF p = 4 /\ i \in CoinbaseParts THEN NoJob
                            ELSE mw[i]]
  /\ UNCHANGED <<g_new_stratum, counters, voltage, nonce2, alink, ring, upJob, lost, damaged, history>>

(* P_SET closes the upload.  It is ignored while either sensor is hot. *)
SetRefused ==
  /\ Receive /\ timer' = IDLE_TIME
  /\ upPos = NParts /\ upPos' = 0
  /\ temp0 \/ temp1
  /\ UNCHANGED <<g_new_stratum, counters, voltage, mw, nonce2, alink, ring, upJob, lost, damaged, history>>

Set ==
  /\ Receive /\ timer' = IDLE_TIME
  /\ upPos = NParts /\ upPos' = 0
  /\ ~temp0 /\ ~temp1
  /\ session < MaxSessions
  /\ g_new_stratum' = TRUE /\ voltage' \in BOOLEAN /\ Flush
  /\ nonce2' = Nonce2Start(ModuleId)
  /\ session' = session + 1 /\ issued' = {}
  /\ UNCHANGED <<counters, mw, ring, upJob, lost, damaged>>

(* P_POLLING of this module: the oldest share, or the status and a fresh count.
   With settings in it, it also sets the voltage, to ASIC_0V if the host says so. *)
Polling(volt) ==
  /\ Receive /\ timer' = IDLE_TIME
  /\ voltage' = volt
  /\ \/ /\ ret_consume = ret_produce /\ ClearCounters
        /\ UNCHANGED ret_consume
     \/ /\ ret_consume # ret_produce /\ ret_consume' = Advance(ret_consume)
        /\ UNCHANGED counters
  /\ UNCHANGED <<g_new_stratum, mw, nonce2, alink, ret_buf, ret_produce, upload, history>>

(* P_REQUIRE, an unknown type, or P_POLLING and P_TEST of another module. *)
OtherPkg ==
  /\ Receive /\ timer' = IDLE_TIME
  /\ UNCHANGED <<g_new_stratum, counters, voltage, mw, nonce2, alink, ring, upload, history>>

(* P_TEST runs the core test of all ASICs, tens of seconds long, through the same
   FIFOs: the idle timer runs out, results are read or left over, those of the test among
   them, and the ASICs end without power.  The works the PHYs take and end meanwhile are
   Dispatch and TaskTimeout just before; a PHY whose timer is past the timeout of the
   test keeps its work, and the works behind it stay queued. *)
TestResult ==
  [content |-> [p \in HashParts |-> NoJob], pool |-> NoJob, nonce2 |-> 0,
   session |-> 0, clean |-> TRUE]

Results ==
  {TestResult} \union {rxq[i] : i \in DOMAIN rxq} \union ({busy[m] : m \in Miners} \ {NoTask})

Test ==
  /\ "test" \in Faults
  /\ Receive /\ timer' = 0
  /\ voltage' = FALSE
  /\ \E n \in 0 .. RxResults : rxq' \in [1 .. n -> Results]
  /\ g_local_work + Len(rxq') <= MaxLocalWork
  /\ UNCHANGED <<g_new_stratum, counters, mw, nonce2, txq, busy, ring, upload, history>>

(* A package that is damaged has no effect: get_pkg() returns when the CRC is wrong, and
   never sees the package if its header or its end is lost. *)
BadCrc ==
  /\ lost < MaxLost /\ lost' = lost + 1
  /\ hostAlive /\ pc \in PkgSites /\ pc' \in {pc, AfterPkg}
  /\ \/ \E j \in Jobs : upJob' = j /\ upPos' = 1 /\ damaged' = TRUE
     \/ upPos \in 1 .. NParts - 1 /\ upPos' = upPos + 1 /\ damaged' = TRUE /\ UNCHANGED upJob
     \/ upPos = NParts /\ upPos' = 0 /\ UNCHANGED <<upJob, damaged>>
  /\ UNCHANGED <<g_new_stratum, counters, voltage, timer, sensors, mw, nonce2, work,
                 alink, ring, hostAlive, history>>

DecodePkg ==
  \/ Detect \/ Part \/ SetRefused \/ Set \/ OtherPkg \/ Test
  \/ \E j \in Jobs : Static(j)
  \/ \E volt \in BOOLEAN : Polling(volt)

-----------------------------------------------------------------------------
(* The steps of main() between the calls of get_pkg(). *)

(* get_pkg() returns: the receive ring is empty. *)
NoMorePkg ==
  /\ pc \in PkgSites /\ pc' = AfterPkg
  /\ UNCHANGED <<g_new_stratum, counters, voltage, timer, sensors, mw, nonce2, work,
                 alink, ring, hostAlive, upload, history>>

Idle_NoTimer == temp0 /\ temp1
Idle_NoHeat == timer = 0 /\ g_new_stratum
Idle == (timer = 0 /\ g_new_stratum) \/ (temp0 /\ temp1)

(* Silence of the host while mining, or heat: stop, idle the ASICs, power off.  The
   gated task that idles each PHY finds nothing and dies with the next flush. *)
PowerOff ==
  /\ pc = "check" /\ Idle
  /\ StopMining /\ ClearCounters /\ Flush /\ voltage' = FALSE
  /\ pc' = "top"
  /\ UNCHANGED <<timer, sensors, mw, nonce2, work, ring, hostAlive, upload, history>>

CarryOn ==
  /\ pc = "check" /\ ~Idle
  /\ pc' = StillMining("gen")
  /\ UNCHANGED <<g_new_stratum, counters, voltage, timer, sensors, mw, nonce2, work,
                 alink, ring, hostAlive, upload, history>>

NoWork ==
  [content |-> [p \in HashParts |-> NoJob], pool |-> NoJob, nonce2 |-> 0,
   session |-> 0, clean |-> TRUE]

(* miner_gen_nonce2_work(): the work is built from the job as it is now... *)
GenWork ==
  /\ pc = "gen" /\ Len(txq) * WorkWords < TxThreshold
  /\ work' = [content |-> Content(mw), pool |-> mw[StaticPart], nonce2 |-> nonce2,
              session |-> session, clean |-> ~damaged]
  /\ pc' = "window"
  /\ UNCHANGED <<g_new_stratum, counters, voltage, timer, sensors, mw, nonce2,
                 alink, ring, hostAlive, upload, history>>

TxFull ==
  /\ pc = "gen" /\ Len(txq) * WorkWords >= TxThreshold
  /\ pc' = "read"
  /\ UNCHANGED <<g_new_stratum, counters, voltage, timer, sensors, mw, nonce2, work,
                 alink, ring, hostAlive, upload, history>>

(* miner_init_work(): the pool number of the task is read only now... *)
InitWork(w) == [w EXCEPT !.pool = mw[StaticPart]]

(* ... when the work is handed to alink, packages having been taken in between. *)
SendWork ==
  /\ pc = "send"
  /\ nonce2' = NextNonce2(nonce2)
  /\ txq' = Append(txq, InitWork(work))
  /\ issued' = IF work.session = session THEN issued \union {work.nonce2} ELSE issued
  /\ pc' = "read" /\ work' = NoWork   \* not read again before the next GenWork
  /\ UNCHANGED <<g_new_stratum, counters, voltage, timer, sensors, mw, busy, rxq,
                 ring, hostAlive, upload, session>>

NoResult ==
  /\ pc = "read" /\ rxq = <<>>
  /\ pc' = "top"
  /\ UNCHANGED <<g_new_stratum, counters, voltage, timer, sensors, mw, nonce2, work,
                 alink, ring, hostAlive, upload, history>>

(* test_nonce() rebuilds the work from the job as it is NOW and the nonce2 of the
   result: it can only succeed on a result of that very job. *)
Verified_Trusting(task) == TRUE
Verified(task) == task.content = Content(mw)

ReadResult(verdict) ==
  LET task == Head(rxq) IN
  /\ pc = "read" /\ rxq # <<>>
  /\ rxq' = Tail(rxq)
  /\ g_local_work' = g_local_work + 1
  /\ verdict # "HW" => Verified(task)
  /\ g_hw_work' = IF verdict = "HW" THEN g_hw_work + 1 ELSE g_hw_work
  /\ IF verdict = "DIFF"
       THEN /\ ret_buf' = [ret_buf EXCEPT ![ret_produce] =
                 [job |-> mw[JobIdPart], pool |-> task.pool, work |-> JobOf(task.content),
                  clean |-> ~damaged]]
            /\ ret_produce' = Advance(ret_produce)
       ELSE UNCHANGED <<ret_buf, ret_produce>>
  /\ pc' = "inner"
  /\ UNCHANGED <<g_new_stratum, voltage, timer, sensors, mw, nonce2, work, txq, busy,
                 ret_consume, hostAlive, upload, history>>

MainStep ==
  \/ NoMorePkg \/ PowerOff \/ CarryOn \/ GenWork \/ TxFull \/ SendWork \/ NoResult
  \/ \E verdict \in {"HW", "VALID", "DIFF"} : ReadResult(verdict)

-----------------------------------------------------------------------------
(* The hardware and the world, beside the loop. *)

Hardware ==
  UNCHANGED <<pc, g_new_stratum, counters, voltage, mw, nonce2, work, ring, upload, history>>

Dispatch(m) ==
  /\ txq # <<>> /\ busy[m] = NoTask
  /\ busy' = [busy EXCEPT ![m] = Head(txq)] /\ txq' = Tail(txq)
  /\ Hardware /\ UNCHANGED <<timer, sensors, rxq, hostAlive>>

(* A nonce; a report that finds the RX FIFO full is dropped. *)
Report(m) ==
  /\ busy[m] # NoTask /\ Len(rxq) < RxResults
  /\ g_local_work + Len(rxq) < MaxLocalWork
  /\ rxq' = Append(rxq, busy[m])
  /\ Hardware /\ UNCHANGED <<timer, sensors, txq, busy, hostAlive>>

(* The timer of the PHY ends the task. *)
TaskTimeout(m) ==
  /\ busy[m] # NoTask
  /\ busy' = [busy EXCEPT ![m] = NoTask]
  /\ Hardware /\ UNCHANGED <<timer, sensors, txq, rxq, hostAlive>>

Second ==
  /\ timer > 0 /\ timer' = timer - 1
  /\ Hardware /\ UNCHANGED <<sensors, alink, hostAlive>>

Weather ==
  /\ "heat" \in Faults
  /\ \/ temp0' = ~temp0 /\ UNCHANGED temp1
     \/ temp1' = ~temp1 /\ UNCHANGED temp0
  /\ Hardware /\ UNCHANGED <<timer, alink, hostAlive>>

HostDies ==
  /\ "death" \in Faults /\ hostAlive
  /\ hostAlive' = FALSE
  /\ Hardware /\ UNCHANGED <<timer, sensors, alink>>

-----------------------------------------------------------------------------
(* The state main() enters its loop in, its self test done. *)
Init ==
  /\ pc = "top" /\ g_new_stratum = FALSE /\ g_local_work = 0 /\ g_hw_work = 0
  /\ voltage = FALSE /\ timer = IDLE_TIME
  /\ temp0 = FALSE /\ temp1 = FALSE
  /\ mw = [p \in Parts |-> NoJob] /\ nonce2 = 0 /\ work = NoWork
  /\ txq = <<>> /\ busy = NoReports /\ rxq = <<>>
  /\ ret_buf = [i \in 0 .. RetSize - 1 |->
                 [job |-> NoJob, pool |-> NoJob, work |-> NoJob, clean |-> TRUE]]
  /\ ret_produce = 0 /\ ret_consume = 0
  /\ hostAlive = TRUE /\ upJob = NoJob /\ upPos = 0 /\ lost = 0 /\ damaged = FALSE
  /\ session = 0 /\ issued = {}

Next ==
  \/ DecodePkg \/ BadCrc \/ MainStep
  \/ \E m \in Miners : Dispatch(m) \/ Report(m) \/ TaskTimeout(m)
  \/ Second \/ Weather \/ HostDies

Spec == Init /\ [][Next]_vars

(* The processor runs, the receive ring drains faster than the line fills it, the
   clock ticks, and a task ends: its ASICs search a bounded range of nonces.  The
   host, the weather and the nonces are owed nothing. *)
Fairness ==
  /\ WF_vars(MainStep) /\ WF_vars(Second)
  /\ \A m \in Miners : WF_vars(TaskTimeout(m))

FairSpec == Spec /\ Fairness

-----------------------------------------------------------------------------
(* Properties. *)

TypeOK ==
  /\ pc \in {"top", "check", "gen", "window", "send", "read", "inner"}
  /\ g_new_stratum \in BOOLEAN /\ g_local_work \in Nat /\ g_hw_work \in Nat
  /\ voltage \in BOOLEAN /\ timer \in 0 .. IDLE_TIME
  /\ temp0 \in BOOLEAN /\ temp1 \in BOOLEAN
  /\ mw \in [Parts -> Job] /\ nonce2 \in 0 .. Word - 1 /\ work \in Task
  /\ txq \in Seq(Task) /\ busy \in [Miners -> Task \union {NoTask}] /\ rxq \in Seq(Task)
  /\ ret_buf \in [0 .. RetSize - 1 -> Share]
  /\ ret_produce \in 0 .. RetSize - 1 /\ ret_consume \in 0 .. RetSize - 1
  /\ hostAlive \in BOOLEAN /\ upJob \in Job /\ upPos \in 0 .. NParts /\ lost \in Nat /\ damaged \in BOOLEAN
  /\ session \in Nat /\ issued \in SUBSET (0 .. Word - 1)

(* protocol.md: P_STATIC stops the generation of works until P_SET.  Whatever
   stopped the module (P_STATIC, P_DETECT, silence, heat), no work of it is left
   in the FIFO or in a PHY, and the loop is not about to send one. *)
StoppedMeansDrained ==
  ~g_new_stratum =>
    /\ txq = <<>> /\ busy = NoReports
    /\ pc \notin {"gen", "send", "read"}

(* A P_SET taken between the generation of a work and its sending lets that one
   work, built before P_SET, into the flushed FIFO; never a second one, and never
   behind a work of the new session.  A work that P_SET overtook finds alink empty:
   nothing of its session is left. *)
Stale(t) == t # NoTask /\ t.session # session

StaleAtMostOne ==
  /\ \A i \in 2 .. Len(txq) : ~Stale(txq[i])
  /\ \A m \in Miners : Stale(busy[m]) =>
       /\ \A n \in Miners \ {m} : ~Stale(busy[n])
       /\ txq # <<>> => ~Stale(txq[1])

OvertakenAlone ==
  pc \in {"window", "send"} /\ work.session # session => txq = <<>> /\ busy = NoReports

StaleBound == StaleAtMostOne /\ OvertakenAlone

(* A work is never built from a half-written job: unless a package of the upload
   was lost, all the parts hashed into it come from the same job. *)
WholeJob == \A i \in DOMAIN txq : txq[i].clean => JobOf(txq[i].content) # NoJob

(* A share carries the job id and the pool number of the job it was found for,
   although both are read long after its work was built, unless a package of the
   upload was lost. *)
ShareMatchesJob ==
  \A i \in DOMAIN ret_buf :
    ret_buf[i].clean => ret_buf[i].job = ret_buf[i].work /\ ret_buf[i].pool = ret_buf[i].work

(* What the two properties above rest on.  An undamaged upload keeps the module
   stopped until it is complete, the parts received so far are its parts, and so the
   job being mined is one job; a work in hand is built from it, and every task that
   may still be reported carries its pool number, because P_STATIC flushed the rest. *)
UploadStops == upPos # 0 => upJob \in Jobs /\ (g_new_stratum => damaged)

PartsOfUpload == \A p \in 1 .. upPos : mw[p] = upJob \/ damaged

MinedJob ==
  g_new_stratum /\ ~damaged =>
    mw[StaticPart] \in Jobs /\ \A p \in Parts : mw[p] = mw[StaticPart]

WorkInHand == pc \in {"window", "send"} /\ work.clean => JobOf(work.content) # NoJob

PoolOf(t) == t.pool = mw[StaticPart] \/ t.content[StaticPart] = NoJob

PoolKnown ==
  /\ \A i \in DOMAIN txq : PoolOf(txq[i])
  /\ \A m \in Miners : busy[m] # NoTask => PoolOf(busy[m])
  /\ \A i \in DOMAIN rxq : PoolOf(rxq[i])

OneJob == UploadStops /\ PartsOfUpload /\ MinedJob /\ WorkInHand /\ PoolKnown

(* No nonce2 is searched twice in a session, until all values were. *)
Nonce2Fresh ==
  pc = "send" /\ work.session = session /\ Cardinality(issued) < Word => work.nonce2 \notin issued

(* protocol.md: a module selects its own partition of the extranonce.  It stays in
   it while it sends fewer works than the partition has values: a work that slipped
   past P_SET (StaleBound) consumes one of them unused. *)
Partition(id) ==
  {n \in 0 .. Word - 1 :
     \E k \in 0 .. (Nonce2Range \div Modules) - 1 :
        n = (Nonce2Offset + id * (Nonce2Range \div Modules) + k) % Word}

OwnPartition ==
  Cardinality(issued) < Nonce2Range \div Modules => issued \subseteq Partition(ModuleId)

(* The result ring is a queue that is read in order, each share once, and that
   loses what it holds exactly when RetSize shares wait in it. *)
Ring == INSTANCE RingWindow WITH Size <- RetSize, Items <- Share

Waiting == Ring!Window(ret_buf, ret_produce, ret_consume)

ResultRing == INSTANCE LossyRing WITH Size <- RetSize, Items <- Share, q <- Waiting

RingIsQueue == ResultRing!Spec

(* What the host sees of all this is a service that mines one job at a time: mining a
   job follows a stop, a share is for the job mined when it was found, and a share that
   waits keeps its job whatever is uploaded before the host fetches it.  A share whose
   job id, pool number and work disagree is for no job. *)
Mined == IF ~g_new_stratum THEN {} ELSE IF damaged THEN Jobs ELSE {mw[JobIdPart]}

SharedBy(s) ==
  IF ~s.clean THEN Jobs ELSE IF s.job = s.work /\ s.pool = s.work THEN {s.work} ELSE {}

Service == INSTANCE MiningService WITH Size <- RetSize, mined <- Mined,
             shares <- [i \in DOMAIN Waiting |-> SharedBy(Waiting[i])]

MinesForHost == Service!Spec

(* A host that falls silent while the module mines leaves it stopped, its ASICs
   without power. *)
SilenceStops == (~hostAlive /\ g_new_stratum) ~> (~g_new_stratum /\ ~voltage)

(* Two hot sensors take the power off the ASICs, whatever the host asks for. *)
HeatPowersOff == (temp0 /\ temp1) ~> (~voltage \/ ~(temp0 /\ temp1))
===============================================================================
