-------------------------- MODULE MinerManagerProofs --------------------------
(***************************************************************************)
(* Theorems of MinerManager, for every ring size, number of PHYs, partition *)
(* and length of an upload.  Each invariant rests on the ones before it:    *)
(* TypeOK, then the drained FIFOs, the sessions, the upload, the works, the *)
(* pool numbers and the shares; the result ring comes after them, and       *)
(* nonce2 last.                                                             *)
(***************************************************************************)
EXTENDS MinerManager, FiniteSetTheorems, TLAPS

(* The next index of the result ring is one of its slots. *)
LEMMA AdvanceInRing ==
  ASSUME NEW i \in 0 .. RetSize - 1
  PROVE  Advance(i) \in 0 .. RetSize - 1
BY RingAssumption DEF Advance

(* nonce2 starts and stays a uint32_t, whichever module of the chain this is. *)
LEMMA Nonce2Type ==
  /\ 0 \in 0 .. Word - 1
  /\ \A n \in 0 .. Word - 1 : NextNonce2(n) \in 0 .. Word - 1
  /\ \A id \in 0 .. Modules - 1 : Nonce2Start(id) \in 0 .. Word - 1
<1>1. 0 \in 0 .. Word - 1 /\ \A n \in 0 .. Word - 1 : NextNonce2(n) \in 0 .. Word - 1
  BY NonceAssumption DEF NextNonce2
<1>2. ASSUME NEW id \in 0 .. Modules - 1
      PROVE  Nonce2Start(id) \in 0 .. Word - 1
  <2>1. Nonce2Range \div Modules \in Int
    BY NonceAssumption
  <2>2. (Nonce2Range \div Modules) * id \in Int
    BY <2>1, NonceAssumption
  <2> QED
    BY <2>2, NonceAssumption DEF Nonce2Start
<1> QED
  BY <1>1, <1>2

(* An upload has at least five parts, and works are hashed from some of them. *)
LEMMA PartsType ==
  /\ NParts \in Nat /\ NParts >= 5
  /\ HashParts \subseteq Parts
  /\ StaticPart \in HashParts /\ JobIdPart \in Parts
BY PartAssumption DEF NParts, Parts, HashParts, StaticPart, TargetPart, JobIdPart

(* A work built from any job buffer, the local variable before it holds one, and
   the leftover of a core test are tasks. *)
LEMMA TaskType ==
  /\ NoWork \in Task /\ TestResult \in Task
  /\ \A m \in [Parts -> Job] : Content(m) \in Contents
<1>1. NoWork \in Task
  BY Nonce2Type DEF NoWork, Task, Contents, Job
<1>2. TestResult \in Task
  BY Nonce2Type DEF TestResult, Task, Contents, Job
<1>3. ASSUME NEW m \in [Parts -> Job]
      PROVE  Content(m) \in Contents
  BY <1>3, PartsType DEF Content, Contents
<1> QED
  BY <1>1, <1>2, <1>3

(* Filling in the pool number, miner_init_work(), makes a task of a task. *)
LEMMA PoolType ==
  ASSUME NEW t \in Task, NEW j \in Job
  PROVE  [t EXCEPT !.pool = j] \in Task
BY DEF Task

(* What a handler resets the timer and alink to has the right type. *)
LEMMA ResetType ==
  /\ IDLE_TIME \in 0 .. IDLE_TIME /\ 0 \in 0 .. IDLE_TIME
  /\ NoReports \in [Miners -> Task \union {NoTask}]
  /\ <<>> \in Seq(Task)
BY TimeAssumption DEF NoReports

(* No package handler moves the loop or touches the work in hand. *)
LEMMA ReceiveFrame ==
  Receive => pc \in PkgSites /\ UNCHANGED <<pc, temp0, temp1, work, hostAlive>>
BY Zenon DEF Receive, sensors

(* What may lie in the receive FIFO after the core test are tasks. *)
LEMMA ResultsAreTasks ==
  ASSUME TypeOK
  PROVE  Results \subseteq Task
<1>1. TestResult \in Task
  BY TaskType
<1>2. \A i \in DOMAIN rxq : rxq[i] \in Task
  BY DEF TypeOK
<1>3. \A m \in Miners : busy[m] # NoTask => busy[m] \in Task
  BY DEF TypeOK
<1> QED
  BY <1>1, <1>2, <1>3, Zenon DEF Results

(* The core test leaves a row of such results. *)
LEMMA TestReads ==
  ASSUME TypeOK, Test
  PROVE  rxq' \in Seq(Task) /\ \A i \in DOMAIN rxq' : rxq'[i] \in Results
<1>1. PICK n \in 0 .. RxResults : rxq' \in [1 .. n -> Results]
  BY Zenon DEF Test
<1>2. n \in Nat
  BY <1>1
<1>3. \A i \in 1 .. n : rxq'[i] \in Results
  BY <1>1
<1>4. DOMAIN rxq' = 1 .. n
  BY <1>1
<1>5. \A S, T, f, k : S \subseteq T /\ k \in Nat /\ f \in [1 .. k -> S] => f \in Seq(T)
  OBVIOUS
<1>6. rxq' \in Seq(Task)
  BY <1>1, <1>2, <1>5, ResultsAreTasks, Zenon
<1> QED
  BY <1>3, <1>4, <1>6, Zenon

-----------------------------------------------------------------------------
(* Every variable keeps its type: the indices of the result ring stay inside it,
   nonce2 stays a uint32_t, and what is queued in alink are works. *)
THEOREM TypeCorrect == Spec => []TypeOK
<1>1. Init => TypeOK
  <2> SUFFICES ASSUME Init PROVE TypeOK
    OBVIOUS
  <2>1. ret_buf \in [0 .. RetSize - 1 -> Share]
    BY DEF Init, Share, Job
  <2>2. mw \in [Parts -> Job] /\ upJob \in Job /\ work \in Task
    BY TaskType DEF Init, Job
  <2>3. /\ pc = "top" /\ g_new_stratum \in BOOLEAN /\ voltage \in BOOLEAN /\ timer = IDLE_TIME
        /\ temp0 \in BOOLEAN /\ temp1 \in BOOLEAN /\ hostAlive \in BOOLEAN /\ damaged \in BOOLEAN
        /\ txq = <<>> /\ busy = NoReports /\ rxq = <<>>
    BY Zenon DEF Init
  <2>4. /\ g_local_work \in Nat /\ g_hw_work \in Nat /\ nonce2 \in 0 .. Word - 1
        /\ ret_produce \in 0 .. RetSize - 1 /\ ret_consume \in 0 .. RetSize - 1
        /\ upPos \in 0 .. NParts /\ lost \in Nat /\ session \in Nat
        /\ issued \in SUBSET (0 .. Word - 1)
    BY PartsType, Nonce2Type, RingAssumption DEF Init
  <2> QED
    BY <2>1, <2>2, <2>3, <2>4, ResetType DEF TypeOK
<1>2. TypeOK /\ [Next]_vars => TypeOK'
  <2> SUFFICES ASSUME TypeOK, [Next]_vars PROVE TypeOK'
    OBVIOUS
  <2>1. CASE Detect
    BY <2>1, ResetType, ReceiveFrame DEF TypeOK, Detect, StopMining, ClearCounters, Flush, ring, upload, history
  <2>2. CASE \E j \in Jobs : Static(j)
    <3>1. PICK j \in Jobs : Static(j)
      BY <2>2
    <3>2. mw' \in [Parts -> Job] /\ upJob' \in Job /\ upPos' \in 0 .. NParts
      BY <3>1, PartsType DEF TypeOK, Static, Job, HashParts
    <3> QED
      BY <3>1, <3>2, ResetType, ReceiveFrame DEF TypeOK, Static, StopMining, Flush, counters, ring, history
  <2>3. CASE Part
    BY <2>3, ResetType, ReceiveFrame, PartsType DEF TypeOK, Part, Job, counters, alink, ring, history
  <2>4. CASE SetRefused
    BY <2>4, ResetType, ReceiveFrame, PartsType DEF TypeOK, SetRefused, counters, alink, ring, history
  <2>5. CASE Set
    <3>1. nonce2' \in 0 .. Word - 1 /\ issued' \in SUBSET (0 .. Word - 1) /\ session' \in Nat
      BY <2>5, NonceAssumption, Nonce2Type DEF TypeOK, Set
    <3>2. upPos' \in 0 .. NParts
      BY <2>5, PartsType DEF Set
    <3>3. /\ g_new_stratum' \in BOOLEAN /\ voltage' \in BOOLEAN /\ timer' = IDLE_TIME /\ Flush
          /\ UNCHANGED <<pc, temp0, temp1, work, hostAlive, g_local_work, g_hw_work, mw,
                         ret_buf, ret_produce, ret_consume, upJob, lost, damaged>>
      BY <2>5, ReceiveFrame, Zenon DEF Set, counters, ring
    <3> QED
      BY <3>1, <3>2, <3>3, ResetType DEF TypeOK, Flush
  <2>6. CASE \E volt \in BOOLEAN : Polling(volt)
    <3>1. PICK volt \in BOOLEAN : Polling(volt)
      BY <2>6
    <3>2. ret_consume' \in 0 .. RetSize - 1 /\ g_local_work' \in Nat /\ g_hw_work' \in Nat
      <4>1. CASE ret_consume = ret_produce /\ ClearCounters /\ UNCHANGED ret_consume
        BY <4>1 DEF TypeOK, ClearCounters
      <4>2. CASE ret_consume' = Advance(ret_consume) /\ UNCHANGED <<g_local_work, g_hw_work>>
        BY <4>2, AdvanceInRing DEF TypeOK
      <4> QED
        BY <3>1, <4>1, <4>2, Zenon DEF Polling, counters
    <3>3. /\ voltage' \in BOOLEAN /\ timer' = IDLE_TIME
          /\ UNCHANGED <<pc, temp0, temp1, work, hostAlive, g_new_stratum, mw, nonce2, txq, busy, rxq,
                         ret_buf, ret_produce, upJob, upPos, lost, damaged, session, issued>>
      BY <3>1, ReceiveFrame, Zenon DEF Polling, alink, upload, history
    <3> QED
      BY <3>2, <3>3, ResetType DEF TypeOK
  <2>7. CASE OtherPkg
    BY <2>7, ResetType, ReceiveFrame DEF TypeOK, OtherPkg, counters, alink, ring, upload, history
  <2>8. CASE Test
    <3>1. rxq' \in Seq(Task)
      BY <2>8, TestReads
    <3>2. /\ voltage' = FALSE /\ timer' = 0
          /\ UNCHANGED <<pc, temp0, temp1, work, hostAlive, g_new_stratum, g_local_work, g_hw_work,
                         mw, nonce2, txq, busy, ret_buf, ret_produce, ret_consume,
                         upJob, upPos, lost, damaged, session, issued>>
      BY <2>8, ReceiveFrame, Zenon DEF Test, counters, ring, upload, history
    <3> QED
      BY <3>1, <3>2, ResetType DEF TypeOK
  <2>9. CASE BadCrc
    <3>1. lost' \in Nat
      BY <2>9 DEF TypeOK, BadCrc
    <3>2. upJob' \in Job /\ upPos' \in 0 .. NParts /\ damaged' \in BOOLEAN
      <4>1. CASE \E j \in Jobs : upJob' = j /\ upPos' = 1 /\ damaged' = TRUE
        BY <4>1, PartsType DEF Job
      <4>2. CASE upPos \in 1 .. NParts - 1 /\ upPos' = upPos + 1 /\ damaged' = TRUE /\ UNCHANGED upJob
        BY <4>2, PartsType DEF TypeOK
      <4>3. CASE upPos' = 0 /\ UNCHANGED <<upJob, damaged>>
        BY <4>3, PartsType DEF TypeOK
      <4> QED
        BY <2>9, <4>1, <4>2, <4>3, Zenon DEF BadCrc
    <3>3. /\ pc' \in {pc, AfterPkg}
          /\ UNCHANGED <<g_new_stratum, g_local_work, g_hw_work, voltage, timer, temp0, temp1, mw, nonce2,
                         work, txq, busy, rxq, ret_buf, ret_produce, ret_consume, hostAlive, session, issued>>
      BY <2>9, Zenon DEF BadCrc, counters, sensors, alink, ring, history
    <3> QED
      BY <3>1, <3>2, <3>3 DEF TypeOK, AfterPkg, StillMining
  <2>10. CASE NoMorePkg
    BY <2>10 DEF TypeOK, NoMorePkg, AfterPkg, StillMining, PkgSites, counters, sensors, alink, ring, upload, history
  <2>11. CASE PowerOff
    BY <2>11, ResetType DEF TypeOK, PowerOff, StopMining, ClearCounters, Flush, sensors, ring, upload, history
  <2>12. CASE CarryOn
    BY <2>12 DEF TypeOK, CarryOn, StillMining, counters, sensors, alink, ring, upload, history
  <2>13. CASE GenWork
    <3>1. work' \in Task
      BY <2>13, TaskType, PartsType DEF TypeOK, GenWork, Task
    <3> QED
      BY <2>13, <3>1 DEF TypeOK, GenWork, counters, sensors, alink, ring, upload, history
  <2>14. CASE TxFull
    BY <2>14 DEF TypeOK, TxFull, counters, sensors, alink, ring, upload, history
  <2>15. CASE SendWork
    <3>1. InitWork(work) \in Task
      BY PartsType, PoolType DEF InitWork, TypeOK
    <3>2. issued' \in SUBSET (0 .. Word - 1)
      BY <2>15 DEF TypeOK, SendWork, Task
    <3>3. txq' \in Seq(Task)
      BY <2>15, <3>1 DEF TypeOK, SendWork
    <3>4. work' \in Task /\ nonce2' \in 0 .. Word - 1
      BY <2>15, TaskType, Nonce2Type DEF TypeOK, SendWork
    <3> QED
      BY <2>15, <3>2, <3>3, <3>4 DEF TypeOK, SendWork, counters, sensors, ring, upload
  <2>16. CASE NoResult
    BY <2>16 DEF TypeOK, NoResult, counters, sensors, alink, ring, upload, history
  <2>17. ASSUME NEW verdict \in {"HW", "VALID", "DIFF"}, ReadResult(verdict)
         PROVE  TypeOK'
    <3>1. Head(rxq) \in Task /\ rxq' \in Seq(Task)
      BY <2>17 DEF TypeOK, ReadResult
    <3>2. /\ ret_buf' \in [0 .. RetSize - 1 -> Share]
          /\ ret_produce' \in 0 .. RetSize - 1
      <4>1. CASE verdict = "DIFF"
        <5>1. [job |-> mw[JobIdPart], pool |-> Head(rxq).pool, work |-> JobOf(Head(rxq).content),
               clean |-> ~damaged] \in Share
          BY <3>1, PartsType DEF TypeOK, Task, Contents, Share, JobOf, Job
        <5> QED
          BY <2>17, <4>1, <5>1, AdvanceInRing DEF TypeOK, ReadResult
      <4>2. CASE verdict # "DIFF"
        BY <2>17, <4>2 DEF TypeOK, ReadResult
      <4> QED
        BY <4>1, <4>2
    <3> QED
      BY <2>17, <3>1, <3>2 DEF TypeOK, ReadResult, counters, sensors, ring, upload, history
  <2>18. ASSUME NEW m \in Miners, Dispatch(m)
         PROVE  TypeOK'
    BY <2>18 DEF TypeOK, Dispatch, Hardware, counters, sensors, ring, upload, history
  <2>19. ASSUME NEW m \in Miners, Report(m)
         PROVE  TypeOK'
    BY <2>19 DEF TypeOK, Report, Hardware, counters, sensors, ring, upload, history
  <2>20. ASSUME NEW m \in Miners, TaskTimeout(m)
         PROVE  TypeOK'
    BY <2>20 DEF TypeOK, TaskTimeout, Hardware, counters, sensors, ring, upload, history
  <2>21. CASE Second
    BY <2>21, TimeAssumption DEF TypeOK, Second, Hardware, counters, sensors, alink, ring, upload, history
  <2>22. CASE Weather
    BY <2>22 DEF TypeOK, Weather, Hardware, counters, alink, ring, upload, history
  <2>23. CASE HostDies
    BY <2>23 DEF TypeOK, HostDies, Hardware, counters, sensors, alink, ring, upload, history
  <2>24. CASE UNCHANGED vars
    BY <2>24 DEF TypeOK, vars, counters, sensors, alink, ring, upload, history
  <2> QED
    BY <2>1, <2>2, <2>3, <2>4, <2>5, <2>6, <2>7, <2>8, <2>9, <2>10, <2>11, <2>12, <2>13,
       <2>14, <2>15, <2>16, <2>17, <2>18, <2>19, <2>20, <2>21, <2>22, <2>23, <2>24
       DEF Next, DecodePkg, MainStep
<1> QED
  BY <1>1, <1>2, PTL DEF Spec

-----------------------------------------------------------------------------
(* Whatever stopped the module, no work of it is left in alink, and the loop is not
   about to send one or to read a result.  The property is inductive. *)
THEOREM Drained == Spec => []StoppedMeansDrained
<1>1. Init => StoppedMeansDrained
  BY DEF Init, StoppedMeansDrained
<1>2. TypeOK /\ StoppedMeansDrained /\ [Next]_vars => StoppedMeansDrained'
  <2> SUFFICES ASSUME TypeOK, StoppedMeansDrained, [Next]_vars PROVE StoppedMeansDrained'
    OBVIOUS
  <2> USE DEF StoppedMeansDrained
  <2>1. CASE Detect
    BY <2>1 DEF Detect, Receive, Flush, PkgSites
  <2>2. CASE \E j \in Jobs : Static(j)
    BY <2>2 DEF Static, Receive, Flush, PkgSites
  <2>3. CASE Part
    BY <2>3, ReceiveFrame DEF Part, alink
  <2>4. CASE SetRefused
    BY <2>4, ReceiveFrame DEF SetRefused, alink
  <2>5. CASE Set
    BY <2>5 DEF Set
  <2>6. CASE \E volt \in BOOLEAN : Polling(volt)
    BY <2>6, ReceiveFrame DEF Polling, alink
  <2>7. CASE OtherPkg
    BY <2>7, ReceiveFrame DEF OtherPkg, alink
  <2>8. CASE Test
    BY <2>8, ReceiveFrame DEF Test
  <2>9. CASE BadCrc
    BY <2>9 DEF BadCrc, AfterPkg, StillMining, alink
  <2>10. CASE NoMorePkg
    BY <2>10 DEF NoMorePkg, AfterPkg, StillMining, alink
  <2>11. CASE PowerOff
    BY <2>11 DEF PowerOff, Flush
  <2>12. CASE CarryOn
    BY <2>12 DEF CarryOn, StillMining, alink
  <2>13. CASE GenWork
    BY <2>13 DEF GenWork, alink
  <2>14. CASE TxFull
    BY <2>14 DEF TxFull, alink
  <2>15. CASE SendWork
    BY <2>15 DEF SendWork
  <2>16. CASE NoResult
    BY <2>16 DEF NoResult, alink
  <2>17. CASE \E verdict \in {"HW", "VALID", "DIFF"} : ReadResult(verdict)
    BY <2>17 DEF ReadResult
  <2>18. CASE \E m \in Miners : Dispatch(m)
    BY <2>18 DEF Dispatch, Hardware
  <2>19. CASE \E m \in Miners : Report(m)
    BY <2>19 DEF Report, Hardware
  <2>20. CASE \E m \in Miners : TaskTimeout(m)
    BY <2>20 DEF TaskTimeout, Hardware, NoReports
  <2>21. CASE Second \/ Weather \/ HostDies
    BY <2>21 DEF Second, Weather, HostDies, Hardware, alink
  <2>22. CASE UNCHANGED vars
    BY <2>22 DEF vars, alink
  <2> QED
    BY <2>1, <2>2, <2>3, <2>4, <2>5, <2>6, <2>7, <2>8, <2>9, <2>10, <2>11, <2>12, <2>13,
       <2>14, <2>15, <2>16, <2>17, <2>18, <2>19, <2>20, <2>21, <2>22
       DEF Next, DecodePkg, MainStep
<1> QED
  BY <1>1, <1>2, TypeCorrect, PTL DEF Spec

-----------------------------------------------------------------------------
(* A work that P_SET overtook goes into an empty FIFO, with no PHY busy, so works
   of an older session never mix with those of the new one: at most one of them
   is in alink, ahead of all the others. *)
(* A flush leaves no work of an older session in alink... *)
LEMMA FlushedNotStale ==
  ASSUME txq' = <<>>, busy' = NoReports
  PROVE  StaleAtMostOne' /\ OvertakenAlone'
BY DEF StaleAtMostOne, OvertakenAlone, Stale, NoReports

(* ... and none appears while alink and the session stay as they are. *)
LEMMA SessionFrame ==
  ASSUME StaleAtMostOne, OvertakenAlone,
         UNCHANGED <<txq, busy, session>>,
         pc' \in {"window", "send"} => pc \in {"window", "send"} /\ UNCHANGED work
  PROVE  StaleAtMostOne' /\ OvertakenAlone'
BY DEF StaleAtMostOne, OvertakenAlone, Stale

(* After every P_SET, at most one work of the session before is left in alink, in
   front of all works of the new one. *)
THEOREM StaleBounded == Spec => []StaleBound
<1>1. Init => StaleAtMostOne /\ OvertakenAlone
  BY DEF Init, StaleAtMostOne, OvertakenAlone, Stale, NoReports
<1>2. TypeOK /\ StaleAtMostOne /\ OvertakenAlone /\ [Next]_vars => (StaleAtMostOne /\ OvertakenAlone)'
  <2> SUFFICES ASSUME TypeOK, StaleAtMostOne, OvertakenAlone, [Next]_vars
               PROVE  StaleAtMostOne' /\ OvertakenAlone'
    OBVIOUS
  <2>1. CASE Detect
    BY <2>1, FlushedNotStale DEF Detect, Flush
  <2>2. CASE \E j \in Jobs : Static(j)
    BY <2>2, FlushedNotStale DEF Static, Flush
  <2>3. CASE Part
    BY <2>3, ReceiveFrame, SessionFrame DEF Part, alink, history
  <2>4. CASE SetRefused
    BY <2>4, ReceiveFrame, SessionFrame DEF SetRefused, alink, history
  <2>5. CASE Set
    BY <2>5, FlushedNotStale DEF Set, Flush
  <2>6. CASE \E volt \in BOOLEAN : Polling(volt)
    BY <2>6, ReceiveFrame, SessionFrame DEF Polling, alink, history
  <2>7. CASE OtherPkg
    BY <2>7, ReceiveFrame, SessionFrame DEF OtherPkg, alink, history
  <2>8. CASE Test
    BY <2>8, ReceiveFrame, SessionFrame DEF Test, history
  <2>9. CASE BadCrc
    BY <2>9, SessionFrame DEF BadCrc, PkgSites, AfterPkg, StillMining, alink, history
  <2>10. CASE NoMorePkg
    BY <2>10, SessionFrame DEF NoMorePkg, PkgSites, AfterPkg, StillMining, alink, history
  <2>11. CASE PowerOff
    BY <2>11, FlushedNotStale DEF PowerOff, Flush
  <2>12. CASE CarryOn
    BY <2>12, SessionFrame DEF CarryOn, StillMining, alink, history
  <2>13. CASE GenWork
    <3>1. work'.session = session' /\ UNCHANGED <<txq, busy, session>>
      BY <2>13 DEF GenWork, alink, history
    <3> QED
      BY <3>1 DEF StaleAtMostOne, OvertakenAlone, Stale
  <2>14. CASE TxFull
    BY <2>14, SessionFrame DEF TxFull, alink, history
  <2>15. CASE SendWork
    <3> DEFINE sent == InitWork(work)
    <3>1. pc' = "read" /\ pc = "send" /\ UNCHANGED <<busy, session>> /\ txq' = Append(txq, sent)
      BY <2>15 DEF SendWork
    <3>2. sent \in Task /\ sent.session = work.session
      BY PartsType, PoolType DEF InitWork, TypeOK, Task
    <3> HIDE DEF sent
    <3>3. /\ Len(txq') = Len(txq) + 1 /\ txq'[Len(txq) + 1] = sent
          /\ \A i \in 1 .. Len(txq) : txq'[i] = txq[i]
          /\ Len(txq) \in Nat /\ (Len(txq) = 0 <=> txq = <<>>)
      BY <3>1, <3>2 DEF TypeOK
    <3>4. OvertakenAlone'
      BY <3>1 DEF OvertakenAlone
    <3>5. CASE work.session # session
      <4>1. txq = <<>> /\ busy = NoReports
        BY <3>1, <3>5 DEF OvertakenAlone
      <4>2. Len(txq') = 1 /\ busy' = NoReports
        BY <3>1, <3>3, <4>1
      <4> QED
        BY <3>4, <4>2 DEF StaleAtMostOne, Stale, NoReports
    <3>6. CASE work.session = session
      <4>1. ~Stale(sent)
        BY <3>2, <3>6 DEF Stale
      <4>2. \A i \in 2 .. Len(txq') : ~Stale(txq'[i])
        BY <3>3, <4>1 DEF StaleAtMostOne
      <4>3. \A m \in Miners : Stale(busy[m]) => ~Stale(txq'[1]) /\ \A n \in Miners \ {m} : ~Stale(busy[n])
        BY <3>3, <4>1 DEF StaleAtMostOne
      <4> QED
        BY <3>1, <3>4, <4>2, <4>3 DEF StaleAtMostOne, Stale
    <3> QED
      BY <3>5, <3>6
  <2>16. CASE NoResult
    BY <2>16, SessionFrame DEF NoResult, alink, history
  <2>17. CASE \E verdict \in {"HW", "VALID", "DIFF"} : ReadResult(verdict)
    BY <2>17, SessionFrame DEF ReadResult, history
  <2>18. ASSUME NEW m \in Miners, Dispatch(m)
         PROVE  StaleAtMostOne' /\ OvertakenAlone'
    <3>1. /\ txq # <<>> /\ txq' = Tail(txq) /\ busy' = [busy EXCEPT ![m] = txq[1]]
          /\ UNCHANGED <<pc, work, session>>
      BY <2>18 DEF Dispatch, Hardware, history, TypeOK
    <3>2. /\ Len(txq) \in Nat /\ Len(txq') = Len(txq) - 1
          /\ \A i \in 1 .. Len(txq') : txq'[i] = txq[i + 1]
      BY <3>1 DEF TypeOK
    <3>3. OvertakenAlone'
      BY <3>1 DEF OvertakenAlone
    <3>4. \A i \in 1 .. Len(txq') : ~Stale(txq'[i])
      BY <3>2 DEF StaleAtMostOne
    <3>5. txq' # <<>> => ~Stale(txq'[1])
      <4>1. txq' \in Seq(Task)
        BY <3>1 DEF TypeOK
      <4>2. txq' # <<>> => 1 \in 1 .. Len(txq')
        BY <4>1
      <4> QED
        BY <4>2, <3>4
    <3>6. \A n \in Miners : busy'[n] = IF n = m THEN txq[1] ELSE busy[n]
      BY <3>1 DEF TypeOK
    <3>7. \A k \in Miners : Stale(busy'[k]) => \A n \in Miners \ {k} : ~Stale(busy'[n])
      BY <3>1, <3>6 DEF StaleAtMostOne
    <3> QED
      BY <3>1, <3>2, <3>3, <3>4, <3>5, <3>7 DEF StaleAtMostOne, Stale
  <2>19. CASE \E m \in Miners : Report(m)
    BY <2>19, SessionFrame DEF Report, Hardware, history
  <2>20. ASSUME NEW m \in Miners, TaskTimeout(m)
         PROVE  StaleAtMostOne' /\ OvertakenAlone'
    <3>1. /\ busy[m] # NoTask /\ busy' = [busy EXCEPT ![m] = NoTask]
          /\ UNCHANGED <<txq, pc, work, session>>
      BY <2>20 DEF TaskTimeout, Hardware, history
    <3>2. \A n \in Miners : busy'[n] = IF n = m THEN NoTask ELSE busy[n]
      BY <3>1 DEF TypeOK
    <3>3. OvertakenAlone'
      BY <3>1 DEF OvertakenAlone, NoReports
    <3> QED
      BY <3>1, <3>2, <3>3 DEF StaleAtMostOne, Stale
  <2>21. CASE Second \/ Weather \/ HostDies
    BY <2>21, SessionFrame DEF Second, Weather, HostDies, Hardware, alink, history
  <2>22. CASE UNCHANGED vars
    BY <2>22, SessionFrame DEF vars, alink, history
  <2> QED
    BY <2>1, <2>2, <2>3, <2>4, <2>5, <2>6, <2>7, <2>8, <2>9, <2>10, <2>11, <2>12, <2>13,
       <2>14, <2>15, <2>16, <2>17, <2>18, <2>19, <2>20, <2>21, <2>22
       DEF Next, DecodePkg, MainStep
<1> QED
  BY <1>1, <1>2, TypeCorrect, PTL DEF Spec, StaleBound

-----------------------------------------------------------------------------
(* The job a module mines is one job, unless a package of its upload was lost:
   P_STATIC stops the module, and only the P_SET that follows the last package of
   the upload starts it again. *)
UploadInv == UploadStops /\ PartsOfUpload /\ MinedJob

(* A step that leaves the upload and the job buffer alone keeps UploadInv, unless it
   starts mining. *)
LEMMA UploadFrame ==
  ASSUME UploadInv, g_new_stratum' => g_new_stratum,
         UNCHANGED <<mw, upJob, upPos, damaged>>
  PROVE  UploadInv'
BY DEF UploadInv, UploadStops, PartsOfUpload, MinedJob

(* While a module mines, its buffer holds one job, unless a package was lost. *)
THEOREM MinesOneJob == Spec => []UploadInv
<1>1. Init => UploadInv
  BY DEF Init, UploadInv, UploadStops, PartsOfUpload, MinedJob
<1>2. TypeOK /\ UploadInv /\ [Next]_vars => UploadInv'
  <2> SUFFICES ASSUME TypeOK, UploadInv, [Next]_vars PROVE UploadInv'
    OBVIOUS
  <2>1. CASE Detect
    BY <2>1, UploadFrame DEF Detect, StopMining, upload
  <2>2. ASSUME NEW j \in Jobs, Static(j)
        PROVE  UploadInv'
    <3>1. /\ g_new_stratum' = FALSE /\ upJob' = j /\ upPos' = 1
          /\ mw' = [mw EXCEPT ![StaticPart] = j]
      BY <2>2 DEF Static, StopMining
    <3>2. mw'[1] = j
      BY <3>1, PartsType DEF TypeOK, StaticPart, HashParts
    <3> QED
      BY <3>1, <3>2 DEF UploadInv, UploadStops, PartsOfUpload, MinedJob
  <2>3. CASE Part
    <3>1. /\ upPos \in 1 .. NParts - 1 /\ upPos' = upPos + 1
          /\ mw' = [i \in Parts |-> IF i = upPos + 1 THEN upJob
                                    ELSE IF upPos + 1 = 4 /\ i \in CoinbaseParts THEN NoJob
                                    ELSE mw[i]]
          /\ UNCHANGED <<g_new_stratum, upJob, damaged>>
      BY <2>3 DEF Part
    <3>2. upJob \in Jobs /\ (g_new_stratum => damaged)
      BY <3>1 DEF UploadInv, UploadStops
    <3>3. \A p \in 1 .. upPos' : mw'[p] = IF p = upPos + 1 THEN upJob ELSE mw[p]
      BY <3>1, PartsType, PartAssumption DEF Parts, CoinbaseParts
    <3>4. PartsOfUpload'
      BY <3>1, <3>3 DEF UploadInv, PartsOfUpload
    <3> QED
      BY <3>1, <3>2, <3>4 DEF UploadInv, UploadStops, MinedJob
  <2>4. CASE SetRefused
    <3>1. upPos' = 0 /\ UNCHANGED <<g_new_stratum, mw, upJob, damaged>>
      BY <2>4 DEF SetRefused
    <3> QED
      BY <3>1 DEF UploadInv, UploadStops, PartsOfUpload, MinedJob
  <2>5. CASE Set
    <3>1. upPos = NParts /\ upPos' = 0 /\ UNCHANGED <<mw, upJob, damaged>>
      BY <2>5 DEF Set
    <3>2. upJob \in Jobs /\ \A p \in Parts : mw[p] = upJob \/ damaged
      BY <3>1, PartsType DEF UploadInv, UploadStops, PartsOfUpload, Parts
    <3> QED
      BY <3>1, <3>2, PartsType DEF UploadInv, UploadStops, PartsOfUpload, MinedJob, HashParts
  <2>6. CASE \E volt \in BOOLEAN : Polling(volt)
    BY <2>6, UploadFrame DEF Polling, upload
  <2>7. CASE OtherPkg
    BY <2>7, UploadFrame DEF OtherPkg, upload
  <2>8. CASE Test
    BY <2>8, UploadFrame DEF Test, upload
  <2>9. CASE BadCrc
    <3>1. UNCHANGED <<g_new_stratum, mw>>
      BY <2>9 DEF BadCrc
    <3>2. CASE \E j \in Jobs : upJob' = j /\ upPos' = 1 /\ damaged' = TRUE
      BY <3>2 DEF UploadInv, UploadStops, PartsOfUpload, MinedJob
    <3>3. CASE upPos \in 1 .. NParts - 1 /\ upPos' = upPos + 1 /\ damaged' = TRUE /\ UNCHANGED upJob
      BY <3>3 DEF UploadInv, UploadStops, PartsOfUpload, MinedJob
    <3>4. CASE upPos' = 0 /\ UNCHANGED <<upJob, damaged>>
      BY <3>1, <3>4 DEF UploadInv, UploadStops, PartsOfUpload, MinedJob
    <3> QED
      BY <2>9, <3>2, <3>3, <3>4, Zenon DEF BadCrc
  <2>10. CASE NoMorePkg
    BY <2>10, UploadFrame DEF NoMorePkg, upload
  <2>11. CASE PowerOff
    BY <2>11, UploadFrame DEF PowerOff, StopMining, upload
  <2>12. CASE CarryOn \/ GenWork \/ TxFull \/ NoResult
    BY <2>12, UploadFrame DEF CarryOn, GenWork, TxFull, NoResult, upload
  <2>13. CASE SendWork
    BY <2>13, UploadFrame DEF SendWork, upload
  <2>14. CASE \E verdict \in {"HW", "VALID", "DIFF"} : ReadResult(verdict)
    BY <2>14, UploadFrame DEF ReadResult, upload
  <2>15. CASE \E m \in Miners : Dispatch(m) \/ Report(m) \/ TaskTimeout(m)
    BY <2>15, UploadFrame DEF Dispatch, Report, TaskTimeout, Hardware, upload
  <2>16. CASE Second \/ Weather \/ HostDies
    BY <2>16, UploadFrame DEF Second, Weather, HostDies, Hardware, upload
  <2>17. CASE UNCHANGED vars
    BY <2>17, UploadFrame DEF vars, upload
  <2> QED
    BY <2>1, <2>2, <2>3, <2>4, <2>5, <2>6, <2>7, <2>8, <2>9, <2>10, <2>11, <2>12, <2>13,
       <2>14, <2>15, <2>16, <2>17
       DEF Next, DecodePkg, MainStep
<1> QED
  BY <1>1, <1>2, TypeCorrect, PTL DEF Spec

-----------------------------------------------------------------------------
(* Unless a package of the upload was lost, a work handed to alink is hashed from the
   parts of one job: the job was whole when the work was generated. *)
LEMMA JobOfUniform ==
  ASSUME NEW m \in [Parts -> Job], NEW j \in Jobs, \A p \in Parts : m[p] = j
  PROVE  JobOf(Content(m)) = j /\ j # NoJob
<1>1. \A p \in HashParts : Content(m)[p] = j
  BY PartsType DEF Content
<1> QED
  BY <1>1, PartsType, JobAssumption DEF JobOf

WorkInv == WorkInHand /\ WholeJob

(* A flush outside of the window between a work and its sending keeps WorkInv. *)
LEMMA FlushedWork ==
  ASSUME WorkInv, txq' = <<>>, UNCHANGED <<pc, work>>
  PROVE  WorkInv'
BY DEF WorkInv, WorkInHand, WholeJob

(* So does a step that leaves the FIFO alone and builds no work. *)
LEMMA WorkFrame ==
  ASSUME WorkInv, UNCHANGED txq,
         pc' \in {"window", "send"} => pc \in {"window", "send"} /\ UNCHANGED work
  PROVE  WorkInv'
BY DEF WorkInv, WorkInHand, WholeJob

(* No work in hand or in the FIFO is hashed from a half-written job. *)
THEOREM WorksAreWhole == Spec => [](WorkInHand /\ WholeJob)
<1>1. Init => WorkInv
  BY DEF Init, WorkInv, WorkInHand, WholeJob
<1>2. /\ TypeOK /\ StoppedMeansDrained /\ UploadInv
      /\ WorkInv /\ [Next]_vars
      => WorkInv'
  <2> SUFFICES ASSUME TypeOK, StoppedMeansDrained, UploadInv, WorkInv, [Next]_vars
               PROVE  WorkInv'
    OBVIOUS
  <2>1. CASE Detect
    BY <2>1, ReceiveFrame, FlushedWork DEF Detect, Flush
  <2>2. CASE \E j \in Jobs : Static(j)
    BY <2>2, ReceiveFrame, FlushedWork DEF Static, Flush
  <2>3. CASE Part
    BY <2>3, ReceiveFrame, WorkFrame DEF Part, alink
  <2>4. CASE SetRefused
    BY <2>4, ReceiveFrame, WorkFrame DEF SetRefused, alink
  <2>5. CASE Set
    BY <2>5, ReceiveFrame, FlushedWork DEF Set, Flush
  <2>6. CASE \E volt \in BOOLEAN : Polling(volt)
    BY <2>6, ReceiveFrame, WorkFrame DEF Polling, alink
  <2>7. CASE OtherPkg
    BY <2>7, ReceiveFrame, WorkFrame DEF OtherPkg, alink
  <2>8. CASE Test
    BY <2>8, ReceiveFrame, WorkFrame DEF Test
  <2>9. CASE BadCrc
    BY <2>9, WorkFrame DEF BadCrc, PkgSites, AfterPkg, StillMining, alink
  <2>10. CASE NoMorePkg
    BY <2>10, WorkFrame DEF NoMorePkg, PkgSites, AfterPkg, StillMining, alink
  <2>11. CASE PowerOff
    <3>1. pc' = "top" /\ txq' = <<>>
      BY <2>11 DEF PowerOff, Flush
    <3> QED
      BY <3>1 DEF WorkInv, WorkInHand, WholeJob
  <2>12. CASE CarryOn
    BY <2>12, WorkFrame DEF CarryOn, StillMining, alink
  <2>13. CASE GenWork
    <3>1. pc = "gen" /\ UNCHANGED txq /\ work'.content = Content(mw) /\ work'.clean = ~damaged
      BY <2>13 DEF GenWork, alink
    <3>2. g_new_stratum
      BY <3>1 DEF StoppedMeansDrained
    <3>3. ASSUME ~damaged
          PROVE  JobOf(Content(mw)) # NoJob
      BY <3>2, <3>3, JobOfUniform DEF TypeOK, UploadInv, MinedJob
    <3> QED
      BY <3>1, <3>3 DEF WorkInv, WorkInHand, WholeJob
  <2>14. CASE TxFull
    BY <2>14, WorkFrame DEF TxFull, alink
  <2>15. CASE SendWork
    <3> DEFINE sent == InitWork(work)
    <3>1. pc' = "read" /\ pc = "send" /\ txq' = Append(txq, sent)
      BY <2>15 DEF SendWork
    <3>2. sent \in Task /\ sent.content = work.content /\ sent.clean = work.clean
      BY PartsType, PoolType DEF InitWork, TypeOK, Task
    <3> HIDE DEF sent
    <3>3. /\ Len(txq) \in Nat /\ DOMAIN txq = 1 .. Len(txq)
          /\ DOMAIN txq' = 1 .. Len(txq) + 1 /\ txq'[Len(txq) + 1] = sent
          /\ \A i \in 1 .. Len(txq) : txq'[i] = txq[i]
      BY <3>1, <3>2 DEF TypeOK
    <3>4. sent.clean => JobOf(sent.content) # NoJob
      BY <3>1, <3>2 DEF WorkInv, WorkInHand
    <3> QED
      BY <3>1, <3>3, <3>4 DEF WorkInv, WorkInHand, WholeJob
  <2>16. CASE NoResult
    BY <2>16, WorkFrame DEF NoResult, alink
  <2>17. CASE \E verdict \in {"HW", "VALID", "DIFF"} : ReadResult(verdict)
    BY <2>17, WorkFrame DEF ReadResult
  <2>18. ASSUME NEW m \in Miners, Dispatch(m)
         PROVE  WorkInv'
    <3>1. txq # <<>> /\ txq' = Tail(txq) /\ UNCHANGED <<pc, work>>
      BY <2>18 DEF Dispatch, Hardware
    <3>2. /\ DOMAIN txq' = 1 .. Len(txq) - 1 /\ DOMAIN txq = 1 .. Len(txq)
          /\ Len(txq) \in Nat
          /\ \A i \in DOMAIN txq' : txq'[i] = txq[i + 1]
      BY <3>1 DEF TypeOK
    <3> QED
      BY <3>1, <3>2 DEF WorkInv, WorkInHand, WholeJob
  <2>19. CASE \E m \in Miners : Report(m) \/ TaskTimeout(m)
    BY <2>19, WorkFrame DEF Report, TaskTimeout, Hardware
  <2>20. CASE Second \/ Weather \/ HostDies
    BY <2>20, WorkFrame DEF Second, Weather, HostDies, Hardware, alink
  <2>21. CASE UNCHANGED vars
    BY <2>21, WorkFrame DEF vars, alink
  <2> QED
    BY <2>1, <2>2, <2>3, <2>4, <2>5, <2>6, <2>7, <2>8, <2>9, <2>10, <2>11, <2>12, <2>13,
       <2>14, <2>15, <2>16, <2>17, <2>18, <2>19, <2>20, <2>21
       DEF Next, DecodePkg, MainStep
<1> QED
  BY <1>1, <1>2, TypeCorrect, Drained, MinesOneJob, PTL DEF Spec, WorkInv

-----------------------------------------------------------------------------
(* What is left of a core test carries no pool number; a flush leaves nothing at all. *)
LEMMA FlushedPool ==
  ASSUME txq' = <<>>, busy' = NoReports, rxq' = <<>>
  PROVE  PoolKnown'
BY DEF PoolKnown, NoReports

(* Pool numbers stay known while alink and P_STATIC of the job stay as they are. *)
LEMMA PoolFrame ==
  ASSUME PoolKnown, UNCHANGED <<txq, busy, rxq>>, UNCHANGED mw[StaticPart]
  PROVE  PoolKnown'
BY DEF PoolKnown, PoolOf

(* Taking the head of a queue of tasks keeps what holds of all of them. *)
LEMMA TailPool ==
  ASSUME NEW s \in Seq(Task), s # <<>>, \A i \in DOMAIN s : PoolOf(s[i])
  PROVE  PoolOf(Head(s)) /\ \A i \in DOMAIN Tail(s) : PoolOf(Tail(s)[i])
<1>1. /\ Len(s) \in Nat /\ 1 \in DOMAIN s /\ Head(s) = s[1]
      /\ \A i \in DOMAIN Tail(s) : i + 1 \in DOMAIN s /\ Tail(s)[i] = s[i + 1]
  OBVIOUS
<1> QED
  BY <1>1

(* Queueing a task whose pool number is known keeps what holds of all of them. *)
LEMMA AppendPool ==
  ASSUME NEW s \in Seq(Task), NEW t \in Task, PoolOf(t), \A i \in DOMAIN s : PoolOf(s[i])
  PROVE  \A i \in DOMAIN Append(s, t) : PoolOf(Append(s, t)[i])
<1>1. /\ Len(s) \in Nat /\ DOMAIN s = 1 .. Len(s)
      /\ DOMAIN Append(s, t) = 1 .. Len(s) + 1 /\ Append(s, t)[Len(s) + 1] = t
      /\ \A i \in 1 .. Len(s) : Append(s, t)[i] = s[i]
  OBVIOUS
<1> QED
  BY <1>1

(* Every task that may still be reported carries the pool number in the buffer. *)
THEOREM PoolsKnown == Spec => []PoolKnown
<1>1. Init => PoolKnown
  BY DEF Init, PoolKnown, NoReports
<1>2. TypeOK /\ PoolKnown /\ [Next]_vars => PoolKnown'
  <2> SUFFICES ASSUME TypeOK, PoolKnown, [Next]_vars PROVE PoolKnown'
    OBVIOUS
  <2>1. CASE Detect
    BY <2>1, FlushedPool DEF Detect, Flush
  <2>2. CASE \E j \in Jobs : Static(j)
    BY <2>2, FlushedPool DEF Static, Flush
  <2>3. CASE Part
    <3>1. UNCHANGED <<txq, busy, rxq>>
      BY <2>3 DEF Part, alink
    <3>2. mw'[StaticPart] = mw[StaticPart]
      BY <2>3, PartsType DEF Part, StaticPart, HashParts, CoinbaseParts
    <3> QED
      BY <3>1, <3>2, PoolFrame
  <2>4. CASE SetRefused
    BY <2>4, PoolFrame DEF SetRefused, alink
  <2>5. CASE Set
    BY <2>5, FlushedPool DEF Set, Flush
  <2>6. CASE \E volt \in BOOLEAN : Polling(volt)
    BY <2>6, PoolFrame DEF Polling, alink
  <2>7. CASE OtherPkg
    BY <2>7, PoolFrame DEF OtherPkg, alink
  <2>8. CASE Test
    <3>1. UNCHANGED <<txq, busy, mw>> /\ \A i \in DOMAIN rxq' : rxq'[i] \in Results
      BY <2>8, TestReads, Zenon DEF Test
    <3>2. PoolOf(TestResult)
      BY PartsType DEF TestResult, PoolOf
    <3>3. \A t \in Results : PoolOf(t)
      BY <3>2, Zenon DEF PoolKnown, Results
    <3> QED
      BY <3>1, <3>3 DEF PoolKnown, PoolOf
  <2>9. CASE BadCrc \/ NoMorePkg
    BY <2>9, PoolFrame DEF BadCrc, NoMorePkg, alink
  <2>10. CASE PowerOff
    BY <2>10, FlushedPool DEF PowerOff, Flush
  <2>11. CASE CarryOn \/ GenWork \/ TxFull \/ NoResult
    BY <2>11, PoolFrame DEF CarryOn, GenWork, TxFull, NoResult, alink
  <2>12. CASE SendWork
    <3> DEFINE sent == InitWork(work)
    <3>1. txq' = Append(txq, sent) /\ UNCHANGED <<busy, rxq, mw>>
      BY <2>12 DEF SendWork
    <3>2. sent \in Task /\ sent.pool = mw[StaticPart]
      BY PartsType, PoolType DEF InitWork, TypeOK, Task
    <3> HIDE DEF sent
    <3>3. \A i \in DOMAIN txq' : PoolOf(txq'[i])
      BY <3>1, <3>2, AppendPool DEF TypeOK, PoolKnown, PoolOf
    <3> QED
      BY <3>1, <3>3 DEF PoolKnown, PoolOf
  <2>13. CASE \E verdict \in {"HW", "VALID", "DIFF"} : ReadResult(verdict)
    <3>1. rxq # <<>> /\ rxq' = Tail(rxq) /\ UNCHANGED <<txq, busy, mw>>
      BY <2>13 DEF ReadResult
    <3>2. \A i \in DOMAIN rxq' : PoolOf(rxq'[i])
      BY <3>1, TailPool DEF TypeOK, PoolKnown
    <3> QED
      BY <3>1, <3>2 DEF PoolKnown, PoolOf
  <2>14. ASSUME NEW m \in Miners, Dispatch(m)
         PROVE  PoolKnown'
    <3>1. /\ txq # <<>> /\ txq' = Tail(txq) /\ busy' = [busy EXCEPT ![m] = Head(txq)]
          /\ UNCHANGED <<rxq, mw>>
      BY <2>14 DEF Dispatch, Hardware
    <3>2. PoolOf(Head(txq)) /\ \A i \in DOMAIN txq' : PoolOf(txq'[i])
      BY <3>1, TailPool DEF TypeOK, PoolKnown
    <3>3. \A n \in Miners : busy'[n] = IF n = m THEN Head(txq) ELSE busy[n]
      BY <3>1 DEF TypeOK
    <3> QED
      BY <3>1, <3>2, <3>3 DEF PoolKnown, PoolOf
  <2>15. ASSUME NEW m \in Miners, Report(m)
         PROVE  PoolKnown'
    <3>1. busy[m] # NoTask /\ rxq' = Append(rxq, busy[m]) /\ UNCHANGED <<txq, busy, mw>>
      BY <2>15 DEF Report, Hardware
    <3>2. busy[m] \in Task /\ PoolOf(busy[m])
      BY <3>1 DEF TypeOK, PoolKnown
    <3>3. \A i \in DOMAIN rxq' : PoolOf(rxq'[i])
      BY <3>1, <3>2, AppendPool DEF TypeOK, PoolKnown
    <3> QED
      BY <3>1, <3>3 DEF PoolKnown, PoolOf
  <2>16. ASSUME NEW m \in Miners, TaskTimeout(m)
         PROVE  PoolKnown'
    <3>1. busy' = [busy EXCEPT ![m] = NoTask] /\ UNCHANGED <<txq, rxq, mw>>
      BY <2>16 DEF TaskTimeout, Hardware
    <3>2. \A n \in Miners : busy'[n] = IF n = m THEN NoTask ELSE busy[n]
      BY <3>1 DEF TypeOK
    <3> QED
      BY <3>1, <3>2 DEF PoolKnown, PoolOf
  <2>17. CASE Second \/ Weather \/ HostDies
    BY <2>17, PoolFrame DEF Second, Weather, HostDies, Hardware, alink
  <2>18. CASE UNCHANGED vars
    BY <2>18, PoolFrame DEF vars, alink
  <2> QED
    BY <2>1, <2>2, <2>3, <2>4, <2>5, <2>6, <2>7, <2>8, <2>9, <2>10, <2>11, <2>12, <2>13,
       <2>14, <2>15, <2>16, <2>17, <2>18
       DEF Next, DecodePkg, MainStep
<1> QED
  BY <1>1, <1>2, TypeCorrect, PTL DEF Spec

(* The whole of what keeps two jobs apart: the upload, the buffer, the work in hand and
   the tasks that may still be reported belong to one job. *)
THEOREM OneJobAtATime == Spec => []OneJob
BY MinesOneJob, WorksAreWhole, PoolsKnown, PTL DEF OneJob, UploadInv

-----------------------------------------------------------------------------
(* A share carries the job id and the pool number of the job it was found for.  Both
   are read when the result is, and test_nonce() accepts a result of the job in the
   buffer only, which is one whole job while the module mines. *)
THEOREM SharesMatch == Spec => []ShareMatchesJob
<1>1. Init => ShareMatchesJob
  BY DEF Init, ShareMatchesJob
<1>2. /\ TypeOK /\ StoppedMeansDrained /\ UploadInv /\ PoolKnown
      /\ ShareMatchesJob /\ [Next]_vars
      => ShareMatchesJob'
  <2> SUFFICES ASSUME TypeOK, StoppedMeansDrained, UploadInv, PoolKnown,
                      ShareMatchesJob, [Next]_vars
               PROVE  ShareMatchesJob'
    OBVIOUS
  <2>1. ASSUME NEW verdict \in {"HW", "VALID", "DIFF"}, ReadResult(verdict)
        PROVE  ShareMatchesJob'
    <3>1. CASE verdict # "DIFF"
      BY <2>1, <3>1 DEF ReadResult, ShareMatchesJob
    <3>2. CASE verdict = "DIFF"
      <4> DEFINE task == Head(rxq)
                 share == [job |-> mw[JobIdPart], pool |-> task.pool, work |-> JobOf(task.content),
                           clean |-> ~damaged]
      <4>1. /\ pc = "read" /\ rxq # <<>> /\ task.content = Content(mw)
            /\ ret_buf' = [ret_buf EXCEPT ![ret_produce] = share]
        BY <2>1, <3>2 DEF ReadResult, Verified
      <4>2. share.clean => share.job = share.work /\ share.pool = share.work
        <5> SUFFICES ASSUME ~damaged
                     PROVE  mw[JobIdPart] = JobOf(task.content) /\ task.pool = JobOf(task.content)
          BY Zenon
        <5>1. g_new_stratum
          BY <4>1 DEF StoppedMeansDrained
        <5>2. mw[StaticPart] \in Jobs /\ \A p \in Parts : mw[p] = mw[StaticPart]
          BY <5>1 DEF UploadInv, MinedJob
        <5>3. JobOf(task.content) = mw[StaticPart] /\ mw[StaticPart] # NoJob
          BY <4>1, <5>2, JobOfUniform DEF TypeOK
        <5>4. PoolOf(task)
          BY <4>1, TailPool DEF TypeOK, PoolKnown
        <5>5. task.content[StaticPart] # NoJob
          BY <4>1, <5>3, PartsType DEF Content
        <5> QED
          BY <5>2, <5>3, <5>4, <5>5, PartsType DEF PoolOf
      <4> HIDE DEF share
      <4>3. \A i \in DOMAIN ret_buf' : ret_buf'[i] = share \/ (i \in DOMAIN ret_buf /\ ret_buf'[i] = ret_buf[i])
        BY <4>1
      <4> QED
        BY <4>2, <4>3 DEF ShareMatchesJob
    <3> QED
      BY <3>1, <3>2
  <2>2. ASSUME UNCHANGED ret_buf
        PROVE  ShareMatchesJob'
    BY <2>2 DEF ShareMatchesJob
  <2>3. DecodePkg => UNCHANGED ret_buf
    BY DEF DecodePkg, Detect, Static, Part, SetRefused, Set, Polling, OtherPkg, Test, ring
  <2>4. BadCrc \/ NoMorePkg \/ PowerOff \/ CarryOn \/ GenWork \/ TxFull \/ SendWork \/ NoResult
        => UNCHANGED ret_buf
    BY DEF BadCrc, NoMorePkg, PowerOff, CarryOn, GenWork, TxFull, SendWork, NoResult, ring
  <2>5. (\E m \in Miners : Dispatch(m) \/ Report(m) \/ TaskTimeout(m)) \/ Second \/ Weather \/ HostDies
        => UNCHANGED ret_buf
    BY DEF Dispatch, Report, TaskTimeout, Second, Weather, HostDies, Hardware, ring
  <2>6. UNCHANGED vars => UNCHANGED ret_buf
    BY DEF vars, ring
  <2> QED
    BY <2>1, <2>2, <2>3, <2>4, <2>5, <2>6 DEF Next, MainStep
<1> QED
  BY <1>1, <1>2, TypeCorrect, Drained, MinesOneJob, PoolsKnown, PTL DEF Spec

-----------------------------------------------------------------------------
RingFacts == INSTANCE RingWindowProofs WITH Size <- RetSize, Items <- Share

(* Window and Successor are the same operators in both instances, and Advance is the
   latter. *)
LEMMA SameRing ==
  /\ \A buf, p, c : Ring!Window(buf, p, c) = RingFacts!Window(buf, p, c)
  /\ \A i : Advance(i) = RingFacts!Successor(i)
BY DEF Ring!Window, RingFacts!Window, RingFacts!Successor, Advance

(* What lies between the indices, in a state and in the next. *)
LEMMA WaitingIs ==
  /\ Waiting = RingFacts!Window(ret_buf, ret_produce, ret_consume)
  /\ Waiting' = RingFacts!Window(ret_buf', ret_produce', ret_consume')
<1>1. Waiting = RingFacts!Window(ret_buf, ret_produce, ret_consume)
  BY SameRing DEF Waiting
<1>2. Waiting' = RingFacts!Window(ret_buf', ret_produce', ret_consume')
  BY SameRing DEF Waiting
<1> QED
  BY <1>1, <1>2

(* The shares that wait change where the ring does. *)
LEMMA WaitingKept ==
  ASSUME UNCHANGED ring
  PROVE  UNCHANGED Waiting
BY WaitingIs DEF ring

(* A poll takes the oldest share or none. *)
LEMMA PollTakes ==
  ASSUME TypeOK, NEW volt, Polling(volt)
  PROVE  UNCHANGED Waiting \/ (Waiting # <<>> /\ Waiting' = Tail(Waiting))
<1>1. UNCHANGED <<ret_buf, ret_produce>>
  BY Zenon DEF Polling
<1>2. CASE UNCHANGED ret_consume
  BY <1>1, <1>2, WaitingKept DEF ring
<1>3. CASE ret_consume # ret_produce /\ ret_consume' = Advance(ret_consume)
  BY <1>1, <1>3, WaitingIs, SameRing, RingAssumption, RingFacts!WindowGet DEF TypeOK
<1> QED
  BY <1>2, <1>3, Zenon DEF Polling

(* A result above the target is stored behind the others, or loses all of them. *)
LEMMA ResultStored ==
  ASSUME TypeOK, TypeOK', ReadResult("DIFF")
  PROVE  /\ ret_buf'[ret_produce] \in Share
         /\ Waiting' = IF Len(Waiting) + 1 = RetSize THEN <<>>
                       ELSE Append(Waiting, ret_buf'[ret_produce])
<1> DEFINE share == ret_buf'[ret_produce]
<1>1. /\ ret_buf' = [ret_buf EXCEPT ![ret_produce] = share]
      /\ ret_produce' = Advance(ret_produce) /\ UNCHANGED ret_consume
  BY DEF ReadResult, TypeOK
<1>2. share \in Share
  BY DEF TypeOK
<1> HIDE DEF share
<1>3. /\ ret_buf \in [0 .. RetSize - 1 -> Share]
      /\ ret_produce \in 0 .. RetSize - 1 /\ ret_consume \in 0 .. RetSize - 1
  BY DEF TypeOK
<1>4. Waiting' = RingFacts!Window([ret_buf EXCEPT ![ret_produce] = share],
                                   RingFacts!Successor(ret_produce), ret_consume)
  BY <1>1, WaitingIs, SameRing
<1>5. Waiting' = IF Len(Waiting) + 1 = RetSize THEN <<>> ELSE Append(Waiting, share)
  BY <1>2, <1>3, <1>4, WaitingIs, RingAssumption, RingFacts!WindowPut
<1> QED
  BY <1>2, <1>5 DEF share

(* Nothing else touches the ring. *)
LEMMA RingSteps ==
  ASSUME [Next]_vars
  PROVE  UNCHANGED ring \/ ReadResult("DIFF") \/ \E volt \in BOOLEAN : Polling(volt)
<1>1. DecodePkg => UNCHANGED ring \/ \E volt \in BOOLEAN : Polling(volt)
  BY DEF DecodePkg, Detect, Static, Part, SetRefused, Set, OtherPkg, Test
<1>2. BadCrc \/ NoMorePkg \/ PowerOff \/ CarryOn \/ GenWork \/ TxFull \/ SendWork \/ NoResult
      => UNCHANGED ring
  BY DEF BadCrc, NoMorePkg, PowerOff, CarryOn, GenWork, TxFull, SendWork, NoResult
<1>3. (\E m \in Miners : Dispatch(m) \/ Report(m) \/ TaskTimeout(m)) \/ Second \/ Weather \/ HostDies
      \/ UNCHANGED vars
      => UNCHANGED ring
  BY DEF Dispatch, Report, TaskTimeout, Second, Weather, HostDies, Hardware, vars
<1>4. ReadResult("HW") \/ ReadResult("VALID") => UNCHANGED ring
  BY DEF ReadResult, ring
<1> QED
  BY <1>1, <1>2, <1>3, <1>4 DEF Next, MainStep

(* The result ring implements LossyRing: shares are polled in order, each once, and
   all that wait are lost exactly when the ring fills. *)
THEOREM RingRefines == Spec => RingIsQueue
<1>1. Init => ResultRing!Init
  BY RingAssumption, RingFacts!RingLength DEF Init, ResultRing!Init, Waiting, Ring!Window
<1>2. TypeOK /\ TypeOK' /\ [Next]_vars => [ResultRing!Next]_Waiting
  <2> SUFFICES ASSUME TypeOK, TypeOK', [Next]_vars
               PROVE  ResultRing!Next \/ UNCHANGED Waiting
    OBVIOUS
  <2>1. CASE UNCHANGED ring
    BY <2>1, WaitingKept
  <2>2. CASE ReadResult("DIFF")
    BY <2>2, ResultStored DEF ResultRing!Next, ResultRing!Put
  <2>3. ASSUME NEW volt \in BOOLEAN, Polling(volt)
        PROVE  ResultRing!Next \/ UNCHANGED Waiting
    BY <2>3, PollTakes DEF ResultRing!Next, ResultRing!Get
  <2> QED
    BY <2>1, <2>2, <2>3, RingSteps
<1> QED
  BY <1>1, <1>2, TypeCorrect, PTL DEF Spec, RingIsQueue, ResultRing!Spec

-----------------------------------------------------------------------------
(* The service. *)

Tagged(s) == [i \in DOMAIN s |-> SharedBy(s[i])]

(* Tagging the shares of a queue commutes with what happens to the queue. *)
LEMMA TagsFollow ==
  ASSUME NEW s \in Seq(Share)
  PROVE  /\ Len(Tagged(s)) = Len(s) /\ (s = <<>> <=> Tagged(s) = <<>>)
         /\ \A v \in Share : Tagged(Append(s, v)) = Append(Tagged(s), SharedBy(v))
         /\ s # <<>> => Tagged(Tail(s)) = Tail(Tagged(s))
BY DEF Tagged

(* A package of the upload can be damaged only if there was an upload. *)
DamagedUpload == damaged => Jobs # {}

(* It stays so. *)
LEMMA DamageHasJob == Spec => []DamagedUpload
<1>1. Init => DamagedUpload
  BY DEF Init, DamagedUpload
<1>2. UploadInv /\ DamagedUpload /\ [Next]_vars => DamagedUpload'
  <2> SUFFICES ASSUME UploadInv, damaged => Jobs # {}, [Next]_vars
               PROVE  damaged' => Jobs # {}
    BY DEF DamagedUpload
  <2>1. CASE BadCrc
    <3>1. CASE \E j \in Jobs : upJob' = j
      BY <3>1
    <3>2. CASE upPos \in 1 .. NParts - 1
      <4>1. upPos # 0
        BY <3>2
      <4>2. upJob \in Jobs
        BY <4>1, Zenon DEF UploadInv, UploadStops
      <4> QED
        BY <4>2
    <3>3. CASE UNCHANGED damaged
      BY <3>3
    <3> QED
      BY <2>1, <3>1, <3>2, <3>3 DEF BadCrc
  <2>2. CASE \E j \in Jobs : Static(j)
    BY <2>2 DEF Static
  <2>3. CASE UNCHANGED damaged
    BY <2>3
  <2>4. DecodePkg => UNCHANGED damaged \/ \E j \in Jobs : Static(j)
    BY DEF DecodePkg, Detect, Part, SetRefused, Set, Polling, OtherPkg, Test, upload
  <2>5. MainStep => UNCHANGED damaged
    BY DEF MainStep, NoMorePkg, PowerOff, CarryOn, GenWork, TxFull, SendWork, NoResult,
           ReadResult, upload
  <2>6. (\E m \in Miners : Dispatch(m) \/ Report(m) \/ TaskTimeout(m)) \/ Second \/ Weather \/ HostDies
        \/ UNCHANGED vars
        => UNCHANGED damaged
    BY DEF Dispatch, Report, TaskTimeout, Second, Weather, HostDies, Hardware, vars, upload
  <2> QED
    BY <2>1, <2>2, <2>3, <2>4, <2>5, <2>6 DEF Next
<1> QED
  BY <1>1, <1>2, MinesOneJob, PTL DEF Spec

(* What is mined does not change while the module goes on and the upload rests. *)
LEMMA MinedKept ==
  ASSUME UNCHANGED <<g_new_stratum, damaged, mw>>
  PROVE  UNCHANGED Mined
BY DEF Mined

(* What is mined changes by a stop, by a start that follows a stop, and by damage. *)
LEMMA MinedSteps ==
  ASSUME TypeOK, UploadInv, [Next]_vars
  PROVE  \/ UNCHANGED Mined \/ Mined' = {} \/ Mined' = Jobs
         \/ Mined = {} /\ \E j \in Jobs : Mined' = {j}
<1>1. CASE Detect \/ (\E j \in Jobs : Static(j)) \/ PowerOff
  <2>1. ~g_new_stratum'
    BY <1>1, Zenon DEF Detect, Static, PowerOff, StopMining
  <2> QED
    BY <2>1 DEF Mined
<1>2. CASE Part
  <2>1. /\ UNCHANGED <<g_new_stratum, damaged>> /\ upPos # 0
    BY <1>2 DEF Part, PartsType
  <2>2. ~g_new_stratum \/ damaged
    BY <2>1 DEF UploadInv, UploadStops
  <2> QED
    BY <2>1, <2>2 DEF Mined
<1>3. CASE Set
  <2>1. /\ g_new_stratum' /\ UNCHANGED <<mw, damaged>> /\ upPos = NParts
    BY <1>3 DEF Set
  <2>2. CASE damaged
    BY <2>1, <2>2 DEF Mined
  <2>3. CASE ~damaged
    <3>1. ~g_new_stratum /\ upJob \in Jobs /\ mw[JobIdPart] = upJob
      BY <2>1, <2>3, PartAssumption DEF UploadInv, UploadStops, PartsOfUpload, NParts, JobIdPart
    <3> QED
      BY <2>1, <2>3, <3>1 DEF Mined
  <2> QED
    BY <2>2, <2>3
<1>4. CASE BadCrc
  <2>1. UNCHANGED <<g_new_stratum, mw>> /\ (damaged' \/ UNCHANGED damaged)
    BY <1>4 DEF BadCrc
  <2> QED
    BY <2>1 DEF Mined
<1>5. CASE SetRefused \/ OtherPkg \/ Test \/ \E volt \in BOOLEAN : Polling(volt)
  <2>1. UNCHANGED <<g_new_stratum, damaged, mw>>
    BY <1>5, Zenon DEF SetRefused, OtherPkg, Test, Polling, upload
  <2> QED
    BY <2>1, MinedKept
<1>6. CASE \/ NoMorePkg \/ CarryOn \/ GenWork \/ TxFull \/ SendWork \/ NoResult
           \/ \E verdict \in {"HW", "VALID", "DIFF"} : ReadResult(verdict)
  <2>1. UNCHANGED <<g_new_stratum, damaged, mw>>
    BY <1>6 DEF NoMorePkg, CarryOn, GenWork, TxFull, SendWork, NoResult, ReadResult, upload
  <2> QED
    BY <2>1, MinedKept
<1>7. CASE (\E m \in Miners : Dispatch(m) \/ Report(m) \/ TaskTimeout(m)) \/ Second \/ Weather
           \/ HostDies \/ UNCHANGED vars
  <2>1. UNCHANGED <<g_new_stratum, damaged, mw>>
    BY <1>7 DEF Dispatch, Report, TaskTimeout, Second, Weather, HostDies, Hardware, vars, upload
  <2> QED
    BY <2>1, MinedKept
<1> QED
  BY <1>1, <1>2, <1>3, <1>4, <1>5, <1>6, <1>7 DEF Next, DecodePkg, MainStep

(* The module is the service its host sees: it mines one job at a time and starts one only
   when stopped, and each share is for the job mined when it was found. *)
THEOREM ServiceRefined == Spec => MinesForHost
<1> DEFINE S == [i \in DOMAIN Waiting |-> SharedBy(Waiting[i])]
<1>1. Init => Service!Init
  <2> SUFFICES ASSUME Init
               PROVE  Mined = {} /\ S = <<>>
    BY DEF Service!Init, Service!Queue!Init
  <2>1. Waiting = <<>>
    BY RingAssumption, RingFacts!RingLength DEF Init, Waiting, Ring!Window
  <2> QED
    BY <2>1 DEF Init, Mined
<1>2. /\ TypeOK /\ TypeOK' /\ StoppedMeansDrained /\ UploadInv /\ ShareMatchesJob'
      /\ DamagedUpload /\ [Next]_vars
      => [Service!Next]_<<Mined, S>>
  <2> SUFFICES ASSUME TypeOK, TypeOK', StoppedMeansDrained, UploadInv, ShareMatchesJob',
                      DamagedUpload, [Next]_vars
               PROVE  Service!Next \/ (Mined' = Mined /\ S' = S)
    OBVIOUS
  <2>1. S = Tagged(Waiting) /\ S' = Tagged(Waiting') /\ Waiting \in Seq(Share) /\ Waiting' \in Seq(Share)
    BY WaitingIs, RingAssumption, RingFacts!WindowSeq DEF Tagged, TypeOK
  <2> HIDE DEF S
  <2>2. CASE UNCHANGED ring
    <3>1. S' = S
      BY <2>1, <2>2, WaitingKept
    <3> QED
      BY <3>1, MinedSteps DEF Service!Next, Service!Start, Service!Stop, Service!Spoil, S
  <2>3. CASE ReadResult("DIFF")
    <3> DEFINE share == ret_buf'[ret_produce]
    <3>1. UNCHANGED <<g_new_stratum, damaged, mw>> /\ g_new_stratum
      BY <2>3 DEF ReadResult, upload, StoppedMeansDrained
    <3>2. share \in Share /\ ret_produce \in DOMAIN ret_buf'
          /\ share.job = mw[JobIdPart] /\ share.clean = ~damaged
      BY <2>3, ResultStored DEF ReadResult, TypeOK
    <3>3. SharedBy(share) = Mined /\ Mined # {}
      <4>1. CASE damaged
        BY <3>1, <3>2, <4>1 DEF SharedBy, Mined, DamagedUpload
      <4>2. CASE ~damaged
        <5>1. share.job = share.work /\ share.pool = share.work
          BY <3>2, <4>2 DEF ShareMatchesJob
        <5> QED
          BY <3>1, <3>2, <4>2, <5>1 DEF SharedBy, Mined
      <4> QED
        BY <4>1, <4>2
    <3>4. Mined' = Mined
      BY <3>1, MinedKept
    <3> HIDE DEF share
    <3>5. S' = IF Len(S) + 1 = RetSize THEN <<>> ELSE Append(S, Mined)
      BY <2>1, <2>3, <3>2, <3>3, ResultStored, TagsFollow DEF share
    <3> QED
      BY <3>3, <3>4, <3>5 DEF Service!Next, Service!Find, Service!Queue!Put, S
  <2>4. ASSUME NEW volt \in BOOLEAN, Polling(volt)
        PROVE  Service!Next \/ (Mined' = Mined /\ S' = S)
    <3>1. Mined' = Mined
      <4>1. UNCHANGED <<g_new_stratum, damaged, mw>>
        BY <2>4, Zenon DEF Polling, upload
      <4> QED
        BY <4>1, MinedKept
    <3>2. S' = S \/ (S # <<>> /\ S' = Tail(S))
      BY <2>1, <2>4, PollTakes, TagsFollow
    <3> QED
      BY <3>1, <3>2 DEF Service!Next, Service!Fetch, Service!Queue!Get, S
  <2> QED
    BY <2>2, <2>3, <2>4, RingSteps
<1> QED
  BY <1>1, <1>2, TypeCorrect, Drained, MinesOneJob, SharesMatch, DamageHasJob, PTL
     DEF Spec, MinesForHost, Service!Spec
-----------------------------------------------------------------------------
(* The values of nonce2 a module searches in a session follow each other from the first of its
   partition: none is searched twice, and they stay in the partition while they are few. *)

PartitionSize == Nonce2Range \div Modules
First == Nonce2Offset + PartitionSize * ModuleId

(* The parameters: a partition is smaller than the word. *)
LEMMA PartitionFacts ==
  /\ Word \in Nat /\ Word > 0 /\ PartitionSize \in Nat /\ PartitionSize < Word
  /\ First \in Nat /\ Nonce2Start(ModuleId) = First % Word
<1>1. /\ Modules \in Nat /\ Modules > 0 /\ Nonce2Range \in Nat /\ Nonce2Range < Word
      /\ ModuleId \in Nat /\ Nonce2Offset \in Nat /\ Word \in Nat /\ Word > 0
  BY NonceAssumption
<1>2. PartitionSize \in Nat /\ PartitionSize <= Nonce2Range
  BY <1>1 DEF PartitionSize
<1>3. PartitionSize * ModuleId \in Nat
  BY <1>1, <1>2
<1>4. Nonce2Start(ModuleId) = First % Word
  BY DEF Nonce2Start, First, PartitionSize
<1> QED
  BY <1>1, <1>2, <1>3, <1>4 DEF First

(* A multiple of the word that is less than a word is zero. *)
LEMMA SmallMultiple ==
  ASSUME NEW d \in Int, NEW w \in Nat, w > 0, -w < w * d, w * d < w
  PROVE  d = 0
<1>1. CASE d >= 1
  <2>1. w * d >= w
    BY <1>1
  <2> QED
    BY <2>1
<1>2. CASE d <= -1
  <2>1. w * d <= -w
    BY <1>2
  <2> QED
    BY <2>1
<1> QED
  BY <1>1, <1>2

(* What wraps to a value is that value and whole words. *)
LEMMA Wraps ==
  ASSUME NEW a \in Nat
  PROVE  a % Word \in 0 .. Word - 1 /\ \E q \in Int : a = Word * q + (a % Word)
<1>1. Word \in Nat /\ Word > 0
  BY PartitionFacts
<1>2. a % Word \in 0 .. Word - 1
  BY <1>1
<1>3. a \div Word \in Int /\ a = Word * (a \div Word) + (a % Word)
  BY <1>1
<1> QED
  BY <1>2, <1>3

(* A value and whole words wrap to that value. *)
LEMMA WrapsTo ==
  ASSUME NEW a \in Nat, NEW q \in Int, NEW r \in 0 .. Word - 1, a = Word * q + r
  PROVE  a % Word = r
<1>1. Word \in Nat /\ Word > 0
  BY PartitionFacts
<1>2. PICK p \in Int : a = Word * p + (a % Word)
  BY Wraps
<1> DEFINE t == a % Word
<1>3. t \in 0 .. Word - 1 /\ a = Word * p + t
  BY <1>2, Wraps
<1> HIDE DEF t
<1>4. Word * (q - p) = Word * q - Word * p
  BY <1>1
<1>5. Word * q \in Int /\ Word * p \in Int
  BY <1>1
<1>6. -Word < Word * (q - p) /\ Word * (q - p) < Word
  BY <1>1, <1>3, <1>4, <1>5
<1>7. q - p = 0
  BY <1>1, <1>6, SmallMultiple
<1>8. q = p
  BY <1>7
<1>9. t = r
  BY <1>3, <1>5, <1>8
<1> QED
  BY <1>9 DEF t

(* Adding one to a wrapped value is adding one before it wraps. *)
LEMMA WrapNext ==
  ASSUME NEW a \in Nat
  PROVE  NextNonce2(a % Word) = (a + 1) % Word
<1>1. Word \in Nat /\ Word > 0
  BY PartitionFacts
<1>2. PICK q \in Int : a = Word * q + (a % Word)
  BY Wraps
<1> DEFINE r == a % Word
<1>3. r \in 0 .. Word - 1 /\ a = Word * q + r /\ Word * q \in Int
  BY <1>1, <1>2, Wraps
<1> HIDE DEF r
<1>4. CASE r + 1 < Word
  <2>1. r + 1 \in 0 .. Word - 1 /\ a + 1 = Word * q + (r + 1) /\ a + 1 \in Nat
    BY <1>1, <1>3, <1>4
  <2>2. (a + 1) % Word = r + 1
    BY <2>1, WrapsTo
  <2>3. r + 1 \in Nat /\ 0 * Word = 0 /\ r + 1 = Word * 0 + (r + 1)
    BY <1>1, <2>1
  <2>4. (r + 1) % Word = r + 1
    BY <2>1, <2>3, WrapsTo
  <2> QED
    BY <2>2, <2>4 DEF NextNonce2, r
<1>5. CASE r + 1 = Word
  <2>1. Word * (q + 1) = Word * q + Word
    BY <1>1
  <2>2. 0 \in 0 .. Word - 1 /\ a + 1 = Word * (q + 1) + 0 /\ a + 1 \in Nat /\ q + 1 \in Int
    BY <1>1, <1>3, <1>5, <2>1
  <2>3. (a + 1) % Word = 0
    BY <2>2, WrapsTo
  <2>4. r + 1 \in Nat /\ r + 1 = Word * 1 + 0
    BY <1>1, <1>3, <1>5
  <2>5. (r + 1) % Word = 0
    BY <2>2, <2>4, WrapsTo
  <2> QED
    BY <2>3, <2>5 DEF NextNonce2, r
<1> QED
  BY <1>1, <1>3, <1>4, <1>5

(* Two values less than a word apart differ after they wrapped. *)
LEMMA WrapDistinct ==
  ASSUME NEW a \in Nat, NEW b \in Nat, a < b, b - a < Word
  PROVE  a % Word # b % Word
<1>1. Word \in Nat /\ Word > 0
  BY PartitionFacts
<1> SUFFICES ASSUME a % Word = b % Word
             PROVE  FALSE
  OBVIOUS
<1>2. PICK p \in Int : a = Word * p + (a % Word)
  BY Wraps
<1>3. PICK q \in Int : b = Word * q + (b % Word)
  BY Wraps
<1> DEFINE r == a % Word
<1>4. r \in 0 .. Word - 1 /\ a = Word * p + r /\ b = Word * q + r
  BY <1>2, <1>3, Wraps
<1> HIDE DEF r
<1>5. Word * (q - p) = Word * q - Word * p /\ Word * q \in Int /\ Word * p \in Int
  BY <1>1
<1>6. -Word < Word * (q - p) /\ Word * (q - p) < Word
  BY <1>1, <1>4, <1>5
<1>7. q - p = 0
  BY <1>1, <1>6, SmallMultiple
<1>8. q = p
  BY <1>7
<1> QED
  BY <1>4, <1>5, <1>8

-----------------------------------------------------------------------------
(* The values sent in a session follow each other from the first of the partition, c of
   them counted with the first o skipped: o is 1 when P_SET overtook a work. *)
Sent(o, c) == {(First + i) % Word : i \in o .. c - 1}

Searched(o, c) ==
  /\ o <= c /\ nonce2 = (First + c) % Word /\ issued = Sent(o, c)
  /\ Cardinality(issued) = IF c - o < Word THEN c - o ELSE Word

InHand == pc \in {"window", "send"}

Nonce2Inv ==
  /\ work.session \in Nat /\ work.session <= session
  /\ g_new_stratum => session > 0
  /\ InHand /\ work.session = session => work.nonce2 = nonce2
  /\ session = 0 => issued = {}
  /\ session > 0 => \E o \in {0, 1}, c \in Nat :
                      Searched(o, c) /\ (InHand /\ work.session # session => c = 0)

(* There are Word values. *)
LEMMA WordFinite == IsFiniteSet(0 .. Word - 1) /\ Cardinality(0 .. Word - 1) = Word
<1>1. Word \in Nat /\ Word > 0 /\ 0 \in Int /\ Word - 1 \in Int
  BY PartitionFacts
<1>2. /\ IsFiniteSet(0 .. Word - 1)
      /\ Cardinality(0 .. Word - 1) = IF 0 > Word - 1 THEN 0 ELSE (Word - 1) - 0 + 1
  BY <1>1, FS_Interval
<1> QED
  BY <1>1, <1>2

(* The value that follows those sent is new, unless all have been sent. *)
LEMMA FollowsNew ==
  ASSUME TypeOK, NEW o \in {0, 1}, NEW c \in Nat, Searched(o, c)
  PROVE  IF c - o < Word THEN nonce2 \notin issued ELSE nonce2 \in issued
<1>1. Word \in Nat /\ Word > 0 /\ First \in Nat
  BY PartitionFacts
<1>2. CASE c - o < Word
  <2> SUFFICES ASSUME nonce2 \in issued
               PROVE  FALSE
    BY <1>2
  <2>1. PICK i \in o .. c - 1 : nonce2 = (First + i) % Word
    BY DEF Searched, Sent
  <2>2. /\ First + i \in Nat /\ First + c \in Nat /\ First + i < First + c
        /\ (First + c) - (First + i) < Word
    BY <1>1, <1>2, <2>1
  <2>3. (First + i) % Word # (First + c) % Word
    BY <2>2, WrapDistinct
  <2> QED
    BY <2>1, <2>3 DEF Searched
<1>3. CASE ~(c - o < Word)
  <2>1. Cardinality(issued) = Word
    BY <1>3 DEF Searched
  <2>2. IsFiniteSet(0 .. Word - 1) /\ Cardinality(0 .. Word - 1) = Word
    BY WordFinite
  <2>3. issued \in SUBSET (0 .. Word - 1) /\ nonce2 \in 0 .. Word - 1
    BY DEF TypeOK
  <2>4. issued = 0 .. Word - 1
    BY <2>1, <2>2, <2>3, FS_Subset
  <2> QED
    BY <1>3, <2>3, <2>4
<1> QED
  BY <1>2, <1>3

(* Sending the work in hand continues the row. *)
LEMMA RowGrows ==
  ASSUME TypeOK, NEW o \in {0, 1}, NEW c \in Nat, Searched(o, c),
         nonce2' = NextNonce2(nonce2), issued' = issued \cup {nonce2}
  PROVE  Searched(o, c + 1)'
<1>1. Word \in Nat /\ Word > 0 /\ First \in Nat
  BY PartitionFacts
<1>2. o <= c /\ nonce2 = (First + c) % Word /\ issued = Sent(o, c)
  BY DEF Searched
<1>3. nonce2' = (First + (c + 1)) % Word
  <2>1. First + c \in Nat /\ (First + c) + 1 = First + (c + 1)
    BY <1>1
  <2> QED
    BY <1>2, <2>1, WrapNext
<1>4. issued' = Sent(o, c + 1)
  <2>1. o .. (c + 1) - 1 = (o .. c - 1) \cup {c}
    BY <1>2
  <2> QED
    BY <1>2, <2>1 DEF Sent
<1>5. Cardinality(issued') = IF (c + 1) - o < Word THEN (c + 1) - o ELSE Word
  <2>1. IsFiniteSet(issued)
    <3>1. issued \in SUBSET (0 .. Word - 1) /\ IsFiniteSet(0 .. Word - 1)
      BY WordFinite DEF TypeOK
    <3> QED
      BY <3>1, FS_Subset
  <2>2. Cardinality(issued') = IF nonce2 \in issued THEN Cardinality(issued) ELSE Cardinality(issued) + 1
    BY <2>1, FS_AddElement
  <2>3. Cardinality(issued) = IF c - o < Word THEN c - o ELSE Word
    BY DEF Searched
  <2>4. IF c - o < Word THEN nonce2 \notin issued ELSE nonce2 \in issued
    BY FollowsNew
  <2>5. CASE c - o < Word
    BY <1>1, <2>2, <2>3, <2>4, <2>5
  <2>6. CASE ~(c - o < Word)
    BY <1>1, <2>2, <2>3, <2>4, <2>6
  <2> QED
    BY <2>5, <2>6
<1>6. o <= c + 1
  BY <1>2
<1> QED
  BY <1>3, <1>4, <1>5, <1>6 DEF Searched

(* An empty row, whether none or the first value was skipped. *)
LEMMA RowStarts ==
  ASSUME NEW o \in {0, 1}, nonce2' = (First + o) % Word, issued' = {}
  PROVE  Searched(o, o)'
<1>1. Word \in Nat /\ Word > 0
  BY PartitionFacts
<1>2. Sent(o, o) = {}
  BY DEF Sent
<1>3. Cardinality({}) = 0 /\ o - o = 0 /\ o <= o
  BY FS_EmptySet
<1> QED
  BY <1>1, <1>2, <1>3 DEF Searched

(* What sends nothing and starts no session keeps the row. *)
LEMMA Nonce2Frame ==
  ASSUME Nonce2Inv, UNCHANGED <<nonce2, issued, session, work>>,
         g_new_stratum' => g_new_stratum, InHand' => InHand
  PROVE  Nonce2Inv'
<1>1. \A o, c : Searched(o, c)' <=> Searched(o, c)
  BY DEF Searched
<1> QED
  BY <1>1 DEF Nonce2Inv

(* Each step keeps the row. *)
LEMMA Nonce2Step ==
  ASSUME TypeOK, StoppedMeansDrained, Nonce2Inv, [Next]_vars
  PROVE  Nonce2Inv'
<1>1. CASE Detect
  BY <1>1, Nonce2Frame DEF Detect, Receive, StopMining, history, InHand
<1>2. CASE \E j \in Jobs : Static(j)
  BY <1>2, Nonce2Frame DEF Static, Receive, StopMining, history, InHand
<1>3. CASE Part
  BY <1>3, Nonce2Frame DEF Part, Receive, history, InHand
<1>4. CASE SetRefused
  BY <1>4, Nonce2Frame DEF SetRefused, Receive, history, InHand
<1>5. CASE Set
  <2>1. /\ nonce2' = Nonce2Start(ModuleId) /\ issued' = {} /\ session' = session + 1
        /\ UNCHANGED work
    BY <1>5 DEF Set, Receive
  <2>2. work'.session \in Nat /\ work'.session < session' /\ session' > 0
    BY <2>1 DEF Nonce2Inv, TypeOK
  <2>3. Searched(0, 0)'
    <3>1. First + 0 = First /\ nonce2' = (First + 0) % Word
      BY <2>1, PartitionFacts
    <3> QED
      BY <2>1, <3>1, RowStarts
  <2> QED
    BY <2>1, <2>2, <2>3 DEF Nonce2Inv
<1>6. CASE \E volt \in BOOLEAN : Polling(volt)
  BY <1>6, Nonce2Frame DEF Polling, Receive, history, InHand
<1>7. CASE OtherPkg
  BY <1>7, Nonce2Frame DEF OtherPkg, Receive, history, InHand
<1>8. CASE Test
  BY <1>8, Nonce2Frame DEF Test, Receive, history, InHand
<1>9. CASE BadCrc
  BY <1>9, Nonce2Frame DEF BadCrc, PkgSites, AfterPkg, StillMining, history, InHand
<1>10. CASE NoMorePkg
  BY <1>10, Nonce2Frame DEF NoMorePkg, PkgSites, AfterPkg, StillMining, history, InHand
<1>11. CASE PowerOff
  BY <1>11, Nonce2Frame DEF PowerOff, StopMining, history, InHand
<1>12. CASE CarryOn
  BY <1>12, Nonce2Frame DEF CarryOn, StillMining, history, InHand
<1>13. CASE GenWork
  <2>1. /\ UNCHANGED <<g_new_stratum, nonce2, issued, session>>
        /\ work'.session = session /\ work'.nonce2 = nonce2
    BY <1>13 DEF GenWork, history
  <2>2. \A o, c : Searched(o, c)' <=> Searched(o, c)
    BY <2>1 DEF Searched
  <2>3. session \in Nat
    BY DEF TypeOK
  <2> QED
    BY <2>1, <2>2, <2>3 DEF Nonce2Inv
<1>14. CASE TxFull
  BY <1>14, Nonce2Frame DEF TxFull, history, InHand
<1>15. CASE SendWork
  <2>1. /\ pc = "send" /\ pc' = "read" /\ nonce2' = NextNonce2(nonce2) /\ work' = NoWork
        /\ issued' = IF work.session = session THEN issued \cup {work.nonce2} ELSE issued
        /\ UNCHANGED <<g_new_stratum, session>>
    BY <1>15 DEF SendWork
  <2>2. session \in Nat /\ session > 0 /\ InHand /\ ~InHand'
    BY <2>1 DEF StoppedMeansDrained, Nonce2Inv, TypeOK, InHand
  <2>3. work'.session = 0
    BY <2>1 DEF NoWork
  <2>4. PICK o \in {0, 1}, c \in Nat : Searched(o, c) /\ (work.session # session => c = 0)
    BY <2>2 DEF Nonce2Inv
  <2>5. CASE work.session = session
    <3>1. issued' = issued \cup {nonce2}
      BY <2>1, <2>2, <2>5 DEF Nonce2Inv
    <3>2. Searched(o, c + 1)' /\ c + 1 \in Nat
      BY <2>1, <2>4, <3>1, RowGrows
    <3> QED
      BY <2>1, <2>2, <2>3, <3>2 DEF Nonce2Inv
  <2>6. CASE work.session # session
    <3>1. c = 0 /\ o = 0
      BY <2>4, <2>6 DEF Searched
    <3>2. issued = {} /\ nonce2 = (First + 0) % Word
      BY <2>4, <3>1 DEF Searched, Sent
    <3>3. nonce2' = (First + 1) % Word
      <4>1. First \in Nat /\ First + 0 = First
        BY PartitionFacts
      <4> QED
        BY <2>1, <3>2, <4>1, WrapNext
    <3>4. Searched(1, 1)'
      BY <2>1, <2>6, <3>2, <3>3, RowStarts
    <3> QED
      BY <2>1, <2>2, <2>3, <3>4 DEF Nonce2Inv
  <2> QED
    BY <2>5, <2>6
<1>16. CASE NoResult
  BY <1>16, Nonce2Frame DEF NoResult, history, InHand
<1>17. CASE \E verdict \in {"HW", "VALID", "DIFF"} : ReadResult(verdict)
  BY <1>17, Nonce2Frame DEF ReadResult, history, InHand
<1>18. CASE \E m \in Miners : Dispatch(m) \/ Report(m) \/ TaskTimeout(m)
  BY <1>18, Nonce2Frame DEF Dispatch, Report, TaskTimeout, Hardware, history, InHand
<1>19. CASE Second \/ Weather \/ HostDies
  BY <1>19, Nonce2Frame DEF Second, Weather, HostDies, Hardware, history, InHand
<1>20. CASE UNCHANGED vars
  BY <1>20, Nonce2Frame DEF vars, history, InHand
<1> QED
  BY <1>1, <1>2, <1>3, <1>4, <1>5, <1>6, <1>7, <1>8, <1>9, <1>10, <1>11, <1>12, <1>13,
     <1>14, <1>15, <1>16, <1>17, <1>18, <1>19, <1>20
     DEF Next, DecodePkg, MainStep

(* The inductive invariant of nonce2. *)
LEMMA RowAlways == Spec => []Nonce2Inv
<1>1. Init => Nonce2Inv
  BY DEF Init, Nonce2Inv, InHand, NoWork
<1>2. TypeOK /\ StoppedMeansDrained /\ Nonce2Inv /\ [Next]_vars => Nonce2Inv'
  BY Nonce2Step
<1> QED
  BY <1>1, <1>2, TypeCorrect, Drained, PTL DEF Spec

-----------------------------------------------------------------------------
(* No nonce2 is searched twice in a session before all values of the word were, although a
   P_SET may come between the generation of a work and its sending. *)
THEOREM NeverTwice == Spec => []Nonce2Fresh
<1>1. TypeOK /\ StoppedMeansDrained /\ Nonce2Inv => Nonce2Fresh
  <2> SUFFICES ASSUME TypeOK, StoppedMeansDrained, Nonce2Inv, pc = "send",
                      work.session = session, Cardinality(issued) < Word
               PROVE  work.nonce2 \notin issued
    BY DEF Nonce2Fresh
  <2>1. session > 0 /\ work.nonce2 = nonce2 /\ Word \in Nat
    BY PartitionFacts DEF StoppedMeansDrained, Nonce2Inv, InHand
  <2>2. PICK o \in {0, 1}, c \in Nat : Searched(o, c)
    BY <2>1 DEF Nonce2Inv
  <2>3. c - o < Word
    BY <2>1, <2>2 DEF Searched
  <2> QED
    BY <2>1, <2>2, <2>3, FollowsNew
<1> QED
  BY <1>1, RowAlways, TypeCorrect, Drained, PTL

(* A module stays in its own partition of nonce2 while it has sent fewer works than the
   partition has values, even when one of them went to a work of the session before. *)
THEOREM StaysInPartition == Spec => []OwnPartition
<1>1. TypeOK /\ Nonce2Inv => OwnPartition
  <2> SUFFICES ASSUME TypeOK, Nonce2Inv, Cardinality(issued) < PartitionSize, NEW n \in issued
               PROVE  n \in Partition(ModuleId)
    BY DEF OwnPartition, PartitionSize
  <2>1. Word \in Nat /\ PartitionSize \in Nat /\ PartitionSize < Word /\ First \in Nat
    BY PartitionFacts
  <2>2. session > 0
    BY DEF Nonce2Inv, TypeOK
  <2>3. PICK o \in {0, 1}, c \in Nat : Searched(o, c)
    BY <2>2 DEF Nonce2Inv
  <2>4. c - o < PartitionSize
    BY <2>1, <2>3 DEF Searched
  <2>5. PICK k \in o .. c - 1 : n = (First + k) % Word
    BY <2>3 DEF Searched, Sent
  <2>6. k \in 0 .. PartitionSize - 1
    BY <2>1, <2>4, <2>5
  <2>7. First = Nonce2Offset + ModuleId * PartitionSize
    <3>1. PartitionSize * ModuleId = ModuleId * PartitionSize
      BY <2>1, NonceAssumption
    <3> QED
      BY <3>1 DEF First
  <2>8. n \in 0 .. Word - 1
    BY DEF TypeOK
  <2> QED
    BY <2>5, <2>6, <2>7, <2>8 DEF Partition, PartitionSize
<1> QED
  BY <1>1, RowAlways, TypeCorrect, PTL

(* The partitions of two modules of the chain share no value, although the host's offset
   may make them wrap: with StaysInPartition, two modules never search the same nonce2. *)
THEOREM PartitionsDisjoint ==
  ASSUME NEW a \in 0 .. Modules - 1, NEW b \in 0 .. Modules - 1, a < b
  PROVE  Partition(a) \cap Partition(b) = {}
<1> DEFINE R == PartitionSize
<1>1. /\ R \in Nat /\ Word \in Nat /\ Nonce2Offset \in Nat /\ Modules \in Nat /\ Modules > 0
      /\ Nonce2Range \in Nat /\ Nonce2Range < Word
  BY PartitionFacts, NonceAssumption
<1>2. Modules * R <= Nonce2Range
  BY <1>1 DEF PartitionSize
<1> SUFFICES ASSUME NEW n \in Partition(a), n \in Partition(b)
             PROVE  FALSE
  OBVIOUS
<1>3. PICK k \in 0 .. R - 1 : n = (Nonce2Offset + a * R + k) % Word
  BY DEF Partition, PartitionSize
<1>4. PICK l \in 0 .. R - 1 : n = (Nonce2Offset + b * R + l) % Word
  BY DEF Partition, PartitionSize
<1> HIDE DEF R
<1>5. a * R \in Nat /\ b * R \in Nat
  BY <1>1
<1>6. b * R >= a * R + R
  <2>1. (a + 1) * R = a * R + R
    BY <1>1
  <2>2. (a + 1) * R <= b * R
    BY <1>1
  <2> QED
    BY <1>1, <1>5, <2>1, <2>2
<1>7. b * R + R <= Nonce2Range
  <2>1. (b + 1) * R = b * R + R
    BY <1>1
  <2>2. (b + 1) * R <= Modules * R
    BY <1>1
  <2>3. Modules * R \in Nat /\ (b + 1) * R \in Nat
    BY <1>1
  <2> QED
    BY <1>1, <1>2, <1>5, <2>1, <2>2, <2>3
<1> DEFINE x == Nonce2Offset + a * R + k
           y == Nonce2Offset + b * R + l
<1>8. x \in Nat /\ y \in Nat /\ x < y /\ y - x < Word
  BY <1>1, <1>3, <1>4, <1>5, <1>6, <1>7
<1> HIDE DEF x, y
<1>9. x % Word # y % Word
  BY <1>8, WrapDistinct
<1> QED
  BY <1>3, <1>4, <1>9 DEF x, y
===============================================================================
