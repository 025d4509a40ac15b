------------------------------- MODULE AlinkTest -------------------------------
(***************************************************************************)
(* alink_asic_test() and alink_asic_idle() of firmware/alink.c on top of    *)
(* the controller (Alink).  Both enable one miner at a time by the mask,    *)
(* write a task and wait until it is under way.  In between main() sends    *)
(* works and reads results as in Alink.                                     *)
(*                                                                         *)
(* A polling loop reads its register every clock here: the processor polls  *)
(* far more often than a task takes.  Likewise delay(1), 100000 clocks, is  *)
(* longer than a transmission (27840 clocks) and longer than a test (65535  *)
(* clocks), and all delays of alink_asic_idle() together are shorter than   *)
(* the timeout of its tasks (2^26 - 1).                                     *)
(***************************************************************************)
EXTENDS Alink

CONSTANTS
  TestTout, IdleTout,    \* timeouts asic_test_work() writes
  Delay,                 \* clocks of delay(1)
  Tests,                 \* tests of one miner: ASIC_COUNT times the cores
  MaxWorks               \* bound: works of main() among the tasks

ASSUME TimingAssumption ==
  /\ {TestTout, IdleTout, Delay, Tests} \subseteq Nat \ {0} /\ MaxWorks \in Nat
  /\ {TestTout, IdleTout} \subseteq Touts
  /\ TestTout + 2 < Delay /\ FlushClocks < Delay

VARIABLES
  what, pc,     \* the function that runs and its next access
  i, k,         \* its miner and the test of it
  wait,         \* clocks of delay() that are left
  aim,          \* history: what each task is for
  quiet         \* history: nothing was queued or running at the last call of alink_asic_test()

program == <<what, pc, i, k, wait>>
notes == <<aim, quiet>>
allVars == <<vars, program, notes>>

Mined == [what |-> "mine", miner |-> None, k |-> 0, quiet |-> FALSE]
Nothing == <<>>
Quiet == tx_fifo = <<>> /\ word = 0 /\ \A p \in PHYs : ~reg_busy(p)
Rounds == IF what = "test" THEN Tests ELSE 1

-----------------------------------------------------------------------------
Main ==
  /\ pc = "main" /\ UNCHANGED <<program, quiet>>
  /\ \/ (Tick \/ alink_read_result) /\ UNCHANGED aim
     \/ /\ Cardinality({n \in DOMAIN aim : aim[n] = Mined}) < MaxWorks
        /\ ~InReset /\ rd = 0 /\ \E t \in Touts \ {TestTout, IdleTout} : Send(t)
        /\ aim' = Append(aim, Mined) /\ UNCHANGED rd

(* alink_asic_idle() flushes first, alink_asic_test() only switches to the scan mode. *)
FlushFirst_Never == FALSE
FlushFirst == TRUE

CallIdle ==
  /\ pc = "main" /\ rd = 0 /\ ~InReset /\ tasks + PHY_NUM <= MaxTasks
  /\ Clock(Nothing, FALSE, FlushFirst, reg_mask)
  /\ what' = "idle" /\ pc' = "flush" /\ wait' = Delay /\ i' = 0 /\ k' = 0
  /\ UNCHANGED <<rd, tasks, flushes, notes>>

(* The host may ask for a test while works are queued and mined, or while the idle tasks of
   a power-off still run. *)
CallTest ==
  /\ pc = "main" /\ rd = 0 /\ ~InReset /\ tasks + PHY_NUM * Tests <= MaxTasks
  /\ quiet' = Quiet
  /\ Clock(Nothing, FALSE, FALSE, reg_mask)
  /\ what' = "test" /\ pc' = "mask" /\ i' = 0 /\ k' = 0
  /\ UNCHANGED <<wait, rd, tasks, flushes, aim>>

(* delay(1) *)
Waiting ==
  /\ pc \in {"flush", "delay"} /\ Tick /\ UNCHANGED <<what, i, k, notes>>
  /\ IF wait > 0 THEN wait' = wait - 1 /\ UNCHANGED pc
     ELSE pc' = (IF pc = "flush" THEN "mask" ELSE "look") /\ UNCHANGED wait

(* alink_init(1 << i) *)
Enabled_UpTo(n) == 0 .. n
Enabled(n) == {n}

SetMask ==
  /\ pc = "mask" /\ pc' = "work" /\ Clock(Nothing, FALSE, FALSE, Enabled(i))
  /\ UNCHANGED <<what, i, k, wait, rd, tasks, flushes, notes>>

asic_test_work ==
  /\ pc = "work" /\ pc' = "count" /\ Send(IF what = "test" THEN TestTout ELSE IdleTout)
  /\ aim' = Append(aim, [what |-> what, miner |-> i, k |-> k, quiet |-> quiet])
  /\ UNCHANGED <<what, i, k, wait, rd, quiet>>

PollCount ==
  /\ pc = "count" /\ Tick /\ pc' = (IF tx_fifo # <<>> THEN "busy" ELSE "count")
  /\ UNCHANGED <<what, i, k, wait, notes>>

PollBusy ==
  /\ pc = "busy" /\ Tick
  /\ IF \E p \in PHYs : reg_busy(p) THEN pc' = "delay" /\ wait' = Delay ELSE UNCHANGED <<pc, wait>>
  /\ UNCHANGED <<what, i, k, notes>>

(* The next test, or the next miner, or the end of the loops. *)
Advance ==
  IF k + 1 < Rounds THEN k' = k + 1 /\ pc' = "work" /\ UNCHANGED i
  ELSE k' = 0 /\ IF i + 1 < PHY_NUM THEN i' = i + 1 /\ pc' = "mask" ELSE pc' = "all" /\ UNCHANGED i

(* The test reads one result, if there is one. *)
Look ==
  /\ pc = "look" /\ Tick
  /\ IF what = "test" /\ ~rxempty THEN pc' = "read" /\ UNCHANGED <<i, k>> ELSE Advance
  /\ UNCHANGED <<what, wait, notes>>

ReadResult ==
  /\ pc = "read" /\ alink_read_result
  /\ IF rd' = 0 THEN Advance ELSE UNCHANGED <<pc, i, k>>
  /\ UNCHANGED <<what, wait, notes>>

(* alink_init(MODULE_ENABLE) *)
EnableAll ==
  /\ pc = "all" /\ pc' = "back" /\ Clock(Nothing, FALSE, FALSE, PHYs)
  /\ UNCHANGED <<what, i, k, wait, rd, tasks, flushes, notes>>

Return == pc = "back" /\ pc' = "main" /\ Tick /\ UNCHANGED <<what, i, k, wait, notes>>

Function ==
  \/ Waiting \/ SetMask \/ asic_test_work \/ PollCount \/ PollBusy \/ Look \/ ReadResult
  \/ EnableAll \/ Return

TestInit ==
  /\ Init /\ what = "idle" /\ pc = "main" /\ i = 0 /\ k = 0 /\ wait = 0
  /\ aim = <<>> /\ quiet = FALSE

(* The transmission of a hash and its nonces takes one clock here. *)
Sends == word = TX_TASKID_LEN + 2 => word' = 0

TestNext == (Main \/ CallIdle \/ CallTest \/ Function) /\ Sends

TestSpec == TestInit /\ [][TestNext]_allVars /\ WF_allVars(Function /\ Sends)

-----------------------------------------------------------------------------
(* alink_asic_idle() returns and has given every miner its idle task, whatever was queued,
   selected or running when it was called. *)
GatesAll ==
  /\ [](pc = "back" /\ what = "idle" =>
          \A p \in PHYs : own[p] > tasks - PHY_NUM /\ aim[own[p]].miner = p)
  /\ pc = "flush" ~> pc = "main"

(* alink_asic_test() returns, whatever was queued, selected or running when it was called.
   Called when nothing was, it tests the miner it means, but for the first test of each:
   when it sets the mask the arbiter has already selected the miner before.  Otherwise its
   tests queue behind a busy PHY while the mask moves on, and any may reach another one. *)
OnlyFirstStrays ==
  /\ [](\A p \in PHYs : own[p] > 0 /\ aim[own[p]].what = "test" /\ aim[own[p]].quiet =>
          \/ p = aim[own[p]].miner
          \/ aim[own[p]].k = 0 /\ (aim[own[p]].miner = 0 \/ p = aim[own[p]].miner - 1))
  /\ pc = "mask" /\ what = "test" ~> pc = "main"
===============================================================================
