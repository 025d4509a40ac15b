------------------------------ MODULE TaskDispatch ------------------------------
(***************************************************************************)
(* What the alink controller promises its driver about tasks and reports,   *)
(* and no more.  Tasks are given out in the order they were sent, each to   *)
(* one PHY and only to one that has none; a report carries the task its PHY *)
(* had when it began; a flush leaves nothing.  It may happen in one clock   *)
(* that a task is sent, one is given out, others end, and reports begin and *)
(* end.                                                                    *)
(***************************************************************************)
EXTENDS Sequences

CONSTANTS
  PHYs,
  Tasks,
  None     \* no task

VARIABLES
  queue,   \* the tasks not given out yet
  task,    \* of each PHY: the task it works on
  report   \* of each PHY: the task its report carries, while it is passed on

Nothing == [p \in PHYs |-> None]

Init == queue = <<>> /\ task = Nothing /\ report = Nothing

(* The oldest task goes to PHY p. *)
Give(p) == queue # <<>> /\ task[p] = None /\ task'[p] = Head(queue)

(* A PHY works on, or ends its task. *)
Work(p) == task'[p] \in {task[p], None}

(* A report goes on, ends, or begins with the task of this moment. *)
Report(p) ==
  \/ report'[p] \in {report[p], None}
  \/ report[p] = None /\ task[p] # None /\ report'[p] = task[p]

(* The tasks that were waiting and were not given out, and the one the driver sends. *)
Wait(rest) == queue' = rest \/ \E t \in Tasks : queue' = Append(rest, t)

Step ==
  /\ task' \in [PHYs -> Tasks \cup {None}] /\ report' \in [PHYs -> Tasks \cup {None}]
  /\ \A p \in PHYs : Report(p)
  /\ \/ Wait(queue) /\ \A p \in PHYs : Work(p)
     \/ \E p \in PHYs : Give(p) /\ Wait(Tail(queue)) /\ \A q \in PHYs \ {p} : Work(q)

Flush == queue' = <<>> /\ task' = Nothing /\ report' = Nothing

Spec == Init /\ [][Step \/ Flush]_<<queue, task, report>>
================================================================================
