-------------------------------- MODULE Timers --------------------------------
(***************************************************************************)
(* The two seconds timers: the register TIME of twi.v clock by clock, the   *)
(* functions of firmware/timer.c that read and write it, and the interrupt  *)
(* handler isr() of firmware/sdk/intr.c with timer0_isr() and timer1_isr(). *)
(*                                                                         *)
(* Each function reads the register and writes it back in a later clock,    *)
(* and the handler may come in between.  One register carries both timers,  *)
(* so that every write concerns the two: whether it loads a count, what the *)
(* two masks become, which flags it clears.                                 *)
(***************************************************************************)
EXTENDS Integers

CONSTANTS
  OneSec,    \* MM_CLK_1S_CNT, the last value of the clock counter in a second
  Loads,     \* the seconds timer_set() is called with
  IrqUsed    \* the timers whose interrupt the program enables in the processor

Timer == {0, 1}
Period == OneSec + 1
SecWidth == 64                        \* values of sec_cnt0 and sec_cnt1

ASSUME SecondAssumption == OneSec \in Nat
ASSUME LoadAssumption == Loads \subseteq 1 .. SecWidth - 1
ASSUME IrqAssumption == IrqUsed \subseteq Timer

VARIABLES
  tim_cnt, sec_cnt, sec_cnt_f, tim_done, tim_mask,   \* twi.v
  ip, im,       \* the two lines in the pending and mask registers of the processor
  pc, tmp,      \* the function of timer.c in progress, and the masks it has read
  isr, irqs,    \* where isr() is, and the interrupts it has still to serve
  asked,        \* history: the masks the program asked for
  served,       \* history: the handler has cleared this timer's flag since the program
                \* last asked for a mask of the other one
  armed, age,   \* history: the last load, and the clocks since
  owed          \* history: expired, and not cleared after that was visible

time == <<tim_cnt, sec_cnt, sec_cnt_f, tim_done, tim_mask, ip>>
main == <<pc, tmp, asked>>
handler == <<isr, irqs, served>>
history == <<armed, age, owed>>
vars == <<time, im, main, handler, history>>

-----------------------------------------------------------------------------
(* The hardware: one clock, with or without a bus write. *)

None == [t \in Timer |-> -1]
Nobody == [t \in Timer |-> FALSE]

(* What a write asks for: counts to load (-1: none), masks, flags to clear. *)
Write(load, mask, clear) == [write |-> TRUE, load |-> load, mask |-> mask, clear |-> clear]
NoWrite == [write |-> FALSE, load |-> None, mask |-> Nobody, clear |-> Nobody]

Tick_PastZero(t) == tim_cnt = OneSec
Tick(t) == sec_cnt[t] > 0 /\ tim_cnt = OneSec

Expires(t) == sec_cnt[t] = 0 /\ sec_cnt_f[t] = 1

(* A flag is set even in the clock in which it is cleared. *)
Done_ClearFirst(w, t) == IF w.clear[t] THEN FALSE ELSE Expires(t) \/ tim_done[t]
Done(w, t) == Expires(t) \/ (tim_done[t] /\ ~w.clear[t])

(* A load wins over the end of a second. *)
Count(w, t) == IF w.load[t] >= 0 THEN w.load[t]
               ELSE IF Tick(t) THEN sec_cnt[t] - 1 ELSE sec_cnt[t]

(* The lines are levels; acked are the bits irq_ack() writes in this clock. *)
Clock(w, acked) ==
  /\ tim_cnt' = IF tim_cnt = OneSec THEN 0 ELSE tim_cnt + 1
  /\ sec_cnt' = [t \in Timer |-> Count(w, t)]
  /\ sec_cnt_f' = sec_cnt
  /\ tim_done' = [t \in Timer |-> Done(w, t)]
  /\ tim_mask' = IF w.write THEN w.mask ELSE tim_mask
  /\ ip' = [t \in Timer |-> (ip[t] \/ (tim_done[t] /\ ~tim_mask[t])) /\ t \notin acked]
  /\ owed' = [t \in Timer |->
                IF w.load[t] < 0 /\ Tick(t) /\ sec_cnt[t] = 1 THEN TRUE
                ELSE owed[t] /\ ~(w.clear[t] /\ tim_done[t] /\ ~Expires(t))]

(* History: a clock more, or the first one after timer_set(t, n). *)
Older == [t \in Timer |-> IF age[t] <= armed[t] * Period THEN age[t] + 1 ELSE age[t]]
Aging == age' = Older /\ UNCHANGED armed
Armed(t, n) == armed' = [armed EXCEPT ![t] = n] /\ age' = [Older EXCEPT ![t] = 0]

-----------------------------------------------------------------------------
(* The functions of timer.c, called by the program outside of the handler. *)

Pending == \E t \in Timer : ip[t] /\ im[t]
Runs == isr = "off" /\ ~Pending

Ops == [op : {"mask_set", "mask_clean"}, timer : Timer, load : {0}]
         \cup [op : {"set"}, timer : Timer, load : Loads]
Idle == [op |-> "idle", timer |-> 0, load |-> 0]

(* readl(&tim->reg) & 0x20002 *)
ReadMask ==
  /\ Runs /\ pc = Idle /\ pc' \in Ops /\ tmp' = tim_mask
  /\ Clock(NoWrite, {}) /\ Aging /\ UNCHANGED <<im, asked, handler>>

Loaded_Both(o) == [t \in Timer |-> o.load]
Loaded(o) == [None EXCEPT ![o.timer] = o.load]

Written_NoMask(o) ==
  IF o.op = "set" THEN Write(Loaded(o), Nobody, Nobody)
  ELSE Write(None, [tmp EXCEPT ![o.timer] = (o.op = "mask_set")], Nobody)
Written(o) ==
  IF o.op = "set" THEN Write(Loaded(o), tmp, Nobody)
  ELSE Write(None, [tmp EXCEPT ![o.timer] = (o.op = "mask_set")], Nobody)

WriteBack ==
  /\ Runs /\ pc # Idle /\ pc' = Idle
  /\ Clock(Written(pc), {})
  /\ IF pc.op = "set" THEN Armed(pc.timer, pc.load) ELSE Aging
  /\ asked' = IF pc.op = "set" THEN asked
              ELSE [asked EXCEPT ![pc.timer] = (pc.op = "mask_set")]
  /\ served' = IF pc.op = "mask_set" THEN [served EXCEPT ![1 - pc.timer] = FALSE] ELSE served
  /\ UNCHANGED <<im, tmp, isr, irqs>>

(* irq_setmask() *)
EnableIrq ==
  /\ Runs /\ pc = Idle /\ \E t \in IrqUsed : im' = [im EXCEPT ![t] = ~im[t]]
  /\ Clock(NoWrite, {}) /\ Aging /\ UNCHANGED <<main, handler>>

-----------------------------------------------------------------------------
(* isr(): the pending interrupts are looked up once, and timer 0 comes first. *)

Interrupt ==
  /\ isr = "off" /\ Pending /\ isr' = "read"
  /\ irqs' = {t \in Timer : ip[t] /\ im[t]}
  /\ Clock(NoWrite, {}) /\ Aging /\ UNCHANGED <<im, main, served>>

Serving == CHOOSE t \in irqs : \A u \in irqs : t <= u

(* timer_int_clean(): it reads the mask of its own timer only, and the write leaves the
   other one's cleared. *)
CleanRead ==
  /\ isr = "read" /\ isr' = "write"
  /\ Clock(NoWrite, {}) /\ Aging /\ UNCHANGED <<im, main, irqs, served>>

Cleaned(t) ==
  Write(None, [u \in Timer |-> u = t /\ tim_mask[t]], [u \in Timer |-> u = t])

CleanWrite ==
  /\ isr = "write" /\ isr' = "ack"
  /\ served' = [served EXCEPT ![Serving] = TRUE]
  /\ Clock(Cleaned(Serving), {}) /\ Aging /\ UNCHANGED <<im, main, irqs>>

(* irq_ack(): timer0_isr() and timer1_isr() both acknowledge IRQ_TIMER0. *)
Acked_Nothing == {}
Acked == {0}

IsrAck ==
  /\ isr = "ack" /\ irqs' = irqs \ {Serving}
  /\ isr' = IF irqs' = {} THEN "off" ELSE "read"
  /\ Clock(NoWrite, Acked) /\ Aging /\ UNCHANGED <<im, main, served>>

IsrStep == Interrupt \/ CleanRead \/ CleanWrite \/ IsrAck

(* A clock in which the processor does something else. *)
Elsewhere == Clock(NoWrite, {}) /\ Aging /\ UNCHANGED <<im, main, handler>>

-----------------------------------------------------------------------------
(* After the reset of the FPGA: both timers masked. *)
Init ==
  /\ tim_cnt \in 0 .. OneSec
  /\ sec_cnt = [t \in Timer |-> 0] /\ sec_cnt_f = [t \in Timer |-> 0]
  /\ tim_done = Nobody /\ tim_mask = [t \in Timer |-> TRUE]
  /\ ip = Nobody /\ im = Nobody
  /\ pc = Idle /\ tmp = tim_mask /\ isr = "off" /\ irqs = {}
  /\ asked = tim_mask /\ armed = [t \in Timer |-> 0] /\ age = [t \in Timer |-> 0]
  /\ owed = Nobody /\ served = Nobody

Next == ReadMask \/ WriteBack \/ EnableIrq \/ IsrStep \/ Elsewhere

(* The processor goes on with what it has begun. *)
FairSpec ==
  /\ Init /\ [][Next]_vars
  /\ WF_vars(IsrStep) /\ SF_vars(WriteBack)

-----------------------------------------------------------------------------
TypeOK ==
  /\ tim_cnt \in 0 .. OneSec
  /\ sec_cnt \in [Timer -> 0 .. SecWidth - 1] /\ sec_cnt_f \in [Timer -> 0 .. SecWidth - 1]
  /\ tim_done \in [Timer -> BOOLEAN] /\ tim_mask \in [Timer -> BOOLEAN]
  /\ ip \in [Timer -> BOOLEAN] /\ im \in [Timer -> BOOLEAN]
  /\ pc \in Ops \cup {Idle} /\ tmp \in [Timer -> BOOLEAN]
  /\ isr \in {"off", "read", "write", "ack"} /\ irqs \subseteq Timer
  /\ isr # "off" => irqs # {}
  /\ asked \in [Timer -> BOOLEAN] /\ armed \in [Timer -> 0 .. SecWidth - 1]
  /\ age \in [Timer -> Nat] /\ owed \in [Timer -> BOOLEAN]
  /\ served \in [Timer -> BOOLEAN]

(* timer_set(t, n) is over after more than n - 1 and at most n seconds, and the count
   timer_read() returns is right in between: whatever is done meanwhile to the other
   timer, to the masks and to the flags, by the program or by the handler. *)
Accurate ==
  \A t \in Timer :
    /\ sec_cnt[t] > 0 => age[t] < (armed[t] - sec_cnt[t] + 1) * Period
    /\ sec_cnt[t] < armed[t] => age[t] > (armed[t] - sec_cnt[t] - 1) * Period

(* An expiry is never lost: the flag is up, or comes up in the next clock, until the
   handler clears it in a clock in which it was up. *)
ExpiryKept == \A t \in Timer : owed[t] => tim_done[t] \/ Expires(t)

(* What the program asked for and the mask in the register differ in one way only: a mask
   is lost when the handler serves the other timer, whose timer_int_clean() writes it as
   0.  Neither the write back of masks read before the handler came, nor a load of the
   other timer, loses one or brings back one the program had taken away. *)
MaskLostToHandler ==
  \A t \in Timer :
    /\ tim_mask[t] => asked[t]
    /\ asked[t] /\ ~tim_mask[t] => served[1 - t]

(* The interrupts hold the program up for a while only, but for the second timer's: as
   timer1_isr() acknowledges IRQ_TIMER0 (timer.c:91), the handler never gets rid of it
   once it is pending and enabled. *)
TimerOneHolds == ip[1] /\ im[1]
ProgramGoesOn == pc # Idle ~> pc = Idle \/ TimerOneHolds
===============================================================================
