------------------------------ MODULE TimersProofs ------------------------------
(***************************************************************************)
(* Theorems of Timers, for every length of a second, set of loads and set   *)
(* of interrupts in use: a timer is accurate, no expiry is lost and a mask  *)
(* only to the handler, although one register carries both timers.          *)
(***************************************************************************)
EXTENDS Timers, TLAPS

(* The parameters. *)
LEMMA Params ==
  /\ OneSec \in Nat /\ Period \in Nat /\ Period = OneSec + 1 /\ Period >= 1
  /\ Loads \subseteq 1 .. 63 /\ IrqUsed \subseteq Timer /\ Timer = {0, 1}
BY SecondAssumption, LoadAssumption, IrqAssumption DEF Period, Timer, SecWidth

(* What can be written to the register. *)
Writes == [write : BOOLEAN, load : [Timer -> -1 .. 63], mask : [Timer -> BOOLEAN],
           clear : [Timer -> BOOLEAN]]

(* A load is at least a second. *)
LEMMA WriteTypes ==
  ASSUME NEW load \in [Timer -> -1 .. 63], NEW mask \in [Timer -> BOOLEAN],
         NEW clear \in [Timer -> BOOLEAN]
  PROVE  /\ Write(load, mask, clear) \in Writes /\ Write(load, mask, clear).load = load
         /\ NoWrite \in Writes /\ NoWrite.load = None /\ None \in [Timer -> -1 .. 63]
         /\ Nobody \in [Timer -> BOOLEAN]
<1>1. Nobody \in [Timer -> BOOLEAN]
  BY DEF Nobody
<1>2. None \in [Timer -> -1 .. 63]
  BY DEF None
<1> QED
  BY <1>1, <1>2 DEF Write, NoWrite, Writes

(* The register in one clock. *)
LEMMA ClockTypes ==
  ASSUME TypeOK, NEW w \in Writes, NEW acked, Clock(w, acked)
  PROVE  /\ tim_cnt' \in 0 .. OneSec
         /\ sec_cnt' \in [Timer -> 0 .. SecWidth - 1] /\ sec_cnt_f' \in [Timer -> 0 .. SecWidth - 1]
         /\ tim_done' \in [Timer -> BOOLEAN] /\ tim_mask' \in [Timer -> BOOLEAN]
         /\ ip' \in [Timer -> BOOLEAN] /\ owed' \in [Timer -> BOOLEAN]
<1>1. tim_cnt' \in 0 .. OneSec /\ sec_cnt_f' \in [Timer -> 0 .. SecWidth - 1]
  BY Params DEF Clock, TypeOK
<1>2. sec_cnt' \in [Timer -> 0 .. SecWidth - 1]
  <2>1. \A t \in Timer : Count(w, t) \in 0 .. SecWidth - 1
    BY DEF Count, Tick, Writes, TypeOK, SecWidth
  <2> QED
    BY <2>1 DEF Clock
<1>3. tim_done' \in [Timer -> BOOLEAN]
  <2>1. \A t \in Timer : Done(w, t) \in BOOLEAN
    BY DEF Done, Expires, TypeOK
  <2> QED
    BY <2>1 DEF Clock
<1>4. tim_mask' \in [Timer -> BOOLEAN]
  BY DEF Clock, Writes, TypeOK
<1>5. ip' \in [Timer -> BOOLEAN]
  BY DEF Clock
<1>6. owed' \in [Timer -> BOOLEAN]
  BY DEF Clock, TypeOK
<1> QED
  BY <1>1, <1>2, <1>3, <1>4, <1>5, <1>6

-----------------------------------------------------------------------------
(* An expiry sets the flag in the next clock, and a write clears only a flag it could
   have seen. *)
LEMMA ClockKeepsExpiry ==
  ASSUME TypeOK, ExpiryKept, NEW w \in Writes, NEW acked, Clock(w, acked)
  PROVE  ExpiryKept'
<1> SUFFICES ASSUME NEW t \in Timer, owed'[t]
             PROVE  tim_done'[t] \/ Expires(t)'
  BY DEF ExpiryKept
<1>1. /\ sec_cnt'[t] = Count(w, t) /\ sec_cnt_f'[t] = sec_cnt[t] /\ tim_done'[t] = Done(w, t)
      /\ \/ w.load[t] < 0 /\ Tick(t) /\ sec_cnt[t] = 1
         \/ owed[t] /\ ~(w.clear[t] /\ tim_done[t] /\ ~Expires(t))
  BY DEF Clock
<1>2. CASE w.load[t] < 0 /\ Tick(t) /\ sec_cnt[t] = 1
  BY <1>1, <1>2 DEF Count, Expires, Writes
<1>3. CASE owed[t] /\ ~(w.clear[t] /\ tim_done[t] /\ ~Expires(t))
  BY <1>1, <1>3 DEF ExpiryKept, Done
<1> QED
  BY <1>1, <1>2, <1>3

-----------------------------------------------------------------------------
(* Seconds in clocks. *)
Clocks(d) == d * Period

(* Seconds add up, and more of them are no fewer clocks. *)
LEMMA Seconds ==
  /\ \A d \in Int : /\ Clocks(d) \in Int
                    /\ Clocks(d + 1) = Clocks(d) + Period
                    /\ Clocks(d - 1) = Clocks(d) - Period
  /\ \A d, e \in Int : d <= e => Clocks(d) <= Clocks(e)
  /\ Clocks(0) = 0
<1>1. Period \in Nat
  BY Params
<1>2. ASSUME NEW d \in Int
      PROVE  /\ Clocks(d) \in Int
             /\ Clocks(d + 1) = Clocks(d) + Period
             /\ Clocks(d - 1) = Clocks(d) - Period
  BY <1>1 DEF Clocks
<1>3. ASSUME NEW d \in Int, NEW e \in Int, d <= e
      PROVE  Clocks(d) <= Clocks(e)
  BY <1>1, <1>3 DEF Clocks
<1>4. Clocks(0) = 0
  BY <1>1 DEF Clocks
<1> QED
  BY <1>2, <1>3, <1>4

(* How old a load is, from the seconds counted and the clocks of the present one: the load
   came somewhere within a second of the clock counter. *)
Elapsed(t) == Clocks(armed[t] - sec_cnt[t])

Aged(t) ==
  /\ sec_cnt[t] <= armed[t]
  /\ sec_cnt[t] > 0 => /\ age[t] >= Elapsed(t) + tim_cnt - OneSec
                       /\ age[t] <= Elapsed(t) + tim_cnt
  /\ sec_cnt[t] = 0 /\ armed[t] > 0 => age[t] > Clocks(armed[t] - 1)

(* A clock that loads nothing into a timer. *)
LEMMA Ages ==
  ASSUME TypeOK, NEW w \in Writes, NEW acked, Clock(w, acked), NEW t \in Timer, Aged(t),
         w.load[t] = -1, armed'[t] = armed[t], age'[t] = Older[t]
  PROVE  Aged(t)'
<1> DEFINE a == armed[t]
           s == sec_cnt[t]
           g == age[t]
           e == Elapsed(t)
<1>1. /\ a \in 0 .. 63 /\ s \in 0 .. 63 /\ g \in Nat /\ tim_cnt \in 0 .. OneSec /\ s <= a
      /\ OneSec \in Nat /\ Period = OneSec + 1
  BY Params DEF TypeOK, SecWidth, Aged
<1>2. /\ tim_cnt' = IF tim_cnt = OneSec THEN 0 ELSE tim_cnt + 1
      /\ sec_cnt'[t] = IF Tick(t) THEN s - 1 ELSE s
      /\ age'[t] = IF g <= Clocks(a) THEN g + 1 ELSE g
  <2>1. sec_cnt'[t] = Count(w, t)
    BY DEF Clock
  <2> QED
    BY <2>1 DEF Clock, Count, Older, Clocks
<1>3. /\ e \in Int /\ Clocks(a) \in Int /\ Clocks(a - 1) = Clocks(a) - Period
      /\ Clocks(a - s + 1) = e + Period
  <2>1. a - s \in Int /\ a \in Int
    BY <1>1
  <2> QED
    BY <2>1, Seconds DEF Elapsed
<1>4. CASE s = 0
  <2>1. sec_cnt'[t] = 0
    BY <1>2, <1>4 DEF Tick
  <2>2. a > 0 => age'[t] > Clocks(a - 1)
    BY <1>1, <1>2, <1>3, <1>4 DEF Aged
  <2> QED
    BY <1>1, <2>1, <2>2 DEF Aged
<1>5. CASE s > 0
  <2>1. g >= e + tim_cnt - OneSec /\ g <= e + tim_cnt
    BY <1>5 DEF Aged, Elapsed
  <2>2. age'[t] = g + 1
    <3>1. e <= Clocks(a - 1)
      <4> HIDE DEF a, s
      <4>1. a - s \in Int /\ a - 1 \in Int
        BY <1>1
      <4>2. a - s <= a - 1
        BY <1>1, <1>5
      <4> QED
        BY <4>1, <4>2, Seconds DEF Elapsed, a, s
    <3>2. g <= Clocks(a)
      <4> HIDE DEF e
      <4> QED
        BY <1>1, <1>3, <2>1, <3>1
    <3> QED
      BY <1>2, <3>2
  <2>3. CASE tim_cnt # OneSec
    <3>1. sec_cnt'[t] = s /\ tim_cnt' = tim_cnt + 1
      BY <1>2, <2>3 DEF Tick
    <3>2. Elapsed(t)' = e
      BY <3>1 DEF Elapsed
    <3> HIDE DEF e
    <3> QED
      BY <1>1, <1>3, <1>5, <2>1, <2>2, <3>1, <3>2 DEF Aged
  <2>4. CASE tim_cnt = OneSec
    <3>1. sec_cnt'[t] = s - 1 /\ tim_cnt' = 0
      BY <1>2, <1>5, <2>4 DEF Tick
    <3>2. Elapsed(t)' = e + Period
      <4>1. a - (s - 1) = a - s + 1
        BY <1>1
      <4> QED
        BY <1>3, <3>1, <4>1 DEF Elapsed
    <3>3. CASE s > 1
      <4> HIDE DEF e
      <4> QED
        BY <1>1, <1>3, <2>1, <2>2, <2>4, <3>1, <3>2, <3>3 DEF Aged
    <3>4. CASE s = 1
      <4>1. e = Clocks(a - 1)
        BY <3>4 DEF Elapsed
      <4> HIDE DEF e
      <4> QED
        BY <1>1, <1>3, <2>1, <2>2, <2>4, <3>1, <3>4, <4>1 DEF Aged
    <3> QED
      BY <1>1, <1>5, <3>3, <3>4
  <2> QED
    BY <2>3, <2>4
<1> QED
  BY <1>1, <1>4, <1>5

(* The clock that loads a timer. *)
LEMMA Arms ==
  ASSUME TypeOK, NEW w \in Writes, NEW acked, Clock(w, acked), NEW t \in Timer,
         NEW n \in Loads, w.load[t] = n, armed'[t] = n, age'[t] = 0
  PROVE  Aged(t)'
<1>1. n \in 1 .. 63 /\ Period \in Nat
  BY Params
<1>2. sec_cnt'[t] = n
  <2>1. sec_cnt'[t] = Count(w, t)
    BY DEF Clock
  <2> QED
    BY <1>1, <2>1 DEF Count
<1>3. Elapsed(t)' = 0
  <2>1. n - n = 0
    BY <1>1
  <2> QED
    BY <1>2, <2>1, Seconds DEF Elapsed
<1>4. tim_cnt' \in 0 .. OneSec
  BY ClockTypes
<1> QED
  BY <1>1, <1>2, <1>3, <1>4, Params DEF Aged

(* What Accurate says follows. *)
LEMMA AgedIsAccurate ==
  ASSUME TypeOK, \A t \in Timer : Aged(t)
  PROVE  Accurate
<1> SUFFICES ASSUME NEW t \in Timer
             PROVE  /\ sec_cnt[t] > 0 => age[t] < (armed[t] - sec_cnt[t] + 1) * Period
                    /\ sec_cnt[t] < armed[t] => age[t] > (armed[t] - sec_cnt[t] - 1) * Period
  BY DEF Accurate
<1>1. /\ armed[t] \in 0 .. 63 /\ sec_cnt[t] \in 0 .. 63 /\ age[t] \in Nat /\ tim_cnt \in 0 .. OneSec
      /\ sec_cnt[t] <= armed[t]
  BY DEF TypeOK, SecWidth, Aged
<1>2. /\ Elapsed(t) \in Int
      /\ (armed[t] - sec_cnt[t] + 1) * Period = Elapsed(t) + Period
      /\ (armed[t] - sec_cnt[t] - 1) * Period = Elapsed(t) - Period
  <2>1. armed[t] - sec_cnt[t] \in Int
    BY <1>1
  <2>2. /\ Clocks(armed[t] - sec_cnt[t] + 1) = Elapsed(t) + Period
        /\ Clocks(armed[t] - sec_cnt[t] - 1) = Elapsed(t) - Period
        /\ Elapsed(t) \in Int
    BY <2>1, Seconds DEF Elapsed
  <2> QED
    BY <2>2 DEF Clocks
<1>3. sec_cnt[t] > 0 => /\ age[t] >= Elapsed(t) + tim_cnt - OneSec
                        /\ age[t] <= Elapsed(t) + tim_cnt
  BY DEF Aged
<1>4. CASE sec_cnt[t] > 0
  BY <1>1, <1>2, <1>3, <1>4, Params
<1>5. CASE sec_cnt[t] = 0
  <2>1. armed[t] - sec_cnt[t] - 1 = armed[t] - 1
    BY <1>1, <1>5
  <2>2. armed[t] > 0 => age[t] > (armed[t] - 1) * Period
    BY <1>5 DEF Aged, Clocks
  <2> QED
    BY <1>1, <1>5, <2>1, <2>2
<1> QED
  BY <1>1, <1>4, <1>5

-----------------------------------------------------------------------------
(* The part of the state that is not the register. *)
Program ==
  /\ im \in [Timer -> BOOLEAN] /\ pc \in Ops \cup {Idle} /\ tmp \in [Timer -> BOOLEAN]
  /\ isr \in {"off", "read", "write", "ack"} /\ irqs \subseteq Timer
  /\ isr # "off" => irqs # {}
  /\ asked \in [Timer -> BOOLEAN] /\ served \in [Timer -> BOOLEAN]

(* The ages, and what keeps the two safety properties. *)
Ageing == armed \in [Timer -> 0 .. SecWidth - 1] /\ age \in [Timer -> Nat]

Invariant == TypeOK /\ ExpiryKept /\ \A t \in Timer : Aged(t)

(* A clock in which the program writes no count. *)
LEMMA OldClock ==
  ASSUME Invariant, NEW w \in Writes, NEW acked, Clock(w, acked), w.load = None, Aging
  PROVE  ExpiryKept' /\ Ageing' /\ \A t \in Timer : Aged(t)'
<1>1. TypeOK /\ ExpiryKept
  BY DEF Invariant
<1>2. ExpiryKept'
  BY <1>1, ClockKeepsExpiry
<1>3. Ageing'
  <2>1. Older \in [Timer -> Nat]
    <3>1. \A t \in Timer : Older[t] \in Nat
      BY <1>1 DEF TypeOK, Older
    <3> QED
      BY <3>1 DEF Older
  <2> QED
    BY <1>1, <2>1 DEF Aging, Ageing, TypeOK
<1>4. ASSUME NEW t \in Timer
      PROVE  Aged(t)'
  <2>1. Aged(t) /\ w.load[t] = -1 /\ armed'[t] = armed[t] /\ age'[t] = Older[t]
    BY DEF Invariant, None, Aging
  <2> QED
    BY <1>1, <2>1, Ages
<1> QED
  BY <1>2, <1>3, <1>4

(* The clock in which timer_set(u, n) writes. *)
LEMMA LoadClock ==
  ASSUME Invariant, NEW w \in Writes, NEW acked, Clock(w, acked),
         NEW u \in Timer, NEW n \in Loads, w.load = [None EXCEPT ![u] = n], Armed(u, n)
  PROVE  ExpiryKept' /\ Ageing' /\ \A t \in Timer : Aged(t)'
<1>1. TypeOK /\ ExpiryKept /\ n \in 1 .. 63
  BY Params DEF Invariant
<1>2. ExpiryKept'
  BY <1>1, ClockKeepsExpiry
<1>3. Older \in [Timer -> Nat]
  <2>1. \A t \in Timer : Older[t] \in Nat
    BY <1>1 DEF TypeOK, Older
  <2> QED
    BY <2>1 DEF Older
<1>4. armed' = [armed EXCEPT ![u] = n] /\ age' = [Older EXCEPT ![u] = 0]
  BY DEF Armed
<1>5. armed \in [Timer -> 0 .. 63]
  BY <1>1 DEF TypeOK, SecWidth
<1>6. Ageing'
  BY <1>1, <1>3, <1>4, <1>5 DEF Ageing, SecWidth
<1>7. ASSUME NEW t \in Timer
      PROVE  Aged(t)'
  <2>1. CASE t = u
    <3>1. w.load[t] = n /\ armed'[t] = n /\ age'[t] = 0
      BY <1>3, <1>4, <1>5, <2>1 DEF None
    <3> QED
      BY <1>1, <3>1, Arms
  <2>2. CASE t # u
    <3>1. w.load[t] = -1 /\ armed'[t] = armed[t] /\ age'[t] = Older[t]
      BY <1>3, <1>4, <1>5, <2>2 DEF None
    <3>2. Aged(t)
      BY DEF Invariant
    <3> QED
      BY <1>1, <3>1, <3>2, Ages
  <2> QED
    BY <2>1, <2>2
<1> QED
  BY <1>2, <1>6, <1>7

(* What the clock and the program keep is the whole invariant. *)
LEMMA Whole ==
  ASSUME TypeOK, NEW w \in Writes, NEW acked, Clock(w, acked),
         Program', ExpiryKept', Ageing', \A t \in Timer : Aged(t)'
  PROVE  Invariant'
<1>1. /\ tim_cnt' \in 0 .. OneSec
      /\ sec_cnt' \in [Timer -> 0 .. SecWidth - 1] /\ sec_cnt_f' \in [Timer -> 0 .. SecWidth - 1]
      /\ tim_done' \in [Timer -> BOOLEAN] /\ tim_mask' \in [Timer -> BOOLEAN]
      /\ ip' \in [Timer -> BOOLEAN] /\ owed' \in [Timer -> BOOLEAN]
  BY ClockTypes
<1>2. TypeOK'
  BY <1>1 DEF TypeOK, Program, Ageing
<1> QED
  BY <1>2 DEF Invariant

(* A clock without a write. *)
LEMMA QuietStep ==
  ASSUME Invariant, NEW acked, Clock(NoWrite, acked), Aging, Program'
  PROVE  Invariant'
<1>1. NoWrite \in Writes /\ NoWrite.load = None
  BY WriteTypes DEF NoWrite, Writes, None, Nobody
<1>2. ExpiryKept' /\ Ageing' /\ \A t \in Timer : Aged(t)'
  BY <1>1, OldClock
<1> QED
  BY <1>1, <1>2, Whole DEF Invariant

(* The interrupt that is served is one of those looked up. *)
LEMMA ServingOne ==
  ASSUME irqs \subseteq Timer, irqs # {}
  PROVE  Serving \in irqs
<1>1. \E t \in irqs : \A u \in irqs : t <= u
  <2>1. CASE 0 \in irqs
    <3>1. \A u \in irqs : 0 <= u
      BY DEF Timer
    <3> QED
      BY <2>1, <3>1
  <2>2. CASE 0 \notin irqs
    <3>1. irqs = {1}
      BY <2>2 DEF Timer
    <3> QED
      BY <3>1
  <2> QED
    BY <2>1, <2>2
<1> QED
  BY <1>1 DEF Serving

-----------------------------------------------------------------------------
(* Each step keeps the invariant. *)
LEMMA StepInvariant ==
  ASSUME Invariant, [Next]_vars
  PROVE  Invariant'
<1>1. TypeOK /\ Program
  BY DEF Invariant, TypeOK, Program
<1>2. CASE ReadMask
  <2>1. Clock(NoWrite, {}) /\ Aging
    BY <1>2 DEF ReadMask
  <2>2. Program'
    BY <1>1, <1>2 DEF ReadMask, Program, TypeOK, handler
  <2> QED
    BY <2>1, <2>2, QuietStep
<1>3. CASE WriteBack
  <2>1. pc \in Ops /\ pc' = Idle /\ Clock(Written(pc), {}) /\ UNCHANGED <<im, tmp, isr, irqs>>
    BY <1>1, <1>3 DEF WriteBack, Program
  <2>2. pc.timer \in Timer /\ pc.op \in {"mask_set", "mask_clean", "set"}
    BY <2>1 DEF Ops
  <2>3. asked' \in [Timer -> BOOLEAN] /\ served' \in [Timer -> BOOLEAN]
    BY <1>1, <1>3 DEF WriteBack, Program
  <2>4. Program'
    BY <1>1, <2>1, <2>3 DEF Program
  <2>5. CASE pc.op = "set"
    <3>1. pc.load \in Loads /\ pc.load \in 1 .. 63
      BY <2>1, <2>5, Params DEF Ops
    <3>2. Written(pc) = Write(Loaded(pc), tmp, Nobody) /\ Armed(pc.timer, pc.load)
      BY <1>3, <2>5 DEF WriteBack, Written
    <3>3. None \in [Timer -> -1 .. 63] /\ Nobody \in [Timer -> BOOLEAN]
      BY DEF None, Nobody
    <3>4. Loaded(pc) = [None EXCEPT ![pc.timer] = pc.load] /\ Loaded(pc) \in [Timer -> -1 .. 63]
      <4>1. pc.load \in -1 .. 63
        BY <3>1
      <4>2. Loaded(pc) = [None EXCEPT ![pc.timer] = pc.load]
        BY DEF Loaded
      <4>3. ASSUME NEW f \in [Timer -> -1 .. 63], NEW n \in -1 .. 63
            PROVE  [f EXCEPT ![pc.timer] = n] \in [Timer -> -1 .. 63]
        OBVIOUS
      <4>4. [None EXCEPT ![pc.timer] = pc.load] \in [Timer -> -1 .. 63]
        BY <3>3, <4>1, <4>3, Zenon
      <4> QED
        BY <4>2, <4>4
    <3>5. Written(pc) \in Writes /\ Written(pc).load = [None EXCEPT ![pc.timer] = pc.load]
      <4> DEFINE load == Loaded(pc)
      <4>1. load \in [Timer -> -1 .. 63] /\ Written(pc) = Write(load, tmp, Nobody)
        BY <3>2, <3>4
      <4>2. tmp \in [Timer -> BOOLEAN] /\ Nobody \in [Timer -> BOOLEAN]
        BY <1>1, <3>3 DEF Program
      <4>3. Written(pc) \in Writes /\ Written(pc).load = load
        <5> HIDE DEF load
        <5> QED
          BY <4>1, <4>2, WriteTypes
      <4> QED
        BY <3>4, <4>3, Zenon
    <3>6. ExpiryKept' /\ Ageing' /\ \A t \in Timer : Aged(t)'
      BY <2>1, <2>2, <3>1, <3>2, <3>5, LoadClock
    <3> QED
      BY <1>1, <2>1, <2>4, <3>5, <3>6, Whole
  <2>6. CASE pc.op # "set"
    <3> DEFINE mask == [tmp EXCEPT ![pc.timer] = (pc.op = "mask_set")]
    <3>1. Written(pc) = Write(None, mask, Nobody) /\ Aging
      BY <1>3, <2>6 DEF WriteBack, Written
    <3>2. mask \in [Timer -> BOOLEAN]
      BY <1>1 DEF Program
    <3>3. None \in [Timer -> -1 .. 63] /\ Nobody \in [Timer -> BOOLEAN]
      BY DEF None, Nobody
    <3>4. Written(pc) \in Writes /\ Written(pc).load = None
      <4> HIDE DEF mask
      <4> QED
        BY <3>1, <3>2, <3>3, WriteTypes
    <3>5. ExpiryKept' /\ Ageing' /\ \A t \in Timer : Aged(t)'
      BY <2>1, <3>1, <3>4, OldClock
    <3> QED
      BY <1>1, <2>1, <2>4, <3>4, <3>5, Whole
  <2> QED
    BY <2>5, <2>6
<1>4. CASE EnableIrq
  <2>1. Clock(NoWrite, {}) /\ Aging
    BY <1>4 DEF EnableIrq
  <2>2. Program'
    BY <1>1, <1>4, Params DEF EnableIrq, Program, main, handler
  <2> QED
    BY <2>1, <2>2, QuietStep
<1>5. CASE Interrupt
  <2>1. Clock(NoWrite, {}) /\ Aging
    BY <1>5 DEF Interrupt
  <2>2. irqs' \subseteq Timer /\ irqs' # {}
    BY <1>5 DEF Interrupt, Pending
  <2>3. Program'
    BY <1>1, <1>5, <2>2 DEF Interrupt, Program, main
  <2> QED
    BY <2>1, <2>3, QuietStep
<1>6. CASE CleanRead
  <2>1. Clock(NoWrite, {}) /\ Aging
    BY <1>6 DEF CleanRead
  <2>2. Program'
    BY <1>1, <1>6 DEF CleanRead, Program, main
  <2> QED
    BY <2>1, <2>2, QuietStep
<1>7. CASE CleanWrite
  <2>1. Clock(Cleaned(Serving), {}) /\ Aging
    BY <1>7 DEF CleanWrite
  <2>2. Program'
    BY <1>1, <1>7 DEF CleanWrite, Program, main
  <2>3. Serving \in Timer
    BY <1>1, <1>7, ServingOne DEF CleanWrite, Program
  <2> DEFINE mask == [u \in Timer |-> u = Serving /\ tim_mask[Serving]]
             clear == [u \in Timer |-> u = Serving]
  <2>4. mask \in [Timer -> BOOLEAN] /\ clear \in [Timer -> BOOLEAN]
    OBVIOUS
  <2>5. Cleaned(Serving) = Write(None, mask, clear)
    BY DEF Cleaned
  <2>6. None \in [Timer -> -1 .. 63]
    BY DEF None
  <2>7. Cleaned(Serving) \in Writes /\ Cleaned(Serving).load = None
    <3> HIDE DEF mask, clear
    <3> QED
      BY <2>4, <2>5, <2>6, WriteTypes
  <2>8. ExpiryKept' /\ Ageing' /\ \A t \in Timer : Aged(t)'
    BY <2>1, <2>7, OldClock
  <2> QED
    BY <1>1, <2>1, <2>2, <2>7, <2>8, Whole
<1>8. CASE IsrAck
  <2>1. Clock(NoWrite, Acked) /\ Aging
    BY <1>8 DEF IsrAck
  <2>2. Program'
    BY <1>1, <1>8 DEF IsrAck, Program, main
  <2> QED
    BY <2>1, <2>2, QuietStep
<1>9. CASE Elsewhere
  <2>1. Clock(NoWrite, {}) /\ Aging
    BY <1>9 DEF Elsewhere
  <2>2. Program'
    BY <1>1, <1>9 DEF Elsewhere, Program, main, handler
  <2> QED
    BY <2>1, <2>2, QuietStep
<1>10. CASE UNCHANGED vars
  BY <1>10 DEF Invariant, TypeOK, ExpiryKept, Expires, Aged, Elapsed, vars, time, main, handler, history
<1> QED
  BY <1>2, <1>3, <1>4, <1>5, <1>6, <1>7, <1>8, <1>9, <1>10 DEF Next, IsrStep

(* After the reset nothing is loaded and nothing has expired. *)
LEMMA InitInvariant ==
  ASSUME Init
  PROVE  Invariant
<1>1. TypeOK
  <2>1. /\ sec_cnt \in [Timer -> 0 .. 63] /\ sec_cnt_f \in [Timer -> 0 .. 63]
        /\ armed \in [Timer -> 0 .. 63] /\ age \in [Timer -> Nat] /\ tim_cnt \in 0 .. OneSec
    BY DEF Init
  <2>2. Nobody \in [Timer -> BOOLEAN] /\ [t \in Timer |-> TRUE] \in [Timer -> BOOLEAN]
    BY DEF Nobody
  <2>3. /\ tim_done \in [Timer -> BOOLEAN] /\ tim_mask \in [Timer -> BOOLEAN]
        /\ ip \in [Timer -> BOOLEAN] /\ im \in [Timer -> BOOLEAN] /\ tmp \in [Timer -> BOOLEAN]
        /\ asked \in [Timer -> BOOLEAN] /\ owed \in [Timer -> BOOLEAN]
        /\ served \in [Timer -> BOOLEAN]
    BY <2>2 DEF Init
  <2>4. pc \in Ops \cup {Idle} /\ isr = "off" /\ irqs = {}
    BY DEF Init
  <2> QED
    BY <2>1, <2>3, <2>4 DEF TypeOK, SecWidth
<1>2. \A t \in Timer : ~owed[t] /\ sec_cnt[t] = 0 /\ armed[t] = 0
  BY DEF Init, Nobody
<1>3. ExpiryKept
  BY <1>2 DEF ExpiryKept
<1>4. \A t \in Timer : Aged(t)
  BY <1>2 DEF Aged
<1> QED
  BY <1>1, <1>3, <1>4 DEF Invariant

(* The inductive invariant of the timers. *)
LEMMA Always == FairSpec => []Invariant
<1>1. Init => Invariant
  BY InitInvariant
<1>2. Invariant /\ [Next]_vars => Invariant'
  BY StepInvariant
<1> QED
  BY <1>1, <1>2, PTL DEF FairSpec

-----------------------------------------------------------------------------
(* Every variable has its type, for every length of the second. *)
THEOREM TypeCorrect == FairSpec => []TypeOK
<1>1. Invariant => TypeOK
  BY DEF Invariant
<1> QED
  BY <1>1, Always, PTL

(* timer_read() is right and a timer is over after its seconds, whatever is done to the
   other timer, the masks and the flags in the same register. *)
THEOREM OnTime == FairSpec => []Accurate
<1>1. Invariant => Accurate
  BY AgedIsAccurate DEF Invariant
<1> QED
  BY <1>1, Always, PTL

(* The flag of an expiry stays up until the handler has seen it. *)
THEOREM NoExpiryLost == FairSpec => []ExpiryKept
<1>1. Invariant => ExpiryKept
  BY DEF Invariant
<1> QED
  BY <1>1, Always, PTL

-----------------------------------------------------------------------------
(* The masks in the register and those a function has read are masks asked for, and where
   one is missing the handler has served the other timer. *)
Explained(mask) ==
  \A t \in Timer : (mask[t] => asked[t]) /\ (asked[t] /\ ~mask[t] => served[1 - t])

Masks == Explained(tim_mask) /\ (pc # Idle => Explained(tmp))

(* The register keeps its masks in a clock without a write, and takes those written. *)
LEMMA ClockMasks ==
  /\ \A acked : Clock(NoWrite, acked) => UNCHANGED tim_mask
  /\ \A load, mask, clear, acked : Clock(Write(load, mask, clear), acked) => tim_mask' = mask
BY DEF Clock, NoWrite, Write

(* What is asked for and served stays, and so do the masks. *)
LEMMA MasksFrame ==
  ASSUME Masks, UNCHANGED <<tim_mask, asked, served, tmp, pc>>
  PROVE  Masks'
BY DEF Masks, Explained

(* Each step keeps the masks explained. *)
LEMMA MasksStep ==
  ASSUME TypeOK, Masks, [Next]_vars
  PROVE  Masks'
<1>1. CASE ReadMask
  <2>1. UNCHANGED <<tim_mask, asked, served>> /\ tmp' = tim_mask
    BY <1>1, ClockMasks DEF ReadMask, handler
  <2> QED
    BY <2>1 DEF Masks, Explained
<1>2. CASE WriteBack
  <2>1. /\ pc \in Ops /\ pc' = Idle /\ pc # Idle /\ Clock(Written(pc), {})
    BY <1>2 DEF WriteBack, TypeOK
  <2>2. pc.timer \in Timer /\ tmp \in [Timer -> BOOLEAN] /\ asked \in [Timer -> BOOLEAN]
        /\ served \in [Timer -> BOOLEAN] /\ Timer = {0, 1}
    BY <2>1, Params DEF Ops, TypeOK
  <2>3. Explained(tmp)
    BY <2>1 DEF Masks
  <2>4. CASE pc.op = "set"
    <3>1. tim_mask' = tmp
      BY <2>1, <2>4, ClockMasks DEF Written
    <3>2. UNCHANGED <<asked, served>>
      BY <1>2, <2>4 DEF WriteBack
    <3> QED
      BY <2>1, <2>3, <3>1, <3>2 DEF Masks, Explained
  <2>5. CASE pc.op = "mask_set"
    <3>1. tim_mask' = [tmp EXCEPT ![pc.timer] = TRUE]
      BY <2>1, <2>5, ClockMasks DEF Written
    <3>2. /\ asked' = [asked EXCEPT ![pc.timer] = TRUE]
          /\ served' = [served EXCEPT ![1 - pc.timer] = FALSE]
      BY <1>2, <2>5 DEF WriteBack
    <3>3. Explained(tim_mask)'
      BY <2>2, <2>3, <3>1, <3>2 DEF Explained
    <3> QED
      BY <2>1, <3>3 DEF Masks
  <2>6. CASE pc.op = "mask_clean"
    <3>1. tim_mask' = [tmp EXCEPT ![pc.timer] = FALSE]
      BY <2>1, <2>6, ClockMasks DEF Written
    <3>2. asked' = [asked EXCEPT ![pc.timer] = FALSE] /\ UNCHANGED served
      BY <1>2, <2>6 DEF WriteBack
    <3>3. Explained(tim_mask)'
      BY <2>2, <2>3, <3>1, <3>2 DEF Explained
    <3> QED
      BY <2>1, <3>3 DEF Masks
  <2> QED
    BY <2>1, <2>4, <2>5, <2>6 DEF Ops
<1>3. CASE EnableIrq
  BY <1>3, ClockMasks, MasksFrame DEF EnableIrq, main, handler
<1>4. CASE Interrupt
  BY <1>4, ClockMasks, MasksFrame DEF Interrupt, main
<1>5. CASE CleanRead
  BY <1>5, ClockMasks, MasksFrame DEF CleanRead, main
<1>6. CASE CleanWrite
  <2>1. Serving \in Timer
    BY <1>6, ServingOne DEF CleanWrite, TypeOK
  <2>2. tim_mask' = [u \in Timer |-> u = Serving /\ tim_mask[Serving]]
    BY <1>6, ClockMasks DEF CleanWrite, Cleaned
  <2>3. served' = [served EXCEPT ![Serving] = TRUE] /\ UNCHANGED <<asked, tmp, pc>>
    BY <1>6 DEF CleanWrite, main
  <2> HIDE DEF Serving
  <2>4. PICK s \in Timer : s = Serving
    BY <2>1
  <2>5. Explained(tim_mask)'
    BY <2>2, <2>3, <2>4, Params DEF Masks, Explained, TypeOK
  <2>6. pc # Idle => Explained(tmp)'
    BY <2>3, <2>4, Params DEF Masks, Explained, TypeOK
  <2> QED
    BY <2>3, <2>5, <2>6 DEF Masks
<1>7. CASE IsrAck
  BY <1>7, ClockMasks, MasksFrame DEF IsrAck, main
<1>8. CASE Elsewhere
  BY <1>8, ClockMasks, MasksFrame DEF Elsewhere, main, handler
<1>9. CASE UNCHANGED vars
  BY <1>9, MasksFrame DEF vars, time, main, handler
<1> QED
  BY <1>1, <1>2, <1>3, <1>4, <1>5, <1>6, <1>7, <1>8, <1>9 DEF Next, IsrStep

(* A mask the program asked for is lost only when the handler serves the other timer, and
   none it took away comes back, wherever the handler falls between the two accesses of
   timer_set(), timer_mask_set() and timer_mask_clean(). *)
THEOREM MasksExplained == FairSpec => []MaskLostToHandler
<1>1. Init => Masks
  <2> SUFFICES ASSUME Init PROVE Masks
    OBVIOUS
  <2>1. asked = tim_mask /\ tmp = tim_mask /\ \A t \in Timer : tim_mask[t] = TRUE
    BY DEF Init
  <2> QED
    BY <2>1 DEF Masks, Explained
<1>2. TypeOK /\ Masks /\ [Next]_vars => Masks'
  BY MasksStep
<1>3. Masks => MaskLostToHandler
  BY DEF Masks, Explained, MaskLostToHandler
<1> QED
  BY <1>1, <1>2, <1>3, TypeCorrect, PTL DEF FairSpec
================================================================================
