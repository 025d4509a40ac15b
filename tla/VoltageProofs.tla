----------------------------- MODULE VoltageProofs -----------------------------
(***************************************************************************)
(* Theorems of Voltage, for every set of voltages and LED values and any    *)
(* chain of at most five registers: what the ASICs are supplied with, under *)
(* resets of the FPGA at any moment.                                        *)
(***************************************************************************)
EXTENDS Voltage, TLAPS

(* The parameters. *)
LEMMA Params ==
  /\ Chips \in Nat /\ 1 <= Chips /\ Chips <= 5
  /\ ASIC_CORETEST_VOLT \in Volts /\ ASIC_0V \notin Volts /\ ASIC_0V \in AllVolts
  /\ ASIC_CORETEST_VOLT \in AllVolts
  /\ Leds \subseteq Nat
BY ChipAssumption, VoltAssumption, LedAssumption DEF AllVolts

(* value | 0x2 sets the bit of the reset line. *)
LEMMA OrSets ==
  ASSUME NEW l \in Nat
  PROVE  Or2(l) \in Nat /\ RstBit(Or2(l)) = 1
<1>1. RstBit(l) = 0 \/ RstBit(l) = 1
  BY DEF RstBit
<1>2. CASE RstBit(l) = 1
  BY <1>2 DEF RstBit, Or2
<1>3. CASE RstBit(l) = 0
  <2>1. Or2(l) = l + 2
    BY <1>3 DEF Or2
  <2>2. (l + 2) \div 2 = l \div 2 + 1
    OBVIOUS
  <2>3. (l \div 2 + 1) % 2 = 1
    BY <1>3 DEF RstBit
  <2> QED
    BY <2>1, <2>2, <2>3 DEF RstBit
<1> QED
  BY <1>1, <1>2, <1>3

-----------------------------------------------------------------------------
(* Where set_voltage() is, and what the registers hold then. *)

All(regs, v) == \A k \in Regs : regs[k] = v

InShift == {"shift", "shifting"}
Loaded  == {"store", "storing", "enable", "clko", "high", "low", "release"}
Powered == {"clko", "high", "low", "release"}

(* The unit works only while set_voltage() waits for it. *)
Waits ==
  /\ shifting => pc = "shifting" /\ ~done /\ din = value
  /\ storing => pc = "storing" /\ ~done
  /\ pc = "shifting" => din = value

(* The chain fills up with the new voltage and is full before it is stored. *)
Fills ==
  /\ pc = "reset" => i = 0
  /\ pc = "shift" => \A k \in Regs : k <= i => chain[k] = value
  /\ pc = "shifting" => \A k \in Regs : k <= (IF shifting THEN i ELSE i + 1) => chain[k] = value
  /\ pc \in Loaded => All(chain, value)

Calls ==
  /\ pc # "idle" => g_voltage = value /\ (value = ASIC_0V <=> pc = "off")
  /\ pc \in Powered => oe /\ All(storage, value)
  /\ pc = "storing" /\ done => All(storage, value)
  /\ pc = "store" /\ i > 0 => All(storage, value)
  /\ pc = "enable" => All(storage, value)
  /\ pc \in {"high", "low", "release"} => clk25m_on
  /\ pc = "release" => wasReset \/ heldUp

Inv == TypeOK /\ Waits /\ Fills /\ Calls /\ NoOtherVoltage /\ Agrees /\ ResetBeforeUse

(* The unit finishes a shift. *)
LEMMA ShiftDoneKeeps ==
  ASSUME Inv, ShiftDone
  PROVE  Inv'
<1>1. /\ pc = "shifting" /\ din = value /\ shifting' = FALSE /\ done' = TRUE /\ ~storing
      /\ chain' = [k \in Regs |-> IF k = 1 THEN din ELSE chain[k - 1]]
      /\ UNCHANGED <<ram, boot, call, oe, storing, din, storage, pins, history>>
  BY DEF ShiftDone, Inv, Waits
<1>2. i \in 0 .. 4 /\ chain \in [Regs -> Held] /\ din \in AllVolts
  BY DEF Inv, TypeOK
<1>3. \A k \in Regs : chain'[k] = IF k = 1 THEN din ELSE chain[k - 1]
  BY <1>1
<1>4. chain' \in [Regs -> Held]
  BY <1>1, <1>2, Params DEF Regs, Held
<1>5. \A k \in Regs : k <= i + 1 => chain'[k] = value
  <2> SUFFICES ASSUME NEW k \in Regs, k <= i + 1 PROVE chain'[k] = value
    OBVIOUS
  <2>1. CASE k = 1
    BY <1>1, <1>3, <2>1
  <2>2. CASE k # 1
    <3>1. k - 1 \in Regs /\ k - 1 <= i
      BY <1>2, <2>2, Params DEF Regs
    <3>2. chain[k - 1] = value
      BY <1>1, <3>1 DEF Inv, Fills, ShiftDone
    <3> QED
      BY <1>3, <2>2, <3>2
  <2> QED
    BY <2>1, <2>2
<1>6. TypeOK'
  BY <1>1, <1>4 DEF Inv, TypeOK, ram, call, pins, history
<1>7. Fills'
  BY <1>1, <1>5 DEF Fills, Loaded, call
<1>8. Waits' /\ Calls' /\ NoOtherVoltage' /\ Agrees' /\ ResetBeforeUse'
  BY <1>1 DEF Inv, Waits, Calls, Powered, All, NoOtherVoltage, Agrees, ResetBeforeUse, ram, call, pins, history
<1> QED
  BY <1>6, <1>7, <1>8 DEF Inv

(* A store pulse, the last one or not. *)
LEMMA StoreKeeps ==
  ASSUME Inv, StorePulse \/ StoreDone
  PROVE  Inv'
<1>1. /\ pc = "storing" /\ storing /\ ~shifting /\ storage' = chain /\ All(chain, value)
      /\ UNCHANGED <<ram, boot, call, oe, shifting, din, chain, pins, before, heldUp>>
  BY DEF StorePulse, StoreDone, Stored, Inv, Waits, Fills, Loaded, unit
<1>2. /\ wasReset' = (wasReset /\ storage' = storage)
      /\ \/ storing' = storing /\ done' = done
         \/ storing' = FALSE /\ done' = TRUE
  BY DEF StorePulse, StoreDone, Fresh, unit
<1>3. TypeOK'
  <2>1. storage' \in [Regs -> Held]
    BY <1>1 DEF Inv, TypeOK
  <2>2. wasReset' \in BOOLEAN /\ storing' \in BOOLEAN /\ done' \in BOOLEAN
    BY <1>2 DEF Inv, TypeOK
  <2> QED
    BY <1>1, <2>1, <2>2 DEF Inv, TypeOK, ram, call, pins
<1>4. Waits' /\ Fills'
  <2>1. pc' = "storing" /\ shifting' = shifting /\ chain' = chain /\ value' = value
    BY <1>1 DEF call
  <2>2. storing' => ~done'
    BY <1>1, <1>2 DEF Inv, Waits
  <2>3. Waits'
    BY <1>1, <2>1, <2>2 DEF Waits
  <2>4. Fills'
    BY <1>1, <2>1 DEF Fills, All
  <2> QED
    BY <2>3, <2>4
<1>5. Calls'
  <2>1. /\ pc' = "storing" /\ g_voltage' = g_voltage /\ value' = value /\ led' = led
        /\ storage' = chain /\ All(chain, value)
    BY <1>1 DEF ram, call
  <2>2. g_voltage = value /\ value # ASIC_0V
    BY <1>1 DEF Inv, Calls
  <2>3. All(storage', value')
    BY <2>1
  <2> QED
    BY <2>1, <2>2, <2>3 DEF Calls, Powered, All
<1>6. NoOtherVoltage'
  <2>1. g_voltage = value /\ value # ASIC_0V
    BY <1>1 DEF Inv, Calls
  <2>2. \A k \in Regs : storage'[k] = g_voltage
    BY <1>1, <2>1 DEF All
  <2> QED
    BY <1>1, <2>1, <2>2 DEF NoOtherVoltage, ram
<1>7. Agrees' /\ ResetBeforeUse'
  BY <1>1 DEF Agrees, ResetBeforeUse, call
<1> QED
  BY <1>3, <1>4, <1>5, <1>6, <1>7 DEF Inv

(* A call of set_voltage() with another voltage begins; one with the same does nothing. *)
LEMMA CallKeeps ==
  ASSUME Inv, Call
  PROVE  Inv'
<1>1. /\ pc = "idle" /\ UNCHANGED <<unit, hc595, pins, wasReset, heldUp>>
      /\ boot' \in {"off", "loop"} /\ ~shifting /\ ~storing
  BY DEF Call, Inv, Waits
<1>2. PICK v \in AllVolts : /\ Called(v)
                            /\ boot = "off" => v = ASIC_0V
                            /\ boot = "test" => boot' = "off"
  BY Params DEF Call, Inv, TypeOK
<1>3. CASE g_voltage = v
  <2>1. UNCHANGED <<ram, call, before>>
    BY <1>2, <1>3 DEF Called
  <2>2. TypeOK'
    BY <1>1, <2>1 DEF Inv, TypeOK, ram, call, unit, hc595, pins, history
  <2>3. Waits' /\ Fills' /\ Calls' /\ NoOtherVoltage' /\ ResetBeforeUse'
    BY <1>1, <2>1 DEF Inv, Waits, Fills, Calls, NoOtherVoltage, ResetBeforeUse, Loaded, Powered, All,
                      ram, call, unit, hc595, pins, history
  <2>4. Agrees'
    <3>1. oe => g_voltage # ASIC_0V
      BY <1>1 DEF Inv, NoOtherVoltage
    <3>2. CASE boot = "loop"
      BY <1>1, <2>1, <3>2 DEF Inv, Agrees, ram, call, unit
    <3>3. CASE boot = "off"
      BY <1>1, <1>2, <1>3, <2>1, <3>1, <3>3 DEF Agrees, ram, call, unit
    <3>4. CASE boot = "test"
      BY <1>2, <3>4 DEF Agrees
    <3> QED
      BY <3>2, <3>3, <3>4 DEF Inv, TypeOK
  <2> QED
    BY <2>2, <2>3, <2>4 DEF Inv
<1>4. CASE g_voltage # v
  <2>1. /\ before' = g_voltage /\ g_voltage' = v /\ value' = v /\ i' = 0 /\ led' = led
        /\ pc' = IF v = ASIC_0V THEN "off" ELSE "reset"
    BY <1>2, <1>4 DEF Called
  <2>2. TypeOK'
    BY <1>1, <1>2, <2>1 DEF Inv, TypeOK, unit, hc595, pins
  <2>3. Waits' /\ Fills' /\ Calls' /\ Agrees' /\ ResetBeforeUse'
    BY <1>1, <2>1 DEF Inv, Waits, Fills, Calls, Agrees, ResetBeforeUse, Loaded, Powered, unit, hc595, pins
  <2>4. NoOtherVoltage'
    BY <1>1, <2>1 DEF Inv, NoOtherVoltage, unit, hc595
  <2> QED
    BY <2>2, <2>3, <2>4 DEF Inv
<1> QED
  BY <1>3, <1>4

(* The steps of set_voltage(). *)
LEMMA SetVoltageKeeps ==
  ASSUME Inv, SetVoltage
  PROVE  Inv'
<1> USE DEF Inv, ram, call, unit, hc595, pins, history
<1>1. CASE WriteOff
  <2>1. TypeOK'
    BY <1>1 DEF WriteOff, TypeOK
  <2>2. Waits' /\ Fills' /\ Calls'
    BY <1>1 DEF WriteOff, Waits, Fills, Calls, Loaded, Powered
  <2>3. NoOtherVoltage' /\ Agrees' /\ ResetBeforeUse'
    BY <1>1 DEF WriteOff, Calls, NoOtherVoltage, Agrees, ResetBeforeUse
  <2> QED
    BY <2>1, <2>2, <2>3
<1>2. CASE WriteReset
  <2>1. TypeOK'
    BY <1>2 DEF WriteReset, TypeOK, Held
  <2>2. Waits' /\ Calls'
    BY <1>2 DEF WriteReset, Waits, Calls, Powered
  <2>3. Fills'
    <3>1. i = 0 /\ pc' = "shift" /\ i' = i
      BY <1>2 DEF WriteReset, Fills
    <3> QED
      BY <3>1, Params DEF Fills, Loaded, Regs
  <2>4. NoOtherVoltage' /\ Agrees' /\ ResetBeforeUse'
    BY <1>2 DEF WriteReset, NoOtherVoltage, Agrees, ResetBeforeUse
  <2> QED
    BY <2>1, <2>2, <2>3, <2>4
<1>3. CASE WriteShift
  <2>1. TypeOK'
    BY <1>3 DEF WriteShift, TypeOK
  <2>2. Waits' /\ Fills' /\ Calls'
    BY <1>3 DEF WriteShift, Waits, Fills, Calls, Loaded, Powered
  <2>3. NoOtherVoltage' /\ Agrees' /\ ResetBeforeUse'
    BY <1>3 DEF WriteShift, NoOtherVoltage, Agrees, ResetBeforeUse
  <2> QED
    BY <2>1, <2>2, <2>3
<1>4. CASE WaitShift
  <2>1. TypeOK'
    BY <1>4 DEF WaitShift, TypeOK, Rounds
  <2>2. ~shifting /\ ~storing /\ pc = "shifting" /\ i \in 0 .. 4
    BY <1>4 DEF WaitShift, Finished, Waits, TypeOK
  <2>3. Waits' /\ Calls'
    BY <1>4, <2>2 DEF WaitShift, Waits, Calls, Powered
  <2>4. Fills'
    <3>1. \A k \in Regs : k <= i + 1 => chain[k] = value
      BY <2>2 DEF Fills
    <3>2. CASE i + 1 < Rounds
      <4>1. pc' = "shift" /\ i' = i + 1 /\ chain' = chain /\ value' = value
        BY <1>4, <3>2 DEF WaitShift
      <4> QED
        BY <3>1, <4>1 DEF Fills, Loaded
    <3>3. CASE ~(i + 1 < Rounds)
      <4>1. pc' = "store" /\ chain' = chain /\ value' = value
        BY <1>4, <3>3 DEF WaitShift
      <4>2. i + 1 = 5
        BY <2>2, <3>3 DEF Rounds
      <4>3. All(chain, value)
        BY <3>1, <4>2, Params DEF All, Regs
      <4> QED
        BY <4>1, <4>3 DEF Fills, Loaded, All
    <3> QED
      BY <3>2, <3>3
  <2>5. NoOtherVoltage' /\ Agrees' /\ ResetBeforeUse'
    BY <1>4 DEF WaitShift, NoOtherVoltage, Agrees, ResetBeforeUse
  <2> QED
    BY <2>1, <2>3, <2>4, <2>5
<1>5. CASE WriteStore
  <2>1. TypeOK'
    BY <1>5 DEF WriteStore, TypeOK
  <2>2. Waits' /\ Fills' /\ Calls'
    BY <1>5 DEF WriteStore, Waits, Fills, Calls, Loaded, Powered, All
  <2>3. NoOtherVoltage' /\ Agrees' /\ ResetBeforeUse'
    BY <1>5 DEF WriteStore, NoOtherVoltage, Agrees, ResetBeforeUse
  <2> QED
    BY <2>1, <2>2, <2>3
<1>6. CASE WaitStore
  <2>1. TypeOK'
    BY <1>6 DEF WaitStore, TypeOK, Rounds
  <2>2. ~shifting /\ ~storing /\ All(storage, value)
    BY <1>6 DEF WaitStore, Finished, Waits, Calls
  <2>3. Waits' /\ Fills' /\ Calls'
    BY <1>6, <2>2 DEF WaitStore, Waits, Fills, Calls, Loaded, Powered, All
  <2>4. NoOtherVoltage' /\ Agrees' /\ ResetBeforeUse'
    BY <1>6 DEF WaitStore, NoOtherVoltage, Agrees, ResetBeforeUse
  <2> QED
    BY <2>1, <2>3, <2>4
<1>7. CASE WriteEnable
  <2>1. TypeOK'
    BY <1>7 DEF WriteEnable, TypeOK
  <2>2. Waits' /\ Fills' /\ Calls'
    BY <1>7 DEF WriteEnable, Waits, Fills, Calls, Loaded, Powered, All
  <2>3. NoOtherVoltage' /\ Agrees' /\ ResetBeforeUse'
    BY <1>7 DEF WriteEnable, Calls, All, NoOtherVoltage, Agrees, ResetBeforeUse
  <2> QED
    BY <2>1, <2>2, <2>3
<1>8. CASE Clko
  <2>1. TypeOK'
    BY <1>8 DEF Clko, TypeOK
  <2>2. Waits' /\ Fills' /\ Calls'
    BY <1>8 DEF Clko, Waits, Fills, Calls, Loaded, Powered, All
  <2>3. NoOtherVoltage' /\ Agrees' /\ ResetBeforeUse'
    BY <1>8 DEF Clko, NoOtherVoltage, Agrees, ResetBeforeUse
  <2> QED
    BY <2>1, <2>2, <2>3
<1>9. CASE ResetAsic
  <2>1. led \in Nat /\ Or2(led) \in Nat /\ RstBit(Or2(led)) = 1 /\ RstBit(led) \in {0, 1}
    <3>1. led \in Nat
      BY Params DEF TypeOK
    <3> QED
      BY <3>1, OrSets DEF RstBit
  <2>2. /\ pc \in {"high", "low", "release"} /\ oe /\ clk25m_on
        /\ pc' \in {"low", "release", "idle"} /\ gout' \in {led, Or2(led)}
        /\ wasReset' = (wasReset \/ (oe /\ clk25m_on /\ RstBit(gout') = 0))
        /\ UNCHANGED <<ram, boot, value, i, unit, hc595, clk25m_on, before>>
    BY <1>9 DEF ResetAsic, Gpio, Low, Calls, Powered
  <2>3. TypeOK'
    <3>1. gout' \in Nat /\ wasReset' \in BOOLEAN /\ heldUp' \in BOOLEAN
      BY <1>9, <2>1, <2>2 DEF ResetAsic, TypeOK
    <3> QED
      BY <2>2, <3>1 DEF TypeOK
  <2>4. Waits' /\ Fills'
    BY <2>2 DEF Waits, Fills, Loaded, All
  <2>5. pc' = "release" => gout' = led /\ heldUp' = (RstBit(led) = 1)
    BY <1>9 DEF ResetAsic, Gpio, Low
  <2>6. Calls'
    BY <2>1, <2>2, <2>5 DEF Calls, Powered, All
  <2>7. pc' = "idle" => gout' = Or2(led) /\ pc = "release" /\ heldUp' = heldUp
    BY <1>9 DEF ResetAsic, Gpio, Low
  <2>8. ResetBeforeUse'
    BY <2>1, <2>2, <2>7 DEF Calls, ResetBeforeUse
  <2>9. NoOtherVoltage' /\ Agrees'
    <3>1. g_voltage = value /\ value # ASIC_0V /\ All(storage, value)
      BY <2>2 DEF Calls, Powered
    <3> QED
      BY <2>2, <3>1 DEF NoOtherVoltage, Agrees, All
  <2> QED
    BY <2>3, <2>4, <2>6, <2>8, <2>9
<1> QED
  BY <1>1, <1>2, <1>3, <1>4, <1>5, <1>6, <1>7, <1>8, <1>9 DEF SetVoltage

(* The LEDs, between the calls. *)
LEMMA LedKeeps ==
  ASSUME Inv, GpioLed
  PROVE  Inv'
<1> USE DEF Inv, call, unit, hc595
<1>1. PICK l \in Leds : led' = l /\ Gpio(Or2(l))
  BY DEF GpioLed
<1>2. l \in Nat /\ Or2(l) \in Nat /\ RstBit(Or2(l)) = 1
  <2>1. l \in Nat
    BY Params
  <2> QED
    BY <2>1, OrSets
<1>3. /\ pc = "idle" /\ led' = l /\ gout' = Or2(l) /\ wasReset' = wasReset
      /\ UNCHANGED <<g_voltage, boot, call, unit, hc595, clk25m_on, before, heldUp>>
  BY <1>1, <1>2 DEF GpioLed, Gpio, TypeOK
<1>4. TypeOK'
  BY <1>2, <1>3 DEF TypeOK
<1>5. Waits' /\ Fills'
  BY <1>3 DEF Waits, Fills, Loaded
<1>6. Calls'
  BY <1>2, <1>3 DEF Calls, Powered
<1>7. NoOtherVoltage' /\ Agrees' /\ ResetBeforeUse'
  BY <1>2, <1>3 DEF NoOtherVoltage, Agrees, ResetBeforeUse
<1> QED
  BY <1>4, <1>5, <1>6, <1>7

(* A reset of the FPGA, whatever the unit and the firmware were doing. *)
LEMMA ResetKeeps ==
  ASSUME Inv, Reset
  PROVE  Inv'
<1>1. /\ oe' = FALSE /\ done' = FALSE /\ shifting' = FALSE /\ storing' = FALSE
      /\ gout' = 0 /\ clk25m_on' = FALSE /\ wasReset' = FALSE
      /\ boot' = "test" /\ pc' = "idle" /\ led' = 0
      /\ UNCHANGED <<g_voltage, value, i, din, before, heldUp>>
  BY DEF Reset
<1>2. chain' \in [Regs -> Held] /\ storage' \in [Regs -> Held]
  BY DEF Reset, Stored, Inv, TypeOK, Held
<1>3. TypeOK'
  BY <1>1, <1>2 DEF Inv, TypeOK
<1>5. Waits' /\ Fills' /\ Calls'
  BY <1>1 DEF Waits, Fills, Calls, Loaded, Powered
<1>6. NoOtherVoltage' /\ Agrees' /\ ResetBeforeUse'
  BY <1>1 DEF NoOtherVoltage, Agrees, ResetBeforeUse
<1> QED
  BY <1>3, <1>5, <1>6 DEF Inv

(* Every step keeps the invariant. *)
LEMMA Step ==
  ASSUME Inv, [Next]_vars
  PROVE  Inv'
<1>1. CASE UNCHANGED vars
  <2>1. UNCHANGED <<ram, boot, call, unit, hc595, pins, history>>
    BY <1>1 DEF vars
  <2>2. TypeOK' /\ Waits' /\ Fills'
    BY <2>1 DEF Inv, TypeOK, Waits, Fills, Loaded, All, ram, call, unit, hc595, pins, history
  <2>3. Calls'
    BY <2>1 DEF Inv, Calls, Powered, All, ram, call, unit, hc595, pins, history
  <2>4. NoOtherVoltage' /\ Agrees' /\ ResetBeforeUse'
    BY <2>1 DEF Inv, NoOtherVoltage, Agrees, ResetBeforeUse, ram, call, unit, hc595, pins, history
  <2> QED
    BY <2>2, <2>3, <2>4 DEF Inv
<1>2. CASE Next
  BY <1>2, ShiftDoneKeeps, StoreKeeps, CallKeeps, SetVoltageKeeps, LedKeeps, ResetKeeps DEF Next
<1> QED
  BY <1>1, <1>2

(* In the beginning the outputs are off. *)
LEMMA Start ==
  ASSUME Init
  PROVE  Inv
<1>1. chain \in [Regs -> Held] /\ storage \in [Regs -> Held]
  BY DEF Init, Held
<1>2. /\ oe \in BOOLEAN /\ done \in BOOLEAN /\ shifting \in BOOLEAN /\ storing \in BOOLEAN
      /\ clk25m_on \in BOOLEAN /\ wasReset \in BOOLEAN /\ heldUp \in BOOLEAN
  BY DEF Init
<1>3. TypeOK
  BY <1>1, <1>2, Params DEF Init, TypeOK
<1>5. Waits /\ Fills /\ Calls /\ NoOtherVoltage /\ Agrees /\ ResetBeforeUse
  BY DEF Init, Waits, Fills, Calls, Loaded, Powered, NoOtherVoltage, Agrees, ResetBeforeUse
<1> QED
  BY <1>3, <1>5 DEF Inv

(* The invariant, of which the theorems below are the parts that are promises. *)
LEMMA Invariant == FairSpec => []Inv
<1>1. Inv /\ [Next]_vars => Inv'
  BY Step
<1> QED
  BY Start, <1>1, PTL DEF FairSpec

(* Every variable keeps its type: no call shifts or stores more often than five times. *)
THEOREM TypeCorrect == FairSpec => []TypeOK
<1>1. Inv => TypeOK
  BY DEF Inv
<1> QED
  BY Invariant, <1>1, PTL

(* While the outputs are enabled they show one voltage, the new one or the former, and
   never a half-shifted register, for every chain of at most five registers. *)
THEOREM OneVoltage == FairSpec => []NoOtherVoltage
<1>1. Inv => NoOtherVoltage
  BY DEF Inv
<1> QED
  BY Invariant, <1>1, PTL

(* In the main loop g_voltage tells whether the ASICs have power, in spite of the resets
   that turn them off behind its back. *)
THEOREM VoltageKnown == FairSpec => []Agrees
<1>1. Inv => Agrees
  BY DEF Inv
<1> QED
  BY Invariant, <1>1, PTL

(* ASICs with power are out of the reset, and were reset under this voltage unless the LED
   byte, any byte the host chooses, left out the pulse. *)
THEOREM ResetFirst == FairSpec => []ResetBeforeUse
<1>1. Inv => ResetBeforeUse
  BY DEF Inv
<1> QED
  BY Invariant, <1>1, PTL
================================================================================
