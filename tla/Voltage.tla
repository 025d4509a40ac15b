-------------------------------- MODULE Voltage --------------------------------
(***************************************************************************)
(* The supply of the ASICs: set_voltage() of firmware/shifter.c, the shift  *)
(* unit of twi.v and shift.v, the chain of external 74HC595 registers it    *)
(* drives, and gpio_led(), clko_init() and gpio_reset_asic() of timer.c.    *)
(*                                                                         *)
(* The registers set the voltage while their outputs are enabled; with the  *)
(* outputs off the voltage is 0.  A reset of the FPGA can come at any time: *)
(* it disables the outputs and starts the firmware anew, but the external   *)
(* registers keep what they hold, and so does the RAM: crt0 clears .bss     *)
(* (led) and leaves .data (g_voltage) as it is.                             *)
(***************************************************************************)
EXTENDS Integers

CONSTANTS
  Volts,      \* values of set_voltage(), ASIC_0V apart; their low three bits are 0
  ASIC_0V,
  ASIC_CORETEST_VOLT,
  Chips,      \* registers in the chain
  Leds        \* values of gpio_led()

(* The LED byte shares its register with the reset line of the ASICs, bit 1.  The host
   (P_POLLING) chooses the whole byte. *)
RstBit(value) == (value \div 2) % 2
Or2(value) == value + (1 - RstBit(value)) * 2      \* value | 0x2

ASSUME VoltAssumption == ASIC_CORETEST_VOLT \in Volts /\ ASIC_0V \notin Volts
ASSUME ChipAssumption == Chips \in 1 .. 5
ASSUME LedAssumption == Leds \subseteq 0 .. 255

VARIABLES
  g_voltage, led,          \* RAM
  boot,                    \* main(): before its "test" of the cores, before the power-"off", "loop"
  pc, value, i,            \* set_voltage()
  oe, done, shifting, storing, din,   \* shift.v and sft_done_r of twi.v
  chain, storage,          \* the external registers
  gout, clk25m_on,         \* GPIO and CLKO of twi.v
  before,                  \* history: g_voltage before the last call
  wasReset,                \* history: the ASICs were reset under the present voltage
  heldUp                   \* history: the LED byte held the reset line up in the last pulse

ram  == <<g_voltage, led>>
call == <<pc, value, i>>
unit == <<oe, done, shifting, storing, din>>
hc595 == <<chain, storage>>
pins == <<gout, clk25m_on>>
history == <<before, wasReset, heldUp>>
vars == <<ram, boot, call, unit, hc595, pins, history>>

Empty == "zeros"          \* a register after the master reset
Junk == "bits"            \* a register in the middle of a shift
AllVolts == Volts \cup {ASIC_0V}
Regs == 1 .. Chips

-----------------------------------------------------------------------------
(* The shift unit works on its own. *)

ShiftDone ==
  /\ shifting /\ shifting' = FALSE /\ done' = TRUE
  /\ chain' = [k \in Regs |-> IF k = 1 THEN din ELSE chain[k - 1]]
  /\ UNCHANGED <<ram, boot, call, oe, storing, din, storage, pins, history>>

(* Every pulse copies the chain. *)
Stored == storage' = IF shifting THEN [k \in Regs |-> Junk] ELSE chain
Fresh == wasReset' = (wasReset /\ storage' = storage)

StorePulse ==
  /\ storing /\ Stored /\ Fresh
  /\ UNCHANGED <<ram, boot, call, unit, chain, pins, before, heldUp>>

StoreDone ==
  /\ storing /\ storing' = FALSE /\ done' = TRUE /\ Stored /\ Fresh
  /\ UNCHANGED <<ram, boot, call, oe, shifting, din, chain, pins, before, heldUp>>

-----------------------------------------------------------------------------
(* set_voltage(v), called by main() before its loop and by the loop and the handlers. *)

Called(v) ==
  IF g_voltage = v THEN UNCHANGED <<ram, call, before>>
  ELSE /\ before' = g_voltage /\ g_voltage' = v /\ value' = v
       /\ pc' = IF v = ASIC_0V THEN "off" ELSE "reset"
       /\ i' = 0 /\ UNCHANGED led

Call_NoPowerOff ==
  /\ pc = "idle"
  /\ \/ boot = "test" /\ Called(ASIC_CORETEST_VOLT) /\ boot' = "loop"
     \/ boot = "loop" /\ (\E v \in AllVolts : Called(v)) /\ UNCHANGED boot
  /\ UNCHANGED <<unit, hc595, pins, wasReset, heldUp>>

Call ==
  /\ pc = "idle"
  /\ \/ boot = "test" /\ Called(ASIC_CORETEST_VOLT) /\ boot' = "off"
     \/ boot = "off" /\ Called(ASIC_0V) /\ boot' = "loop"
     \/ boot = "loop" /\ (\E v \in AllVolts : Called(v)) /\ UNCHANGED boot
  /\ UNCHANGED <<unit, hc595, pins, wasReset, heldUp>>

(* writel(0x7): the outputs are disabled and the registers left alone. *)
WriteOff ==
  /\ pc = "off" /\ pc' = "idle" /\ oe' = FALSE /\ done' = FALSE
  /\ UNCHANGED <<ram, boot, value, i, shifting, storing, din, hc595, pins, history>>

(* writel(0): the master reset empties the chain, not its outputs. *)
WriteReset ==
  /\ pc = "reset" /\ pc' = "shift" /\ done' = FALSE
  /\ chain' = [k \in Regs |-> Empty]
  /\ UNCHANGED <<ram, boot, value, i, oe, shifting, storing, din, storage, pins, history>>

(* writel(value | 0x1) *)
WriteShift ==
  /\ pc = "shift" /\ pc' = "shifting" /\ done' = FALSE /\ shifting' = TRUE /\ din' = value
  /\ UNCHANGED <<ram, boot, value, i, oe, storing, hc595, pins, history>>

(* shift_done() *)
Finished_Unasked == TRUE
Finished_OtherBit == ~oe
Finished == done

Rounds_OneMore == 6
Rounds == 5

WaitShift ==
  /\ pc = "shifting" /\ Finished
  /\ IF i + 1 < Rounds THEN pc' = "shift" /\ i' = i + 1 ELSE pc' = "store" /\ i' = 0
  /\ UNCHANGED <<ram, boot, value, unit, hc595, pins, history>>

(* writel(0x2) *)
WriteStore ==
  /\ pc = "store" /\ pc' = "storing" /\ done' = FALSE /\ storing' = TRUE
  /\ UNCHANGED <<ram, boot, value, i, oe, shifting, din, hc595, pins, history>>

WaitStore ==
  /\ pc = "storing" /\ Finished
  /\ IF i + 1 < Rounds THEN pc' = "store" /\ i' = i + 1 ELSE pc' = "enable" /\ i' = 0
  /\ UNCHANGED <<ram, boot, value, unit, hc595, pins, history>>

(* writel(0x3) *)
WriteEnable ==
  /\ pc = "enable" /\ pc' = "clko" /\ oe' = TRUE /\ done' = FALSE
  /\ wasReset' = (wasReset /\ oe)
  /\ UNCHANGED <<ram, boot, value, i, shifting, storing, din, hc595, pins, before, heldUp>>

(* gpio_reset_asic(): the clock on, then the reset line high, low and high. *)
Clko ==
  /\ pc = "clko" /\ pc' = "high" /\ clk25m_on' = TRUE
  /\ UNCHANGED <<ram, boot, value, i, unit, hc595, gout, history>>

Gpio(v) == gout' = v /\ wasReset' = (wasReset \/ (oe /\ clk25m_on /\ RstBit(v) = 0))

Low_Released == Or2(led)
Low == led

ResetAsic ==
  /\ \/ pc = "high" /\ pc' = "low" /\ Gpio(Or2(led)) /\ UNCHANGED heldUp
     \/ pc = "low" /\ pc' = "release" /\ Gpio(Low) /\ heldUp' = (RstBit(led) = 1)
     \/ pc = "release" /\ pc' = "idle" /\ Gpio(Or2(led)) /\ UNCHANGED heldUp
  /\ UNCHANGED <<ram, boot, value, i, unit, hc595, clk25m_on, before>>

SetVoltage ==
  \/ WriteOff \/ WriteReset \/ WriteShift \/ WaitShift \/ WriteStore \/ WaitStore
  \/ WriteEnable \/ Clko \/ ResetAsic

-----------------------------------------------------------------------------
GpioLed ==
  /\ pc = "idle" /\ \E l \in Leds : led' = l /\ Gpio(Or2(l))
  /\ UNCHANGED <<g_voltage, boot, call, unit, hc595, clk25m_on, before, heldUp>>

(* The FPGA is reset; the registers of the chain may have been in the middle of a shift
   or of a store pulse. *)
Reset ==
  /\ oe' = FALSE /\ done' = FALSE /\ shifting' = FALSE /\ storing' = FALSE
  /\ gout' = 0 /\ clk25m_on' = FALSE /\ wasReset' = FALSE
  /\ chain' = IF shifting THEN [k \in Regs |-> Junk] ELSE chain
  /\ \/ UNCHANGED storage
     \/ storing /\ Stored
  /\ boot' = "test" /\ pc' = "idle" /\ led' = 0
  /\ UNCHANGED <<g_voltage, value, i, din, before, heldUp>>

Init ==
  /\ g_voltage = ASIC_0V /\ led = 0 /\ boot = "test"
  /\ pc = "idle" /\ value = ASIC_0V /\ i = 0
  /\ oe = FALSE /\ done = FALSE /\ shifting = FALSE /\ storing = FALSE /\ din = ASIC_0V
  /\ chain = [k \in Regs |-> Junk] /\ storage = [k \in Regs |-> Junk]
  /\ gout = 0 /\ clk25m_on = FALSE /\ before = ASIC_0V /\ wasReset = FALSE /\ heldUp = FALSE

Next == ShiftDone \/ StorePulse \/ StoreDone \/ Call \/ SetVoltage \/ GpioLed \/ Reset

(* The shift unit finishes what it began and the processor runs. *)
FairSpec ==
  /\ Init /\ [][Next]_vars
  /\ WF_vars(ShiftDone) /\ WF_vars(StoreDone) /\ WF_vars(SetVoltage)

-----------------------------------------------------------------------------
Held == AllVolts \cup {Empty, Junk}

TypeOK ==
  /\ g_voltage \in AllVolts /\ led \in Leds \cup {0} /\ boot \in {"test", "off", "loop"}
  /\ pc \in {"idle", "off", "reset", "shift", "shifting", "store", "storing", "enable",
             "clko", "high", "low", "release"}
  /\ value \in AllVolts /\ i \in 0 .. 4
  /\ oe \in BOOLEAN /\ done \in BOOLEAN /\ shifting \in BOOLEAN /\ storing \in BOOLEAN
  /\ din \in AllVolts /\ chain \in [Regs -> Held] /\ storage \in [Regs -> Held]
  /\ gout \in Nat /\ clk25m_on \in BOOLEAN /\ before \in AllVolts /\ wasReset \in BOOLEAN
  /\ heldUp \in BOOLEAN

(* The ASICs never see another voltage than the one set last or, during a call, the one
   before it: not a register half shifted, nor one register ahead of the others. *)
NoOtherVoltage ==
  oe => \E v \in {g_voltage} \cup (IF pc = "idle" THEN {} ELSE {before}) :
          v # ASIC_0V /\ \A k \in Regs : storage[k] = v

(* In the main loop g_voltage, which the host is told and which set_voltage() compares
   with, is the voltage of the ASICs: also after a reset of the FPGA, which turns the
   outputs off behind the back of g_voltage, because the loop is entered through a call
   with ASIC_0V. *)
Agrees == boot = "loop" /\ pc = "idle" => (oe <=> g_voltage # ASIC_0V)

(* ASICs that have power are out of the reset, and were reset since it is this voltage, with
   their clock running: unless the LED byte had bit 1 set when the pulse was due, which the
   host can do (main.c:226-227) and which leaves the pulse out (timer.c:114). *)
ResetBeforeUse == pc = "idle" /\ oe => RstBit(gout) = 1 /\ (wasReset \/ heldUp)

(* A call returns. *)
CallReturns == pc # "idle" ~> pc = "idle"
===============================================================================
