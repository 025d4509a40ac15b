------------------------------- MODULE Watchdog -------------------------------
(***************************************************************************)
(* The watchdog of the TWI block (twi.v) and the main loop that feeds it.   *)
(* One register holds the enable bit (bit 0) and the counter (bits 26..1);  *)
(* wdg_init() and wdg_feed() both write the whole register.                 *)
(*                                                                         *)
(* The loop can get stuck: once get_pkg() has seen the 'A' 'V' of a package *)
(* it reads with uart_read(), which spins until the next byte comes, so a   *)
(* package the line cut short holds it for as long as the host is silent.   *)
(***************************************************************************)
EXTENDS Naturals

CONSTANTS
  CntWidth,   \* width of wdg_cnt, 26 in twi.v
  FeedValue   \* (CPU_FREQUENCY / 1000) * 2, what main() feeds

VARIABLES
  wdg_en, wdg_cnt,   \* twi.v
  loop               \* the firmware: "reset", "inited", "running", "stuck"

vars == <<wdg_en, wdg_cnt, loop>>

Init == wdg_en = FALSE /\ wdg_cnt = 0 /\ loop = "reset"

(* A bus write of d: both registers look at the enable bit as it was before. *)
WriteReg(d) ==
  /\ wdg_en' = (d % 2 = 1)
  /\ wdg_cnt' = IF wdg_en \/ d % 2 = 1 THEN (d \div 2) % 2^CntWidth
                ELSE IF wdg_cnt > 0 THEN wdg_cnt - 1 ELSE 0

WATCH_DOG == wdg_en /\ wdg_cnt \in {1, 2}

(* wdg_init(1) *)
WdgInit == loop = "reset" /\ ~WATCH_DOG /\ WriteReg(1) /\ loop' = "inited"

(* wdg_feed(): the first call comes from main(), the others from its loop. *)
WdgFeed ==
  /\ loop \in {"inited", "running"} /\ ~WATCH_DOG
  /\ WriteReg((FeedValue % 2^CntWidth) * 2) /\ loop' = "running"

(* The line cuts a package short; if the host ever sends on, the loop goes on. *)
CutShort == loop = "running" /\ ~WATCH_DOG /\ loop' = "stuck" /\ UNCHANGED <<wdg_en, wdg_cnt>>
SendOn == loop = "stuck" /\ ~WATCH_DOG /\ loop' = "running" /\ UNCHANGED <<wdg_en, wdg_cnt>>

Cycle == wdg_cnt > 0 /\ ~WATCH_DOG /\ wdg_cnt' = wdg_cnt - 1 /\ UNCHANGED <<wdg_en, loop>>

(* sys_reset restarts the whole FPGA. *)
SysReset == WATCH_DOG /\ wdg_en' = FALSE /\ wdg_cnt' = 0 /\ loop' = "reset"

Next == WdgInit \/ WdgFeed \/ CutShort \/ SendOn \/ Cycle \/ SysReset

(* The clock runs and so does the processor; the host owes nothing. *)
FairSpec ==
  /\ Init /\ [][Next]_vars
  /\ WF_vars(WdgInit) /\ WF_vars(WdgFeed) /\ WF_vars(Cycle) /\ WF_vars(SysReset)

(* main.c:379 on the first feed: "Configure the wdg to ~2 second, or it will
   reset FPGA".  A loop that stays stuck is ended by a reset. *)
StuckIsReset == loop = "stuck" ~> loop # "stuck"
===============================================================================
