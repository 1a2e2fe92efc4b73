------------------------------- MODULE KbLeds ------------------------------
(***************************************************************************)
(* module5/task3: a kernel module whose timer blinks the keyboard LEDs     *)
(* that were written to /sys/kernel/kbled/led, until it is unloaded. The   *)
(* timer function runs on another processor than insmod, rmmod and the     *)
(* writers. del_timer takes back an armed timer; it does not wait for a    *)
(* function that is running (external: the kernel).                        *)
(***************************************************************************)
EXTENDS Integers

CONSTANTS Written,   \* numbers written to the sysfs file
          MaxStores  \* bound: writes

VARIABLES
  module,    \* "loaded", "attribute gone", "timer taken back" or "unloaded"
  timer,     \* the list entry: "armed" or "idle"
  func,      \* my_timer_func: "no", "entered" or "shown"
  led, _kbledstatus,
  leds,      \* what the keyboard shows
  overtaken,     \* the function was running when the timer was taken back
  stores

ledVars == <<module, timer, func, led, _kbledstatus, leds, overtaken, stores>>

ALL_LEDS_OFF == 0
ALL_LEDS_ON == 7
RESTORE_LEDS == 255

\* kbleds_init; sys_init's result is not looked at.
Init ==
  /\ module = "loaded" /\ timer = "armed" /\ func = "no"
  /\ led = 0 /\ _kbledstatus = 0 /\ leds = RESTORE_LEDS
  /\ overtaken = FALSE /\ stores = 0

\* Mutant: any number is taken.
led_store_any(n) ==
  /\ module = "loaded" /\ stores < MaxStores /\ stores' = stores + 1
  /\ led' = n
  /\ UNCHANGED <<module, timer, func, _kbledstatus, leds, overtaken>>
led_store(n) ==
  /\ module = "loaded" /\ stores < MaxStores /\ stores' = stores + 1
  /\ led' = IF n \in ALL_LEDS_OFF..ALL_LEDS_ON THEN n ELSE led
  /\ UNCHANGED <<module, timer, func, _kbledstatus, leds, overtaken>>

-----------------------------------------------------------------------------
\* The timer expires; what it blinks is decided at once ...
Expire ==
  /\ timer = "armed" /\ func = "no"
  /\ timer' = "idle" /\ func' = "entered"
  /\ _kbledstatus' = IF _kbledstatus = led THEN ALL_LEDS_OFF ELSE led
  /\ UNCHANGED <<module, led, leds, overtaken, stores>>

\* ... then shown with an ioctl ...
Show ==
  /\ func = "entered" /\ func' = "shown"
  /\ leds' = _kbledstatus
  /\ UNCHANGED <<module, timer, led, _kbledstatus, overtaken, stores>>

\* ... and the timer is armed again.
AddTimer ==
  /\ func = "shown" /\ func' = "no" /\ timer' = "armed"
  /\ UNCHANGED <<module, led, _kbledstatus, leds, overtaken, stores>>

-----------------------------------------------------------------------------
\* kbleds_cleanup: the sysfs file goes, the timer is taken back, the LEDs are
\* the keyboard's again.
sys_exit ==
  /\ module = "loaded" /\ module' = "attribute gone"
  /\ UNCHANGED <<timer, func, led, _kbledstatus, leds, overtaken, stores>>

\* Mutant: the LEDs are restored, but the timer is left.
NoDelTimer ==
  /\ module = "attribute gone" /\ module' = "timer taken back"
  /\ UNCHANGED <<timer, func, led, _kbledstatus, leds, overtaken, stores>>
del_timer ==
  /\ module = "attribute gone" /\ module' = "timer taken back"
  /\ timer' = "idle" /\ overtaken' = (func # "no")
  /\ UNCHANGED <<func, led, _kbledstatus, leds, stores>>

Restore ==
  /\ module = "timer taken back" /\ module' = "unloaded"
  /\ leds' = RESTORE_LEDS
  /\ UNCHANGED <<timer, func, led, _kbledstatus, overtaken, stores>>

Next ==
  \/ \E n \in Written : led_store(n)
  \/ Expire \/ Show \/ AddTimer
  \/ sys_exit \/ del_timer \/ Restore

Spec == Init /\ [][Next]_ledVars

\* Nothing of the module is left when it is unloaded: no timer is armed, none of
\* its code runs and the keyboard shows its own state, unless the timer function
\* was running when del_timer was called; then it blinks on, from memory that is
\* gone (kbleds.c:91-102, 134-141). While it is loaded the keyboard shows its
\* own state or LEDs that exist.
UnloadIsClean ==
  /\ module = "unloaded" /\ ~overtaken => timer = "idle" /\ func = "no" /\ leds = RESTORE_LEDS
  /\ leds \in ALL_LEDS_OFF..ALL_LEDS_ON \union {RESTORE_LEDS}
=============================================================================
