------------------------------ MODULE Alarms ------------------------------
(***************************************************************************)
(* What driver_l2/system promises the owners of its software timers        *)
(* (sys_set_timer: "every interval time, it will send a message"): a timer *)
(* that is set rings after its period, then again and again after each     *)
(* period, until it is killed; nothing else makes it ring or stops it.     *)
(* The promise has an end: broken alarms ring or not as it comes.          *)
(***************************************************************************)
EXTENDS Naturals

CONSTANTS
  Timers,      \* the software timers
  Periods      \* in ticks of the 128 Hz time base

VARIABLES
  period,      \* the period of a timer that is set; 0 of one that is not
  due,         \* after how many ticks it rings
  rang,        \* the timers that rang at the last tick
  broken       \* the alarms have broken

alarmVars == <<period, due, rang, broken>>

Init ==
  /\ period = [k \in Timers |-> 0]
  /\ due = [k \in Timers |-> 0]
  /\ rang = {}
  /\ broken = FALSE

Set(k, n) ==
  /\ period[k] = 0
  /\ period' = [period EXCEPT ![k] = n]
  /\ due' = [due EXCEPT ![k] = n]
  /\ UNCHANGED rang

Kill(k) ==
  /\ period[k] # 0
  /\ period' = [period EXCEPT ![k] = 0]
  /\ due' = [due EXCEPT ![k] = 0]
  /\ UNCHANGED rang

Tick ==
  /\ rang' = {k \in Timers : due[k] = 1}
  /\ due' = [k \in Timers |->
               CASE due[k] = 0 -> 0
                 [] due[k] = 1 -> period[k]
                 [] OTHER -> due[k] - 1]
  /\ UNCHANGED period

Works ==
  \/ \E k \in Timers, n \in Periods : Set(k, n)
  \/ \E k \in Timers : Kill(k)
  \/ Tick

\* The alarms break, or do anything once they are broken.
Break == broken' = TRUE

Next == (Works /\ UNCHANGED broken) \/ Break

Spec == Init /\ [][Next]_alarmVars
=============================================================================
