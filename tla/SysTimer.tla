------------------------------ MODULE SysTimer -----------------------------
(***************************************************************************)
(* driver_l2/system/src/system_timer.c: the software timers and the user   *)
(* ISRs that hang on the 128 Hz time base.  One word, gstSysTimerEnable,   *)
(* has a bit for every timer that runs and for every user ISR that is      *)
(* registered; the time base is set up when the word leaves 0 and stopped  *)
(* when it returns to 0.                                                   *)
(*                                                                         *)
(* Three tasks call these functions.  The tasks are preempted by tasks of  *)
(* higher priority and by the time base's interrupt, and `|=` and `&=` on  *)
(* the word are a load and a store, so a call is a sequence of steps.  A   *)
(* timer belongs to one task, which sets it only when it does not run and  *)
(* kills it only when it does (the callers keep an id that is 0xFF when    *)
(* the timer does not run).                                                *)
(*                                                                         *)
(* Nothing guards these calls, and in three moments a task that comes      *)
(* between the steps of another does harm.  The history variable raced     *)
(* remembers that it has happened; it steers nothing.  What the timers     *)
(* promise, they promise until then.                                       *)
(***************************************************************************)
EXTENDS Naturals, Functions

CONSTANTS
  Tasks,          \* the tasks that call
  Priority,       \* their uC/OS-II priorities: a lower number goes first
  Timers,         \* timer ids
  UserIsrs,       \* functions for sys_registe_timer_isr
  NULL,           \* no function
  Owner,          \* whose a timer or a user ISR is
  Intervals,      \* the intervals callers pass
  MaxIsrs         \* MAX_SYSTEM_TIMER_ISR

MAX_SYSTEM_TIMER == 7

ASSUME SysTimerAssumption ==
  /\ Priority \in [Tasks -> Nat]
  /\ Timers \subseteq 0 .. MAX_SYSTEM_TIMER - 1
  /\ NULL \notin UserIsrs
  /\ Timers \cap UserIsrs = {}
  /\ Owner \in [Timers \cup UserIsrs -> Tasks]
  /\ Intervals \subseteq Nat \ {0}
  /\ MaxIsrs \in Nat \ {0}

IsrSlots == 0 .. MaxIsrs - 1
IsrBit(i) == MAX_SYSTEM_TIMER + i
Bits == Timers \cup {IsrBit(i) : i \in IsrSlots}

VARIABLES
  enable,         \* gstSysTimerEnable: the bits that are 1
  base,           \* the time base interrupts
  tick, interval, \* gstSysTimer[k].CurrentTick and .Interval
  isr,            \* gTimeBaseC_ISR
  pc,             \* where each task is
  adds,           \* does its call set a bit, or clear one?
  what,           \* the timer or user ISR it is about
  bit,            \* its bit
  arg,            \* the interval it passes
  seen,           \* what the task has loaded of the enable word
  running,        \* the timers their owners have set and not killed
  rang,           \* the timers whose message the last tick sent
  raced           \* history: a task has come between the steps of another

callVars == <<adds, what, bit, arg>>
clockVars == <<tick, interval, rang>>
vars == <<enable, base, clockVars, isr, pc, callVars, seen, running, raced>>

AllIdle == \A t \in Tasks : pc[t] = "idle"

\* A task runs when no task of higher priority does.
Runs(t) == \A u \in Tasks : Priority[u] < Priority[t] => pc[u] = "idle"

At(t, step) == pc[t] = step /\ Runs(t)
Goto(t, step) == pc' = [pc EXCEPT ![t] = step]
-----------------------------------------------------------------------------
\* sys_init_timer
Init ==
  /\ enable = {}
  /\ base = FALSE
  /\ tick = [k \in Timers |-> 0]
  /\ interval = [k \in Timers |-> 0]
  /\ isr = [i \in IsrSlots |-> NULL]
  /\ pc = [t \in Tasks |-> "idle"]
  /\ adds = [t \in Tasks |-> FALSE]
  /\ what = [t \in Tasks |-> NULL]
  /\ bit = [t \in Tasks |-> MAX_SYSTEM_TIMER]
  /\ seen = [t \in Tasks |-> {}]
  /\ running = {}
  /\ rang = {}
  /\ arg = [t \in Tasks |-> 0]
  /\ raced = FALSE

\* A call returns and its variables are gone.
Return(t) ==
  /\ pc' = [pc EXCEPT ![t] = "idle"]
  /\ adds' = [adds EXCEPT ![t] = FALSE]
  /\ what' = [what EXCEPT ![t] = NULL]
  /\ bit' = [bit EXCEPT ![t] = MAX_SYSTEM_TIMER]
  /\ arg' = [arg EXCEPT ![t] = 0]

Call(t, adding, x) ==
  /\ At(t, "idle")
  /\ Owner[x] = t
  /\ adds' = [adds EXCEPT ![t] = adding]
  /\ what' = [what EXCEPT ![t] = x]

\* sys_set_timer fills the timer's record before it enables the timer.
SetTimer(t, k, n) ==
  /\ k \notin running
  /\ Call(t, TRUE, k)
  /\ bit' = [bit EXCEPT ![t] = k]
  /\ arg' = [arg EXCEPT ![t] = n]
  /\ tick' = [tick EXCEPT ![k] = n]
  /\ Goto(t, "record")
  /\ UNCHANGED <<enable, base, interval, rang, isr, seen, running, raced>>

\* sys_kill_timer
KillTimer(t, k) ==
  /\ k \in running
  /\ Call(t, FALSE, k)
  /\ bit' = [bit EXCEPT ![t] = k]
  /\ Goto(t, "load")
  /\ UNCHANGED <<enable, base, clockVars, isr, arg, seen, running, raced>>

\* sys_registe_timer_isr returns at once when the function is in the table.
RegisterIsr(t, f) ==
  /\ f \notin Range(isr)
  /\ Call(t, TRUE, f)
  /\ Goto(t, "check")
  /\ UNCHANGED <<enable, base, clockVars, isr, bit, arg, seen, running, raced>>

\* Mutant: the function stays in the table.
ReleaseIsrKeeping(t, f) ==
  /\ Call(t, FALSE, f)
  /\ \E i \in IsrSlots :
       /\ isr[i] = f
       /\ bit' = [bit EXCEPT ![t] = IsrBit(i)]
  /\ Goto(t, "load")
  /\ UNCHANGED <<enable, base, clockVars, isr, arg, seen, running, raced>>

\* sys_release_timer_isr
ReleaseIsr(t, f) ==
  /\ Call(t, FALSE, f)
  /\ \E i \in IsrSlots :
       /\ isr[i] = f
       /\ isr' = [isr EXCEPT ![i] = NULL]
       /\ bit' = [bit EXCEPT ![t] = IsrBit(i)]
  /\ Goto(t, "load")
  /\ UNCHANGED <<enable, base, clockVars, arg, seen, running, raced>>
-----------------------------------------------------------------------------
(* The steps of a call.                                                    *)

\* Another task has loaded the word and is about to store it, or has found it
\* 0 and is about to stop the time base.
LookedAtWord(t) == \E u \in Tasks \ {t} : pc[u] \in {"store", "stop"}

\* Another task has seen to it that the time base runs and is about to set a bit.
CountsOnBase(t) ==
  \E u \in Tasks \ {t} : adds[u] /\ pc[u] \in {"enter", "fill", "load", "store"}

\* Another task is about to set or clear this bit.
AboutBit(t, b) ==
  \E u \in Tasks \ {t} : bit[u] = b /\ pc[u] \in {"fill", "load", "store"}

FillRecord(t) ==
  /\ At(t, "record")
  /\ interval' = [interval EXCEPT ![what[t]] = arg[t]]
  /\ Goto(t, "check")
  /\ UNCHANGED <<enable, base, tick, rang, isr, callVars, seen, running, raced>>

\* Mutant: the test is inverted.
CheckBaseInverted(t) ==
  /\ At(t, "check")
  /\ Goto(t, IF enable # {} THEN "setup" ELSE IF what[t] \in Timers THEN "load" ELSE "enter")
  /\ UNCHANGED <<enable, base, clockVars, isr, callVars, seen, running, raced>>

CheckBase(t) ==
  /\ At(t, "check")
  /\ Goto(t, IF enable = {} THEN "setup" ELSE IF what[t] \in Timers THEN "load" ELSE "enter")
  /\ UNCHANGED <<enable, base, clockVars, isr, callVars, seen, running, raced>>

\* time_base_setup
SetupBase(t) ==
  /\ At(t, "setup")
  /\ base' = TRUE
  /\ Goto(t, IF what[t] \in Timers THEN "load" ELSE "enter")
  /\ UNCHANGED <<enable, clockVars, isr, callVars, seen, running, raced>>

\* The first free entry of the table, if there is one.  Another task may be
\* about to fill it, or may have taken its function out and not cleared its bit.
EnterIsr(t) ==
  LET free == {i \in IsrSlots : isr[i] = NULL}
      first == CHOOSE i \in free : \A j \in free : i <= j
  IN  /\ At(t, "enter")
      /\ IF free = {}
           THEN Return(t) /\ UNCHANGED raced
           ELSE /\ bit' = [bit EXCEPT ![t] = IsrBit(first)]
                /\ raced' = (raced \/ AboutBit(t, IsrBit(first)))
                /\ Goto(t, "fill")
                /\ UNCHANGED <<adds, what, arg>>
      /\ UNCHANGED <<enable, base, clockVars, isr, seen, running>>

FillIsr(t) ==
  /\ At(t, "fill")
  /\ isr' = [i \in IsrSlots |-> IF bit[t] = IsrBit(i) THEN what[t] ELSE isr[i]]
  /\ Goto(t, "load")
  /\ UNCHANGED <<enable, base, clockVars, callVars, seen, running, raced>>

Load(t) ==
  /\ At(t, "load")
  /\ seen' = [seen EXCEPT ![t] = enable]
  /\ Goto(t, "store")
  /\ UNCHANGED <<enable, base, clockVars, isr, callVars, running, raced>>

\* Mutant: the other bits are lost.
StoreOnly(t) ==
  /\ At(t, "store")
  /\ IF adds[t]
       THEN /\ enable' = {bit[t]}
            /\ running' = running \cup ({what[t]} \cap Timers)
            /\ Return(t)
       ELSE /\ enable' = seen[t] \ {bit[t]}
            /\ running' = running \ {what[t]}
            /\ Goto(t, "test")
            /\ UNCHANGED callVars
  /\ seen' = [seen EXCEPT ![t] = {}]
  /\ raced' = (raced \/ LookedAtWord(t))
  /\ UNCHANGED <<base, clockVars, isr>>

Store(t) ==
  /\ At(t, "store")
  /\ IF adds[t]
       THEN /\ enable' = seen[t] \cup {bit[t]}
            /\ running' = running \cup ({what[t]} \cap Timers)
            /\ Return(t)
       ELSE /\ enable' = seen[t] \ {bit[t]}
            /\ running' = running \ {what[t]}
            /\ Goto(t, "test")
            /\ UNCHANGED callVars
  /\ seen' = [seen EXCEPT ![t] = {}]
  /\ raced' = (raced \/ LookedAtWord(t))
  /\ UNCHANGED <<base, clockVars, isr>>

Test(t) ==
  /\ At(t, "test")
  /\ IF enable = {} THEN Goto(t, "stop") /\ UNCHANGED callVars ELSE Return(t)
  /\ UNCHANGED <<enable, base, clockVars, isr, seen, running, raced>>

\* time_base_stop
StopBase(t) ==
  /\ At(t, "stop")
  /\ base' = FALSE
  /\ raced' = (raced \/ CountsOnBase(t))
  /\ Return(t)
  /\ UNCHANGED <<enable, clockVars, isr, seen, running>>

Step(t) ==
  \/ FillRecord(t) \/ CheckBase(t) \/ SetupBase(t) \/ EnterIsr(t) \/ FillIsr(t)
  \/ Load(t) \/ Store(t) \/ Test(t) \/ StopBase(t)
-----------------------------------------------------------------------------
\* Mutant: the tick counter is not reloaded.
TimeBaseOneShot ==
  LET on == enable \cap Timers
  IN  /\ base
      /\ rang' = {k \in on : tick[k] = 1}
      /\ tick' = [k \in Timers |-> IF k \notin on THEN tick[k] ELSE tick[k] - 1]
      /\ UNCHANGED <<enable, base, interval, isr, pc, callVars, seen, running, raced>>

\* Mutant: the counter is tested before it is decremented.
TimeBaseLate ==
  LET on == enable \cap Timers
  IN  /\ base
      /\ rang' = {k \in on : tick[k] = 0}
      /\ tick' = [k \in Timers |->
                    IF k \notin on THEN tick[k]
                    ELSE IF tick[k] = 0 THEN interval[k] ELSE tick[k] - 1]
      /\ UNCHANGED <<enable, base, interval, isr, pc, callVars, seen, running, raced>>

\* TimeBaseC_ISR
TimeBaseC_ISR ==
  LET on == enable \cap Timers
  IN  /\ base
      /\ rang' = {k \in on : tick[k] = 1}
      /\ tick' = [k \in Timers |->
                    IF k \notin on THEN tick[k]
                    ELSE IF tick[k] = 1 THEN interval[k] ELSE tick[k] - 1]
      /\ UNCHANGED <<enable, base, interval, isr, pc, callVars, seen, running, raced>>

Next ==
  \/ \E t \in Tasks :
       \/ \E k \in Timers, n \in Intervals : SetTimer(t, k, n)
       \/ \E k \in Timers : KillTimer(t, k)
       \/ \E f \in UserIsrs : RegisterIsr(t, f) \/ ReleaseIsr(t, f)
       \/ Step(t)
  \/ TimeBaseC_ISR

Spec == Init /\ [][Next]_vars

\* A task that has begun a call goes on, and the time base ticks.
Fairness ==
  /\ \A t \in Tasks : WF_vars(Step(t))
  /\ WF_vars(TimeBaseC_ISR)

FairSpec == Spec /\ Fairness
-----------------------------------------------------------------------------
TypeOK ==
  /\ enable \subseteq Bits
  /\ base \in BOOLEAN
  /\ interval \in [Timers -> Intervals \cup {0}]
  /\ tick \in [Timers -> Nat]
  /\ \A k \in enable \cap Timers : tick[k] > 0 /\ interval[k] > 0
  /\ isr \in [IsrSlots -> UserIsrs \cup {NULL}]
  /\ pc \in [Tasks -> {"idle", "record", "check", "setup", "enter", "fill",
                       "load", "store", "test", "stop"}]
  /\ adds \in [Tasks -> BOOLEAN]
  /\ what \in [Tasks -> Timers \cup UserIsrs \cup {NULL}]
  /\ bit \in [Tasks -> Bits \cup {MAX_SYSTEM_TIMER}]
  /\ arg \in [Tasks -> Intervals \cup {0}]
  /\ seen \in [Tasks -> SUBSET Bits]
  /\ running \subseteq Timers
  /\ rang \subseteq Timers
  /\ raced \in BOOLEAN

Registered == {IsrBit(i) : i \in {j \in IsrSlots : isr[j] # NULL}}

(* Between calls the enable word says what the callers have asked for: a   *)
(* timer that was set and not killed runs, whatever the other tasks did    *)
(* with the word meanwhile, and a timer that was killed does not.          *)
WordHolds == AllIdle => enable = running \cup Registered

(* The same until a task has raced another: stores between another's load  *)
(* and store, between its test for 0 and its stopping the time base, or    *)
(* enters a function where another is about to; however else the calls of  *)
(* the three tasks preempt one another (gstSysTimerEnable).                *)
WordTrue == ~ raced => WordHolds

(* Until then, between calls, the time base runs exactly while somebody    *)
(* needs it (time_base_setup and time_base_stop).                          *)
BaseFollows == ~ raced /\ AllIdle => (base <=> enable # {})

Busy(t) == pc[t] # "idle"
Changing(t) == pc[t] \in {"load", "store"}

\* How far the call of a task has come with the timer or user ISR it is about.
InProgress(t) ==
  /\ Busy(t) => what[t] \in Timers \cup UserIsrs /\ Owner[what[t]] = t
  /\ pc[t] = "record" => adds[t] /\ what[t] \in Timers /\ arg[t] \in Intervals
  /\ pc[t] \in {"check", "setup"} => adds[t]
  /\ pc[t] \in {"enter", "fill"} => adds[t] /\ what[t] \in UserIsrs
  /\ pc[t] \in {"test", "stop"} => ~ adds[t]
  /\ Busy(t) /\ what[t] \in Timers /\ adds[t] =>
       /\ bit[t] = what[t]
       /\ what[t] \notin running
       /\ tick[what[t]] = IF pc[t] = "record" THEN arg[t] ELSE interval[what[t]]
       /\ tick[what[t]] \in Intervals
  /\ Changing(t) /\ what[t] \in Timers /\ ~ adds[t] =>
       bit[t] = what[t] /\ what[t] \in running
  /\ pc[t] = "store" => seen[t] = enable
  /\ pc[t] = "stop" => enable = {}

\* An entry of the table and its bit differ while a call is about them.
About(t, i) == bit[t] = IsrBit(i) /\ pc[t] \in {"fill", "load", "store"}

IsrInProgress(t) ==
  /\ pc[t] = "fill" \/ (Changing(t) /\ what[t] \in UserIsrs) =>
       \E i \in IsrSlots :
         /\ bit[t] = IsrBit(i)
         /\ isr[i] = IF adds[t] /\ Changing(t) THEN what[t] ELSE NULL
         /\ adds[t] <=> IsrBit(i) \notin enable
  /\ \A u \in Tasks \ {t}, i \in IsrSlots : ~ (About(t, i) /\ About(u, i))

IsrBits ==
  \A i \in IsrSlots :
    (IsrBit(i) \in enable <=> isr[i] # NULL) \/ \E t \in Tasks : About(t, i)

\* Whoever needs the time base has it, and it runs for somebody.
SetsBit(t) == adds[t] /\ pc[t] \in {"enter", "fill", "load", "store"}

BaseInProgress ==
  /\ enable # {} \/ (\E t \in Tasks : SetsBit(t)) => base
  /\ base => \/ enable # {}
             \/ \E t \in Tasks : SetsBit(t) \/ pc[t] \in {"test", "stop"}

(* The inductive invariant behind WordTrue, BaseFollows and                *)
(* ImplementsAlarms.                                                       *)
Sound ==
  /\ enable \cap Timers = running
  /\ \A t \in Tasks : InProgress(t) /\ IsrInProgress(t)
  /\ IsrBits
  /\ BaseInProgress

IInv == raced \/ Sound

(* Each timer is an alarm that its owner sets and kills, and that nobody   *)
(* else disturbs, until a task has raced another.                          *)
A == INSTANCE Alarms WITH
       Periods <- Intervals,
       period <- [k \in Timers |-> IF k \in enable THEN interval[k] ELSE 0],
       due <- [k \in Timers |-> IF k \in enable THEN tick[k] ELSE 0],
       broken <- raced

ImplementsAlarms == A!Spec

(* A timer that runs rings, unless it is killed or a task races another.   *)
TimerRings ==
  \A k \in Timers : k \in running ~> k \in rang \/ k \notin running \/ raced
=============================================================================
