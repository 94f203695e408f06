--------------------------- MODULE SysTimerProofs --------------------------
(***************************************************************************)
(* What holds of the software timers for any number of tasks, timers and   *)
(* user ISRs, whatever the tasks' priorities: the calls may cut one        *)
(* another anywhere, and the time base may interrupt at any step.  Nothing *)
(* is assumed of races either: the word, the time base and the alarms are  *)
(* right until the step of a task that is one (raced).                     *)
(***************************************************************************)
EXTENDS SysTimer, WellFoundedInduction, TLAPS

USE DEF IsrBit, MAX_SYSTEM_TIMER

(* The bits of the user ISRs are not those of the timers, and differ.      *)
LEMMA BitsDiffer ==
  /\ \A i \in IsrSlots : IsrBit(i) \notin Timers /\ IsrBit(i) \in Bits
  /\ \A i, j \in IsrSlots : IsrBit(i) = IsrBit(j) => i = j
  /\ Timers \subseteq Bits
  /\ MAX_SYSTEM_TIMER \notin Timers
BY SysTimerAssumption DEF IsrSlots, Bits

(* No caller passes the interval 0.                                        *)
LEMMA IntervalsPositive == \A n \in Intervals : n \in Nat /\ n > 0
BY SysTimerAssumption

(* The search for a free entry of the table finds the first one.           *)
LEMMA LeastSlot ==
  ASSUME NEW S \in SUBSET IsrSlots, S # {}
  PROVE  \E i \in S : \A j \in S : i <= j
<1>1. S \subseteq Nat
  BY SysTimerAssumption DEF IsrSlots
<1>2. PICK s \in S : \A r \in S : ~ (<<r, s>> \in OpToRel(<, Nat))
  BY <1>1, NatLessThanWellFounded, WFMin
<1>3. \A r \in S : ~ (r < s)
  BY <1>1, <1>2 DEF OpToRel
<1>4. QED
  BY <1>1, <1>3

-----------------------------------------------------------------------------
(* The types, also after a race: a timer whose bit is set, loaded or about *)
(* to be set has ticks left and an interval to reload them from.           *)
Steps == {"idle", "record", "check", "setup", "enter", "fill", "load", "store", "test", "stop"}

Ready(k) == tick[k] > 0 /\ interval[k] > 0

CallShape(t) ==
  /\ Busy(t) => what[t] \in Timers \cup UserIsrs
  /\ pc[t] = "record" => adds[t] /\ what[t] \in Timers /\ arg[t] \in Intervals /\ tick[what[t]] > 0
  /\ pc[t] \in {"enter", "fill"} => what[t] \in UserIsrs
  /\ pc[t] \in {"fill", "load", "store"} => bit[t] \in Bits
  /\ pc[t] \in {"fill", "load", "store"} /\ bit[t] \in Timers => what[t] = bit[t]
  /\ Busy(t) /\ what[t] \in Timers => bit[t] = what[t]
  /\ pc[t] \in {"check", "setup", "load", "store"} /\ adds[t] /\ what[t] \in Timers => Ready(what[t])
  /\ \A k \in Timers : k \in seen[t] => Ready(k)

Shapes == TypeOK /\ \A t \in Tasks : CallShape(t)

(* A timer that is ready stays so: nobody passes an interval of 0, and the *)
(* interrupt reloads the counter before it is 0.                           *)
LEMMA StaysReady ==
  ASSUME Shapes, [Next]_vars
  PROVE  /\ \A k \in Timers : Ready(k) => Ready(k)'
         /\ \A k \in Timers : tick[k] > 0 => tick'[k] > 0
<1>1. CASE UNCHANGED vars
  BY <1>1 DEF vars, clockVars, Ready
<1>2. ASSUME NEW t \in Tasks, NEW j \in Timers, NEW n \in Intervals, SetTimer(t, j, n)
      PROVE  \A k \in Timers : (Ready(k) => Ready(k)') /\ (tick[k] > 0 => tick'[k] > 0)
  BY <1>2, IntervalsPositive DEF SetTimer, Ready, Shapes, TypeOK
<1>3. ASSUME NEW t \in Tasks, FillRecord(t)
      PROVE  \A k \in Timers : (Ready(k) => Ready(k)') /\ (tick[k] > 0 => tick'[k] > 0)
  <2>1. what[t] \in Timers /\ arg[t] \in Intervals
    BY <1>3 DEF FillRecord, At, Shapes, CallShape
  <2>2. QED
    BY <1>3, <2>1, IntervalsPositive DEF FillRecord, Ready, Shapes, TypeOK
<1>4. CASE TimeBaseC_ISR
  <2> SUFFICES ASSUME NEW k \in Timers
               PROVE  (Ready(k) => Ready(k)') /\ (tick[k] > 0 => tick'[k] > 0)
    OBVIOUS
  <2>1. /\ tick'[k] = IF k \notin enable THEN tick[k]
                      ELSE IF tick[k] = 1 THEN interval[k] ELSE tick[k] - 1
        /\ interval'[k] = interval[k]
    BY <1>4 DEF TimeBaseC_ISR
  <2>2. tick[k] \in Nat /\ (k \in enable => interval[k] > 0)
    BY DEF Shapes, TypeOK
  <2>3. QED
    BY <2>1, <2>2 DEF Ready
<1>5. ASSUME NEW t \in Tasks,
             \/ \E k \in Timers : KillTimer(t, k)
             \/ \E f \in UserIsrs : RegisterIsr(t, f) \/ ReleaseIsr(t, f)
             \/ CheckBase(t) \/ SetupBase(t) \/ EnterIsr(t) \/ FillIsr(t)
             \/ Load(t) \/ Store(t) \/ Test(t) \/ StopBase(t)
      PROVE  UNCHANGED <<tick, interval>>
  BY <1>5 DEF KillTimer, RegisterIsr, ReleaseIsr, CheckBase, SetupBase, EnterIsr, FillIsr,
     Load, Store, Test, StopBase, clockVars
<1>6. QED
  BY <1>1, <1>2, <1>3, <1>4, <1>5 DEF Next, Step, Ready

(* A step of one task leaves the others' calls as they are.                *)
LEMMA ShapeElsewhere ==
  ASSUME Shapes, [Next]_vars, NEW u \in Tasks,
         pc'[u] = pc[u], what'[u] = what[u], bit'[u] = bit[u], arg'[u] = arg[u],
         adds'[u] = adds[u], seen'[u] = seen[u]
  PROVE  CallShape(u)'
<1>1. CallShape(u)
  BY DEF Shapes
<1>2. /\ \A k \in Timers : Ready(k) => Ready(k)'
      /\ \A k \in Timers : tick[k] > 0 => tick'[k] > 0
  BY StaysReady
<1> HIDE DEF Ready
<1>3. \A k \in Timers : k \in seen'[u] => Ready(k)'
  BY <1>1, <1>2 DEF CallShape
<1>4. (Busy(u) => what[u] \in Timers \cup UserIsrs)'
  BY <1>1 DEF CallShape, Busy
<1>5. (pc[u] = "record" => adds[u] /\ what[u] \in Timers /\ arg[u] \in Intervals /\ tick[what[u]] > 0)'
  BY <1>1, <1>2 DEF CallShape
<1>6. (pc[u] \in {"check", "setup", "load", "store"} /\ adds[u] /\ what[u] \in Timers => Ready(what[u]))'
  <2>1. SUFFICES ASSUME pc'[u] \in {"check", "setup", "load", "store"}, adds'[u], what'[u] \in Timers
                 PROVE  \A k \in Timers : k = what[u] => Ready(k)'
    <3>1. what'[u] \in Timers /\ what'[u] = what[u] => (Ready(what[u])' <=> \E k \in Timers : k = what[u] /\ Ready(k)')
      BY DEF Ready
    <3>2. QED
      BY <2>1, <3>1
  <2>2. QED
    BY <1>1, <1>2, <2>1 DEF CallShape
<1>7. QED
  BY <1>1, <1>3, <1>4, <1>5, <1>6 DEF CallShape, Busy

LEMMA InitShapes == Init => Shapes
<1> SUFFICES ASSUME Init PROVE Shapes
  OBVIOUS
<1>1. /\ pc \in [Tasks -> Steps]
      /\ adds \in [Tasks -> BOOLEAN]
      /\ what \in [Tasks -> Timers \cup UserIsrs \cup {NULL}]
  BY DEF Init, Steps
<1>2. /\ bit \in [Tasks -> Bits \cup {MAX_SYSTEM_TIMER}]
      /\ seen \in [Tasks -> SUBSET Bits]
      /\ arg \in [Tasks -> Intervals \cup {0}]
  BY DEF Init
<1>3. /\ isr \in [IsrSlots -> UserIsrs \cup {NULL}]
      /\ interval \in [Timers -> Intervals \cup {0}]
      /\ tick \in [Timers -> Nat]
  BY DEF Init
<1>4. TypeOK
  BY <1>1, <1>2, <1>3 DEF Init, TypeOK, Steps
<1>5. \A t \in Tasks : pc[t] = "idle" /\ seen[t] = {}
  BY DEF Init
<1>6. \A t \in Tasks : CallShape(t)
  BY <1>5 DEF CallShape, Busy
<1>7. QED
  BY <1>4, <1>6 DEF Shapes

(* A call begins.                                                          *)
LEMMA CallShapes ==
  ASSUME Shapes, NEW t \in Tasks,
         \/ \E k \in Timers, n \in Intervals : SetTimer(t, k, n)
         \/ \E k \in Timers : KillTimer(t, k)
         \/ \E f \in UserIsrs : RegisterIsr(t, f) \/ ReleaseIsr(t, f)
  PROVE  Shapes'
<1>0. /\ TypeOK /\ \A u \in Tasks : CallShape(u)
      /\ Timers \cap UserIsrs = {}
      /\ [Next]_vars
  BY SysTimerAssumption DEF Shapes, Next
<1>1. ASSUME NEW k \in Timers, NEW n \in Intervals, SetTimer(t, k, n) PROVE Shapes'
  <2>1. /\ tick' = [tick EXCEPT ![k] = n] /\ n > 0 /\ n \in Nat
        /\ pc' = [pc EXCEPT ![t] = "record"] /\ what' = [what EXCEPT ![t] = k]
        /\ bit' = [bit EXCEPT ![t] = k] /\ adds' = [adds EXCEPT ![t] = TRUE]
        /\ arg' = [arg EXCEPT ![t] = n]
        /\ UNCHANGED <<enable, base, interval, rang, isr, seen, running, raced>>
        /\ k \in Bits
    BY <1>1, IntervalsPositive, BitsDiffer DEF SetTimer, Call, Goto
  <2>2. TypeOK'
    <3>1. pc' \in [Tasks -> Steps] /\ what' \in [Tasks -> Timers \cup UserIsrs \cup {NULL}]
      BY <1>0, <2>1 DEF TypeOK, Steps
    <3>2. adds' \in [Tasks -> BOOLEAN]
      BY <1>0, <2>1 DEF TypeOK
    <3>3. bit' \in [Tasks -> Bits \cup {MAX_SYSTEM_TIMER}] /\ arg' \in [Tasks -> Intervals \cup {0}]
      BY <1>0, <2>1 DEF TypeOK
    <3>4. tick' \in [Timers -> Nat] /\ \A j \in enable' \cap Timers : tick'[j] > 0 /\ interval'[j] > 0
      BY <1>0, <2>1 DEF TypeOK
    <3>5. QED
      BY <1>0, <2>1, <3>1, <3>2, <3>3, <3>4 DEF TypeOK, Steps
  <2>3. CallShape(t)'
    <3>1. /\ pc'[t] = "record" /\ what'[t] = k /\ bit'[t] = k /\ adds'[t] /\ arg'[t] = n
          /\ tick'[k] > 0 /\ seen'[t] = seen[t]
      BY <1>0, <2>1 DEF TypeOK
    <3>2. \A j \in Timers : j \in seen[t] => Ready(j)'
      BY <1>0, StaysReady DEF CallShape
    <3>3. QED
      BY <3>1, <3>2 DEF CallShape, Busy
  <2>4. \A u \in Tasks \ {t} : CallShape(u)'
    BY <1>0, <2>1, ShapeElsewhere DEF TypeOK
  <2>5. QED
    BY <2>2, <2>3, <2>4 DEF Shapes
<1>2. ASSUME NEW k \in Timers, KillTimer(t, k) PROVE Shapes'
  <2>1. /\ pc' = [pc EXCEPT ![t] = "load"] /\ what' = [what EXCEPT ![t] = k]
        /\ bit' = [bit EXCEPT ![t] = k] /\ adds' = [adds EXCEPT ![t] = FALSE]
        /\ UNCHANGED <<enable, base, tick, interval, rang, isr, arg, seen, running, raced>>
        /\ k \in Bits
    BY <1>2, BitsDiffer DEF KillTimer, Call, Goto, clockVars
  <2>2. TypeOK'
    BY <1>0, <2>1 DEF TypeOK
  <2>3. CallShape(t)'
    <3>1. pc'[t] = "load" /\ what'[t] = k /\ bit'[t] = k /\ ~ adds'[t] /\ seen'[t] = seen[t]
      BY <1>0, <2>1 DEF TypeOK
    <3>2. \A j \in Timers : j \in seen[t] => Ready(j)'
      BY <1>0, StaysReady DEF CallShape
    <3>3. QED
      BY <2>1, <3>1, <3>2 DEF CallShape, Busy
  <2>4. \A u \in Tasks \ {t} : CallShape(u)'
    BY <1>0, <2>1, ShapeElsewhere DEF TypeOK
  <2>5. QED
    BY <2>2, <2>3, <2>4 DEF Shapes
<1>3. ASSUME NEW f \in UserIsrs, RegisterIsr(t, f) PROVE Shapes'
  <2>1. /\ pc' = [pc EXCEPT ![t] = "check"] /\ what' = [what EXCEPT ![t] = f]
        /\ adds' = [adds EXCEPT ![t] = TRUE]
        /\ UNCHANGED <<enable, base, tick, interval, rang, isr, bit, arg, seen, running, raced>>
    BY <1>3 DEF RegisterIsr, Call, Goto, clockVars
  <2>2. TypeOK'
    BY <1>0, <2>1 DEF TypeOK
  <2>3. CallShape(t)'
    <3>1. pc'[t] = "check" /\ what'[t] = f /\ f \notin Timers /\ seen'[t] = seen[t]
      BY <1>0, <2>1 DEF TypeOK
    <3>2. \A j \in Timers : j \in seen[t] => Ready(j)'
      BY <1>0, StaysReady DEF CallShape
    <3>3. QED
      BY <3>1, <3>2 DEF CallShape, Busy
  <2>4. \A u \in Tasks \ {t} : CallShape(u)'
    BY <1>0, <2>1, ShapeElsewhere DEF TypeOK
  <2>5. QED
    BY <2>2, <2>3, <2>4 DEF Shapes
<1>4. ASSUME NEW f \in UserIsrs, ReleaseIsr(t, f) PROVE Shapes'
  <2>0. PICK i \in IsrSlots : /\ isr' = [isr EXCEPT ![i] = NULL]
                              /\ bit' = [bit EXCEPT ![t] = IsrBit(i)]
    BY <1>4 DEF ReleaseIsr
  <2>1. /\ pc' = [pc EXCEPT ![t] = "load"] /\ what' = [what EXCEPT ![t] = f]
        /\ adds' = [adds EXCEPT ![t] = FALSE]
        /\ UNCHANGED <<enable, base, tick, interval, rang, arg, seen, running, raced>>
        /\ IsrBit(i) \in Bits \ Timers
    BY <1>4, BitsDiffer DEF ReleaseIsr, Call, Goto, clockVars
  <2>2. TypeOK'
    BY <1>0, <2>0, <2>1 DEF TypeOK
  <2>3. CallShape(t)'
    <3>1. pc'[t] = "load" /\ what'[t] = f /\ f \notin Timers /\ bit'[t] = IsrBit(i) /\ seen'[t] = seen[t]
      BY <1>0, <2>0, <2>1 DEF TypeOK
    <3>2. \A j \in Timers : j \in seen[t] => Ready(j)'
      BY <1>0, StaysReady DEF CallShape
    <3>3. QED
      BY <2>1, <3>1, <3>2 DEF CallShape, Busy
  <2>4. \A u \in Tasks \ {t} : CallShape(u)'
    BY <1>0, <2>0, <2>1, ShapeElsewhere DEF TypeOK
  <2>5. QED
    BY <2>2, <2>3, <2>4 DEF Shapes
<1>5. QED
  BY <1>1, <1>2, <1>3, <1>4

LEMMA StepShapes ==
  ASSUME Shapes, NEW t \in Tasks, Step(t)
  PROVE  Shapes'
<1>0. /\ TypeOK /\ \A u \in Tasks : CallShape(u)
      /\ Timers \cap UserIsrs = {}
      /\ [Next]_vars
  BY SysTimerAssumption DEF Shapes, Next
<1>1. \A u \in Tasks \ {t} :
        /\ pc'[u] = pc[u] /\ what'[u] = what[u] /\ bit'[u] = bit[u] /\ arg'[u] = arg[u]
        /\ adds'[u] = adds[u] /\ seen'[u] = seen[u]
  BY <1>0 DEF Step, FillRecord, CheckBase, SetupBase, EnterIsr, FillIsr, Load, Store, Test,
     StopBase, Goto, Return, callVars, TypeOK
<1>2. \A u \in Tasks \ {t} : CallShape(u)'
  BY <1>0, <1>1, ShapeElsewhere
<1>3. (\A k \in Timers : Ready(k) => Ready(k)') /\ (\A k \in Timers : tick[k] > 0 => tick'[k] > 0)
  BY <1>0, StaysReady
<1>4. SUFFICES TypeOK' /\ CallShape(t)'
  BY <1>2 DEF Shapes
<1>5. ASSUME Return(t),
             seen' = seen \/ seen' = [seen EXCEPT ![t] = {}]
      PROVE  /\ pc' \in [Tasks -> Steps] /\ what' \in [Tasks -> Timers \cup UserIsrs \cup {NULL}]
             /\ adds' \in [Tasks -> BOOLEAN] /\ bit' \in [Tasks -> Bits \cup {MAX_SYSTEM_TIMER}]
             /\ arg' \in [Tasks -> Intervals \cup {0}]
             /\ CallShape(t)'
  <2>1. /\ pc' \in [Tasks -> Steps] /\ what' \in [Tasks -> Timers \cup UserIsrs \cup {NULL}]
        /\ bit' \in [Tasks -> Bits \cup {MAX_SYSTEM_TIMER}]
        /\ arg' \in [Tasks -> Intervals \cup {0}]
        /\ pc'[t] = "idle"
    BY <1>0, <1>5 DEF Return, TypeOK, Steps
  <2>2. adds' \in [Tasks -> BOOLEAN]
    BY <1>0, <1>5 DEF Return, TypeOK
  <2>3. \A k \in Timers : k \in seen'[t] => Ready(k)'
    BY <1>0, <1>3, <1>5 DEF CallShape, TypeOK
  <2>4. QED
    BY <2>1, <2>2, <2>3 DEF CallShape, Busy
<1>6. CASE FillRecord(t)
  <2>1. /\ interval' = [interval EXCEPT ![what[t]] = arg[t]]
        /\ pc[t] = "record" /\ pc' = [pc EXCEPT ![t] = "check"]
        /\ UNCHANGED <<enable, base, tick, rang, isr, adds, what, bit, arg, seen, running, raced>>
    BY <1>6 DEF FillRecord, At, Goto, callVars
  <2>2. what[t] \in Timers /\ arg[t] \in Intervals /\ arg[t] > 0 /\ tick[what[t]] > 0
    BY <1>0, <2>1, IntervalsPositive DEF CallShape
  <2>3. TypeOK'
    <3>1. pc' \in [Tasks -> Steps] /\ interval' \in [Timers -> Intervals \cup {0}]
      BY <1>0, <2>1, <2>2 DEF TypeOK, Steps
    <3>2. \A j \in enable' \cap Timers : tick'[j] > 0 /\ interval'[j] > 0
      BY <1>0, <2>1, <2>2 DEF TypeOK
    <3>3. QED
      BY <1>0, <2>1, <3>1, <3>2 DEF TypeOK, Steps
  <2>4. CallShape(t)'
    <3>1. pc'[t] = "check" /\ Ready(what[t])'
      BY <1>0, <2>1, <2>2 DEF TypeOK, Ready
    <3>2. \A j \in Timers : j \in seen[t] => Ready(j)'
      BY <1>0, <1>3 DEF CallShape
    <3>3. QED
      BY <1>0, <2>1, <2>2, <3>1, <3>2 DEF CallShape, Busy, Ready
  <2>5. QED
    BY <2>3, <2>4
<1>7. CASE CheckBase(t) \/ SetupBase(t)
  <2>1. /\ base' \in BOOLEAN
        /\ UNCHANGED <<enable, tick, interval, rang, isr, adds, what, bit, arg, seen, running, raced>>
        /\ pc[t] \in {"check", "setup"}
    BY <1>0, <1>7 DEF CheckBase, SetupBase, At, clockVars, callVars, TypeOK
  <2>2. /\ pc' \in [Tasks -> Steps]
        /\ pc'[t] = "setup" \/ pc'[t] = IF what[t] \in Timers THEN "load" ELSE "enter"
    BY <1>0, <1>7 DEF CheckBase, SetupBase, Goto, TypeOK, Steps
  <2>3. TypeOK'
    BY <1>0, <2>1, <2>2 DEF TypeOK, Steps
  <2>4. \A j \in Timers : j \in seen[t] => Ready(j)'
    BY <1>0, <1>3 DEF CallShape
  <2>5. pc'[t] = "load" => bit[t] \in Bits
    BY <1>0, <2>1, <2>2, BitsDiffer DEF CallShape, Busy
  <2>6. pc'[t] = "load" => what[t] \in Timers
    BY <2>2
  <2>7. CallShape(t)'
    BY <1>0, <2>1, <2>2, <2>4, <2>5, <2>6 DEF CallShape, Busy, Ready
  <2>8. QED
    BY <2>3, <2>7
<1>8. CASE EnterIsr(t)
  <2> DEFINE free == {i \in IsrSlots : isr[i] = NULL}
             first == CHOOSE i \in free : \A j \in free : i <= j
  <2>1. /\ UNCHANGED <<enable, base, tick, interval, rang, isr, seen, running>>
        /\ pc[t] = "enter" /\ raced' \in BOOLEAN
    BY <1>0, <1>8 DEF EnterIsr, At, clockVars, TypeOK
  <2>2. CASE free = {}
    <3>1. Return(t)
      BY <1>8, <2>2 DEF EnterIsr
    <3>2. QED
      BY <1>0, <1>5, <2>1, <3>1 DEF TypeOK, Steps
  <2>3. CASE free # {}
    <3>1. first \in IsrSlots
      <4>1. \E i \in free : \A j \in free : i <= j
        BY <2>3, LeastSlot
      <4>2. QED
        BY <4>1
    <3>2. /\ bit' = [bit EXCEPT ![t] = IsrBit(first)]
          /\ pc' = [pc EXCEPT ![t] = "fill"]
          /\ UNCHANGED <<adds, what, arg>>
      BY <1>8, <2>3 DEF EnterIsr, Goto
    <3> HIDE DEF first
    <3>3. IsrBit(first) \in Bits \ Timers /\ what[t] \in UserIsrs
      BY <1>0, <2>1, <3>1, BitsDiffer DEF CallShape
    <3>4. TypeOK'
      BY <1>0, <2>1, <3>2, <3>3 DEF TypeOK
    <3>5. pc'[t] = "fill" /\ bit'[t] = IsrBit(first) /\ what[t] \notin Timers
      BY <1>0, <3>2, <3>3 DEF TypeOK
    <3>6. CallShape(t)'
      BY <1>0, <2>1, <3>2, <3>3, <3>5 DEF CallShape, Busy, Ready
    <3>7. QED
      BY <3>4, <3>6
  <2>4. QED
    BY <2>2, <2>3
<1>9. CASE FillIsr(t) \/ Load(t)
  <2>1. /\ UNCHANGED <<enable, base, tick, interval, rang, adds, what, bit, arg, running, raced>>
        /\ pc[t] \in {"fill", "load"}
        /\ pc' = [pc EXCEPT ![t] = IF pc[t] = "fill" THEN "load" ELSE "store"]
    BY <1>9 DEF FillIsr, Load, At, Goto, clockVars, callVars
  <2>2. /\ seen' = seen \/ seen' = [seen EXCEPT ![t] = enable]
        /\ isr' \in [IsrSlots -> UserIsrs \cup {NULL}]
    BY <1>0, <1>9 DEF FillIsr, Load, At, CallShape, TypeOK
  <2>3. pc' \in [Tasks -> Steps] /\ seen' \in [Tasks -> SUBSET Bits]
    BY <1>0, <2>1, <2>2 DEF TypeOK, Steps
  <2>4. TypeOK'
    BY <1>0, <2>1, <2>2, <2>3 DEF TypeOK, Steps
  <2>5. \A k \in Timers : k \in seen'[t] => Ready(k)'
    BY <1>0, <1>3, <2>2 DEF CallShape, TypeOK, Ready
  <2>6. pc'[t] \in {"load", "store"} /\ (pc[t] = "fill" => what[t] \in UserIsrs)
    BY <1>0, <2>1 DEF TypeOK, CallShape
  <2>7. CallShape(t)'
    BY <1>0, <2>1, <2>5, <2>6 DEF CallShape, Busy, Ready
  <2>8. QED
    BY <2>4, <2>7
<1>10. CASE Store(t)
  <2>1. /\ UNCHANGED <<base, tick, interval, rang, isr>>
        /\ pc[t] = "store" /\ seen' = [seen EXCEPT ![t] = {}]
        /\ enable' \subseteq seen[t] \/ (adds[t] /\ enable' = seen[t] \cup {bit[t]})
        /\ running' \subseteq running \cup (Timers \cap {what[t]})
        /\ raced' \in BOOLEAN
    BY <1>0, <1>10 DEF Store, At, clockVars, TypeOK
  <2>2. bit[t] \in Bits /\ (bit[t] \in Timers => what[t] = bit[t])
    BY <1>0, <2>1 DEF CallShape
  <2>3. \A k \in Timers : k \in enable' => Ready(k)
    BY <1>0, <2>1, <2>2 DEF CallShape
  <2>4. /\ enable' \subseteq Bits /\ running' \subseteq Timers /\ seen' \in [Tasks -> SUBSET Bits]
        /\ \A k \in enable' \cap Timers : tick'[k] > 0 /\ interval'[k] > 0
    BY <1>0, <2>1, <2>2, <2>3 DEF TypeOK, Ready
  <2>5. CASE Return(t)
    BY <1>0, <1>5, <2>1, <2>4, <2>5 DEF TypeOK, Steps
  <2>6. CASE Goto(t, "test") /\ UNCHANGED callVars
    <3>1. pc' = [pc EXCEPT ![t] = "test"] /\ UNCHANGED <<adds, what, bit, arg>>
      BY <2>6 DEF Goto, callVars
    <3>2. pc' \in [Tasks -> Steps] /\ pc'[t] = "test" /\ seen'[t] = {}
      BY <1>0, <2>1, <3>1 DEF TypeOK, Steps
    <3>3. TypeOK'
      BY <1>0, <2>1, <2>4, <3>1, <3>2 DEF TypeOK, Steps
    <3>4. CallShape(t)'
      BY <1>0, <2>1, <3>1, <3>2 DEF CallShape, Busy
    <3>5. QED
      BY <3>3, <3>4
  <2>7. QED
    BY <1>10, <2>5, <2>6 DEF Store
<1>11. CASE Test(t) \/ StopBase(t)
  <2>1. /\ UNCHANGED <<enable, tick, interval, rang, isr, seen, running>>
        /\ base' \in BOOLEAN /\ raced' \in BOOLEAN /\ pc[t] # "idle"
    BY <1>0, <1>11 DEF Test, StopBase, At, clockVars, TypeOK
  <2>2. CASE Return(t)
    BY <1>0, <1>5, <2>1, <2>2 DEF TypeOK, Steps
  <2>3. CASE Goto(t, "stop") /\ UNCHANGED callVars
    <3>1. pc' = [pc EXCEPT ![t] = "stop"] /\ UNCHANGED <<adds, what, bit, arg>>
      BY <2>3 DEF Goto, callVars
    <3>2. pc' \in [Tasks -> Steps] /\ pc'[t] = "stop"
      BY <1>0, <3>1 DEF TypeOK, Steps
    <3>3. TypeOK'
      BY <1>0, <2>1, <3>1, <3>2 DEF TypeOK, Steps
    <3>4. CallShape(t)'
      BY <1>0, <2>1, <3>1, <3>2 DEF CallShape, Busy, Ready
    <3>5. QED
      BY <3>3, <3>4
  <2>4. QED
    BY <1>11, <2>2, <2>3 DEF Test, StopBase
<1>12. QED
  BY <1>6, <1>7, <1>8, <1>9, <1>10, <1>11 DEF Step

LEMMA TickShapes ==
  ASSUME Shapes, TimeBaseC_ISR
  PROVE  Shapes'
<1>0. TypeOK /\ (\A t \in Tasks : CallShape(t)) /\ [Next]_vars
  BY DEF Shapes, Next
<1>1. /\ UNCHANGED <<enable, base, interval, isr, pc, adds, what, bit, arg, seen, running, raced>>
      /\ tick' = [k \in Timers |->
                    IF k \notin enable \cap Timers THEN tick[k]
                    ELSE IF tick[k] = 1 THEN interval[k] ELSE tick[k] - 1]
      /\ rang' \subseteq Timers
  BY DEF TimeBaseC_ISR, callVars
<1>2. ASSUME NEW k \in Timers
      PROVE  /\ tick'[k] \in Nat
             /\ k \in enable => tick'[k] > 0 /\ interval'[k] > 0
  <2>1. /\ tick[k] \in Nat /\ interval[k] \in Nat
        /\ k \in enable => tick[k] > 0 /\ interval[k] > 0
    BY <1>0, <1>2, IntervalsPositive DEF TypeOK
  <2>2. tick'[k] = IF k \notin enable THEN tick[k]
                   ELSE IF tick[k] = 1 THEN interval[k] ELSE tick[k] - 1
    BY <1>1, <1>2
  <2>3. QED
    BY <1>1, <2>1, <2>2
<1>3. tick' \in [Timers -> Nat]
  <2>1. tick' = [k \in Timers |-> tick'[k]]
    BY <1>1
  <2>2. QED
    BY <1>2, <2>1
<1>4. TypeOK'
  BY <1>0, <1>1, <1>2, <1>3 DEF TypeOK
<1>5. \A t \in Tasks : CallShape(t)'
  BY <1>0, <1>1, ShapeElsewhere
<1>6. QED
  BY <1>4, <1>5 DEF Shapes

LEMMA NextShapes == Shapes /\ [Next]_vars => Shapes'
<1> SUFFICES ASSUME Shapes, [Next]_vars PROVE Shapes'
  OBVIOUS
<1>1. CASE UNCHANGED vars
  BY <1>1 DEF vars, clockVars, callVars, Shapes, CallShape, Busy, Ready, TypeOK
<1>2. QED
  BY <1>1, CallShapes, StepShapes, TickShapes DEF Next

(* Every variable keeps its type, also when a call is cut by calls of      *)
(* other tasks: no bit without a timer or a table entry gets into the      *)
(* word, and no timer that runs has 0 ticks left, from where               *)
(* TimeBaseC_ISR would count down through the whole range.                 *)
THEOREM TimerTypeOK == Spec => []TypeOK
<1>1. Shapes => TypeOK
  BY DEF Shapes
<1>2. QED
  BY <1>1, InitShapes, NextShapes, PTL DEF Spec

-----------------------------------------------------------------------------
(* Until a race, the word, the table and the time base are sound.          *)

(* What a call about a user ISR has done so far to the table and its bit.  *)
Mine(t) ==
  pc[t] = "fill" \/ (Changing(t) /\ what[t] \in UserIsrs) =>
    \E i \in IsrSlots :
      /\ bit[t] = IsrBit(i)
      /\ isr[i] = IF adds[t] /\ Changing(t) THEN what[t] ELSE NULL
      /\ adds[t] <=> IsrBit(i) \notin enable

Alone(t) == \A u \in Tasks \ {t}, i \in IsrSlots : ~ (About(t, i) /\ About(u, i))

LEMMA SoundParts ==
  Sound <=> /\ enable \cap Timers = running
            /\ \A t \in Tasks : InProgress(t)
            /\ \A t \in Tasks : Mine(t)
            /\ \A t \in Tasks : Alone(t)
            /\ IsrBits
            /\ BaseInProgress
BY DEF Sound, IsrInProgress, Mine, Alone

LEMMA SoundPartsNext ==
  Sound' <=> /\ (enable \cap Timers = running)'
             /\ \A t \in Tasks : InProgress(t)'
             /\ \A t \in Tasks : Mine(t)'
             /\ \A t \in Tasks : Alone(t)'
             /\ IsrBits'
             /\ BaseInProgress'
BY DEF Sound, IsrInProgress, Mine, Alone

(* Two calls under way are about different things.                         *)
LEMMA NotTheSame ==
  ASSUME Sound, NEW t \in Tasks, NEW u \in Tasks, t # u, Busy(t), Busy(u)
  PROVE  what[t] # what[u]
BY DEF Sound, InProgress

(* Who is about an entry of the table is about its user ISR.               *)
LEMMA AboutIsr ==
  ASSUME Shapes, Sound, NEW t \in Tasks, NEW i \in IsrSlots, About(t, i)
  PROVE  /\ what[t] \in UserIsrs
         /\ isr[i] = IF adds[t] /\ Changing(t) THEN what[t] ELSE NULL
         /\ adds[t] <=> IsrBit(i) \notin enable
<1>1. /\ pc[t] \in {"fill", "load", "store"} /\ bit[t] = IsrBit(i)
      /\ Busy(t)
  BY DEF About, Busy
<1>2. what[t] \in UserIsrs
  BY <1>1, BitsDiffer DEF Shapes, CallShape
<1>3. PICK j \in IsrSlots :
        /\ bit[t] = IsrBit(j)
        /\ isr[j] = IF adds[t] /\ Changing(t) THEN what[t] ELSE NULL
        /\ adds[t] <=> IsrBit(j) \notin enable
  BY <1>1, <1>2, SoundParts DEF Mine, Changing
<1>4. i = j
  BY <1>1, <1>3, BitsDiffer
<1>5. QED
  BY <1>2, <1>3, <1>4

(* A task's call is where it was when another task has taken a step.       *)
LEMMA InProgressElsewhere ==
  ASSUME NEW t \in Tasks, InProgress(t),
         pc'[t] = pc[t], what'[t] = what[t], bit'[t] = bit[t], arg'[t] = arg[t],
         adds'[t] = adds[t], seen'[t] = seen[t],
         pc[t] \in {"store", "stop"} => enable' = enable,
         Busy(t) /\ what[t] \in Timers =>
           /\ what[t] \in running' <=> what[t] \in running
           /\ adds[t] => tick'[what[t]] = tick[what[t]] /\ interval'[what[t]] = interval[what[t]]
  PROVE  InProgress(t)'
BY DEF InProgress, Busy, Changing

LEMMA MineElsewhere ==
  ASSUME NEW t \in Tasks, Mine(t),
         pc'[t] = pc[t], what'[t] = what[t], bit'[t] = bit[t], adds'[t] = adds[t],
         \A i \in IsrSlots : About(t, i) =>
           /\ isr'[i] = isr[i]
           /\ IsrBit(i) \in enable' <=> IsrBit(i) \in enable
  PROVE  Mine(t)'
<1> SUFFICES ASSUME (pc[t] = "fill" \/ (Changing(t) /\ what[t] \in UserIsrs))'
             PROVE  \E i \in IsrSlots :
                      /\ bit[t] = IsrBit(i)
                      /\ isr'[i] = IF adds[t] /\ Changing(t) THEN what[t] ELSE NULL
                      /\ adds[t] <=> IsrBit(i) \notin enable'
  BY DEF Mine, Changing
<1>1. PICK i \in IsrSlots :
        /\ bit[t] = IsrBit(i)
        /\ isr[i] = IF adds[t] /\ Changing(t) THEN what[t] ELSE NULL
        /\ adds[t] <=> IsrBit(i) \notin enable
  BY DEF Mine, Changing
<1>2. About(t, i)
  BY <1>1 DEF About, Changing
<1>3. QED
  BY <1>1, <1>2

(* The word and the table are untouched by a step that enters no call into *)
(* an entry and takes none out of it.                                      *)
LEMMA TableElsewhere ==
  ASSUME Sound, NEW t \in Tasks, UNCHANGED <<enable, isr, running>>,
         \A u \in Tasks \ {t} :
           /\ pc'[u] = pc[u] /\ what'[u] = what[u] /\ bit'[u] = bit[u] /\ adds'[u] = adds[u],
         \A i \in IsrSlots : About(t, i)' <=> About(t, i),
         Mine(t)'
  PROVE  /\ (enable \cap Timers = running)'
         /\ \A u \in Tasks : Mine(u)'
         /\ \A u \in Tasks : Alone(u)'
         /\ IsrBits'
<1>1. \A u \in Tasks \ {t} : Mine(u)'
  BY SoundParts, MineElsewhere
<1>2. \A u \in Tasks, i \in IsrSlots : About(u, i)' <=> About(u, i)
  BY DEF About
<1>3. \A u \in Tasks : Alone(u)'
  BY <1>2, SoundParts DEF Alone
<1>4. IsrBits'
  BY <1>2, SoundParts DEF IsrBits
<1>5. QED
  BY <1>1, <1>3, <1>4, SoundParts

(* A call begins.                                                          *)
LEMMA SoundSetTimer ==
  ASSUME Shapes, Sound, NEW t \in Tasks, NEW k \in Timers, NEW n \in Intervals, SetTimer(t, k, n)
  PROVE  Sound'
<1>1. /\ pc[t] = "idle" /\ Owner[k] = t /\ k \notin running
      /\ pc' = [pc EXCEPT ![t] = "record"] /\ what' = [what EXCEPT ![t] = k]
      /\ adds' = [adds EXCEPT ![t] = TRUE] /\ bit' = [bit EXCEPT ![t] = k]
      /\ arg' = [arg EXCEPT ![t] = n] /\ tick' = [tick EXCEPT ![k] = n]
      /\ UNCHANGED <<enable, base, interval, isr, seen, running>>
  BY DEF SetTimer, Call, At, Goto
<1>2. /\ pc'[t] = "record" /\ what'[t] = k /\ adds'[t] /\ bit'[t] = k /\ arg'[t] = n /\ tick'[k] = n
      /\ \A u \in Tasks \ {t} :
           /\ pc'[u] = pc[u] /\ what'[u] = what[u] /\ bit'[u] = bit[u] /\ adds'[u] = adds[u]
           /\ arg'[u] = arg[u] /\ seen'[u] = seen[u]
      /\ \A j \in Timers \ {k} : tick'[j] = tick[j]
  BY <1>1 DEF Shapes, TypeOK
<1>3. InProgress(t)'
  BY <1>1, <1>2 DEF InProgress, Busy, Changing
<1>4. \A u \in Tasks \ {t} : InProgress(u)'
  <2> SUFFICES ASSUME NEW u \in Tasks \ {t} PROVE InProgress(u)'
    OBVIOUS
  <2>1. InProgress(u)
    BY SoundParts
  <2>2. Busy(u) => what[u] # k
    BY <1>1, <2>1 DEF InProgress
  <2>3. QED
    BY <1>1, <1>2, <2>1, <2>2, InProgressElsewhere
<1>5. Mine(t)' /\ \A i \in IsrSlots : ~ About(t, i)' /\ ~ About(t, i)
  BY <1>1, <1>2 DEF Mine, About, Changing
<1>6. BaseInProgress'
  <2>1. \A u \in Tasks : SetsBit(u)' <=> SetsBit(u)
    BY <1>1, <1>2 DEF SetsBit
  <2>2. \A u \in Tasks : pc'[u] \in {"test", "stop"} <=> pc[u] \in {"test", "stop"}
    BY <1>1, <1>2
  <2>3. QED
    BY <1>1, <2>1, <2>2, SoundParts DEF BaseInProgress
<1>7. QED
  BY <1>1, <1>2, <1>3, <1>4, <1>5, <1>6, TableElsewhere, SoundPartsNext

LEMMA SoundKillTimer ==
  ASSUME Shapes, Sound, NEW t \in Tasks, NEW k \in Timers, KillTimer(t, k)
  PROVE  Sound'
<1>1. /\ pc[t] = "idle" /\ Owner[k] = t /\ k \in running
      /\ pc' = [pc EXCEPT ![t] = "load"] /\ what' = [what EXCEPT ![t] = k]
      /\ adds' = [adds EXCEPT ![t] = FALSE] /\ bit' = [bit EXCEPT ![t] = k]
      /\ UNCHANGED <<enable, base, tick, interval, isr, arg, seen, running>>
  BY DEF KillTimer, Call, At, Goto, clockVars
<1>2. /\ pc'[t] = "load" /\ what'[t] = k /\ ~ adds'[t] /\ bit'[t] = k
      /\ \A u \in Tasks \ {t} :
           /\ pc'[u] = pc[u] /\ what'[u] = what[u] /\ bit'[u] = bit[u] /\ adds'[u] = adds[u]
           /\ arg'[u] = arg[u] /\ seen'[u] = seen[u]
  BY <1>1 DEF Shapes, TypeOK
<1>3. InProgress(t)'
  BY <1>1, <1>2 DEF InProgress, Busy, Changing
<1>4. \A u \in Tasks \ {t} : InProgress(u)'
  BY <1>1, <1>2, SoundParts, InProgressElsewhere
<1>5. Mine(t)' /\ \A i \in IsrSlots : ~ About(t, i)' /\ ~ About(t, i)
  BY <1>1, <1>2, BitsDiffer, SysTimerAssumption DEF Mine, About, Changing
<1>6. BaseInProgress'
  <2>1. (\A u \in Tasks : SetsBit(u)' <=> SetsBit(u)) /\ k \in enable
    BY <1>1, <1>2, SoundParts DEF SetsBit
  <2>2. QED
    BY <1>1, <2>1, SoundParts DEF BaseInProgress
<1>7. QED
  BY <1>1, <1>2, <1>3, <1>4, <1>5, <1>6, TableElsewhere, SoundPartsNext

LEMMA SoundRegisterIsr ==
  ASSUME Shapes, Sound, NEW t \in Tasks, NEW f \in UserIsrs, RegisterIsr(t, f)
  PROVE  Sound'
<1>1. /\ pc[t] = "idle" /\ Owner[f] = t
      /\ pc' = [pc EXCEPT ![t] = "check"] /\ what' = [what EXCEPT ![t] = f]
      /\ adds' = [adds EXCEPT ![t] = TRUE]
      /\ UNCHANGED <<enable, base, tick, interval, isr, bit, arg, seen, running>>
  BY DEF RegisterIsr, Call, At, Goto, clockVars
<1>2. /\ pc'[t] = "check" /\ what'[t] = f /\ adds'[t] /\ f \notin Timers
      /\ \A u \in Tasks \ {t} :
           /\ pc'[u] = pc[u] /\ what'[u] = what[u] /\ bit'[u] = bit[u] /\ adds'[u] = adds[u]
           /\ arg'[u] = arg[u] /\ seen'[u] = seen[u]
  BY <1>1, SysTimerAssumption DEF Shapes, TypeOK
<1>3. InProgress(t)'
  BY <1>1, <1>2 DEF InProgress, Busy, Changing
<1>4. \A u \in Tasks \ {t} : InProgress(u)'
  BY <1>1, <1>2, SoundParts, InProgressElsewhere
<1>5. Mine(t)' /\ \A i \in IsrSlots : ~ About(t, i)' /\ ~ About(t, i)
  BY <1>1, <1>2 DEF Mine, About, Changing
<1>6. BaseInProgress'
  <2>1. \A u \in Tasks : SetsBit(u)' <=> SetsBit(u)
    BY <1>1, <1>2 DEF SetsBit
  <2>2. \A u \in Tasks : pc'[u] \in {"test", "stop"} <=> pc[u] \in {"test", "stop"}
    BY <1>1, <1>2
  <2>3. QED
    BY <1>1, <2>1, <2>2, SoundParts DEF BaseInProgress
<1>7. QED
  BY <1>1, <1>2, <1>3, <1>4, <1>5, <1>6, TableElsewhere, SoundPartsNext

LEMMA SoundReleaseIsr ==
  ASSUME Shapes, Sound, NEW t \in Tasks, NEW f \in UserIsrs, ReleaseIsr(t, f)
  PROVE  Sound'
<1>0. PICK i \in IsrSlots : /\ isr[i] = f
                            /\ isr' = [isr EXCEPT ![i] = NULL]
                            /\ bit' = [bit EXCEPT ![t] = IsrBit(i)]
  BY DEF ReleaseIsr
<1>1. /\ pc[t] = "idle" /\ Owner[f] = t /\ f # NULL /\ f \notin Timers
      /\ pc' = [pc EXCEPT ![t] = "load"] /\ what' = [what EXCEPT ![t] = f]
      /\ adds' = [adds EXCEPT ![t] = FALSE]
      /\ UNCHANGED <<enable, base, tick, interval, arg, seen, running>>
  BY SysTimerAssumption DEF ReleaseIsr, Call, At, Goto, clockVars
<1>2. /\ pc'[t] = "load" /\ what'[t] = f /\ ~ adds'[t] /\ bit'[t] = IsrBit(i)
      /\ isr'[i] = NULL
      /\ \A j \in IsrSlots \ {i} : isr'[j] = isr[j]
      /\ \A u \in Tasks \ {t} :
           /\ pc'[u] = pc[u] /\ what'[u] = what[u] /\ bit'[u] = bit[u] /\ adds'[u] = adds[u]
           /\ arg'[u] = arg[u] /\ seen'[u] = seen[u]
  BY <1>0, <1>1 DEF Shapes, TypeOK
<1>3. \A u \in Tasks : ~ About(u, i)
  <2> SUFFICES ASSUME NEW u \in Tasks, About(u, i) PROVE FALSE
    OBVIOUS
  <2>1. isr[i] = what[u] \/ isr[i] = NULL
    BY AboutIsr
  <2>2. Owner[what[u]] = u
    BY SoundParts DEF About, InProgress, Busy
  <2>3. u # t
    BY <1>1 DEF About
  <2>4. QED
    BY <1>0, <1>1, <2>1, <2>2, <2>3
<1>4. IsrBit(i) \in enable
  BY <1>0, <1>1, <1>3, SoundParts DEF IsrBits
<1>5. InProgress(t)' /\ \A u \in Tasks \ {t} : InProgress(u)'
  <2>1. InProgress(t)'
    BY <1>1, <1>2 DEF InProgress, Busy, Changing
  <2>2. \A u \in Tasks \ {t} : InProgress(u)'
    BY <1>1, <1>2, SoundParts, InProgressElsewhere
  <2>3. QED
    BY <2>1, <2>2
<1>6. Mine(t)'
  BY <1>1, <1>2, <1>4 DEF Mine, Changing
<1>7. \A u \in Tasks \ {t} : Mine(u)'
  BY <1>1, <1>2, <1>3, SoundParts, MineElsewhere
<1>8. /\ \A j \in IsrSlots : About(t, j)' <=> j = i
      /\ \A u \in Tasks \ {t}, j \in IsrSlots : About(u, j)' <=> About(u, j)
  BY <1>2, BitsDiffer DEF About
<1>9. \A u \in Tasks : Alone(u)'
  BY <1>3, <1>8, SoundParts DEF Alone
<1>10. IsrBits'
  <2> SUFFICES ASSUME NEW j \in IsrSlots
               PROVE  (IsrBit(j) \in enable' <=> isr'[j] # NULL) \/ \E u \in Tasks : About(u, j)'
    BY DEF IsrBits
  <2>1. CASE j = i
    BY <1>8, <2>1
  <2>2. CASE j # i
    <3>1. (IsrBit(j) \in enable <=> isr[j] # NULL) \/ \E u \in Tasks : About(u, j)
      BY SoundParts DEF IsrBits
    <3>2. ~ About(t, j)
      BY <1>1 DEF About
    <3>3. QED
      BY <1>1, <1>2, <1>8, <2>2, <3>1, <3>2
  <2>3. QED
    BY <2>1, <2>2
<1>11. BaseInProgress'
  <2>1. \A u \in Tasks : SetsBit(u)' <=> SetsBit(u)
    BY <1>1, <1>2 DEF SetsBit
  <2>2. QED
    BY <1>1, <1>4, <2>1, SoundParts DEF BaseInProgress
<1>12. QED
  BY <1>1, <1>5, <1>6, <1>7, <1>9, <1>10, <1>11, SoundParts, SoundPartsNext

(* A call goes on: the record is filled, the time base looked at and set   *)
(* up, the table searched and entered.                                     *)
LEMMA SoundBeforeWord ==
  ASSUME Shapes, Sound, NEW t \in Tasks, FillRecord(t) \/ CheckBase(t) \/ SetupBase(t)
  PROVE  Sound'
<1>0. InProgress(t) /\ pc[t] \in {"record", "check", "setup"} /\ adds[t] /\ Busy(t)
  BY SoundParts DEF FillRecord, CheckBase, SetupBase, At, InProgress, Busy
<1>1. /\ UNCHANGED <<enable, tick, isr, adds, what, bit, arg, seen, running>>
      /\ \A u \in Tasks \ {t} : pc'[u] = pc[u]
  BY DEF FillRecord, CheckBase, SetupBase, Goto, clockVars, callVars, Shapes, TypeOK
<1>2. /\ pc'[t] \in {"check", "setup"} \/ pc'[t] = IF what[t] \in Timers THEN "load" ELSE "enter"
      /\ pc'[t] \in {"load", "enter"} => base' = TRUE
      /\ base' = base \/ base' = TRUE
  <2>1. CASE FillRecord(t)
    BY <2>1 DEF FillRecord, Goto, Shapes, TypeOK
  <2>2. CASE CheckBase(t)
    <3>1. enable # {} => base = TRUE
      BY SoundParts DEF BaseInProgress, Shapes, TypeOK
    <3>2. QED
      BY <2>2, <3>1 DEF CheckBase, Goto, Shapes, TypeOK
  <2>3. CASE SetupBase(t)
    BY <2>3 DEF SetupBase, Goto, Shapes, TypeOK
  <2>4. QED
    BY <2>1, <2>2, <2>3
<1>3. InProgress(t)'
  <2>1. CASE FillRecord(t)
    <3>1. /\ pc[t] = "record" /\ pc'[t] = "check" /\ what[t] \in Timers
          /\ interval'[what[t]] = arg[t] /\ arg[t] \in Intervals
      BY <1>0, <2>1 DEF FillRecord, At, Goto, InProgress, Shapes, TypeOK
    <3>2. QED
      BY <1>0, <1>1, <3>1 DEF InProgress, Busy, Changing
  <2>2. CASE CheckBase(t) \/ SetupBase(t)
    <3>1. interval' = interval /\ pc[t] \in {"check", "setup"} /\ pc'[t] # "check"
      BY <2>2 DEF CheckBase, SetupBase, At, Goto, clockVars, Shapes, TypeOK
    <3>2. QED
      BY <1>0, <1>1, <1>2, <3>1 DEF InProgress, Busy, Changing
  <2>3. QED
    BY <2>1, <2>2
<1>4. \A u \in Tasks \ {t} : InProgress(u)'
  <2> SUFFICES ASSUME NEW u \in Tasks \ {t} PROVE InProgress(u)'
    OBVIOUS
  <2>1. \A k \in Timers : k # what[t] => interval'[k] = interval[k]
    BY DEF FillRecord, CheckBase, SetupBase, clockVars, Shapes, TypeOK
  <2>2. Busy(u) => what[u] # what[t]
    BY <1>0, NotTheSame
  <2>3. QED
    BY <1>1, <2>1, <2>2, SoundParts, InProgressElsewhere
<1>5. Mine(t)'
  BY <1>1, <1>2, SysTimerAssumption DEF Mine, Changing
<1>6. \A i \in IsrSlots : ~ About(t, i)' /\ ~ About(t, i)
  <2>1. \A i \in IsrSlots : ~ About(t, i)
    BY <1>0 DEF About
  <2>2. what[t] \in Timers => bit[t] = what[t]
    BY <1>0 DEF InProgress
  <2>3. QED
    BY <1>1, <1>2, <2>1, <2>2, BitsDiffer DEF About
<1>7. BaseInProgress'
  <2>1. /\ \A u \in Tasks \ {t} : SetsBit(u)' <=> SetsBit(u)
        /\ \A u \in Tasks : pc[u] \in {"test", "stop"} => pc'[u] \in {"test", "stop"}
        /\ ~ SetsBit(t)
    BY <1>0, <1>1 DEF SetsBit
  <2>2. SetsBit(t)' <=> pc'[t] \in {"load", "enter"}
    BY <1>0, <1>1, <1>2 DEF SetsBit
  <2>3. (enable # {} \/ \E u \in Tasks : SetsBit(u))' => base'
    <3>1. CASE base' = TRUE
      BY <3>1
    <3>2. CASE base' = base /\ base' # TRUE
      BY <1>1, <1>2, <2>1, <2>2, <3>2, SoundParts DEF BaseInProgress
    <3>3. QED
      BY <1>2, <3>1, <3>2
  <2>4. base' => (\/ enable # {}
                  \/ \E u \in Tasks : SetsBit(u) \/ pc[u] \in {"test", "stop"})'
    <3>1. CASE SetsBit(t)'
      BY <3>1
    <3>2. CASE ~ SetsBit(t)'
      <4>1. ~ SetupBase(t) /\ base' = base
        BY <2>2, <3>2 DEF SetupBase, FillRecord, CheckBase, Goto, Shapes, TypeOK
      <4>2. QED
        BY <1>1, <2>1, <4>1, SoundParts DEF BaseInProgress
    <3>3. QED
      BY <3>1, <3>2
  <2>5. QED
    BY <2>3, <2>4 DEF BaseInProgress
<1>8. QED
  BY <1>1, <1>3, <1>4, <1>5, <1>6, <1>7, TableElsewhere, SoundPartsNext

LEMMA SoundEnterIsr ==
  ASSUME Shapes, Sound, NEW t \in Tasks, EnterIsr(t), ~ raced'
  PROVE  Sound'
<1> DEFINE free == {i \in IsrSlots : isr[i] = NULL}
           first == CHOOSE i \in free : \A j \in free : i <= j
<1>1. /\ UNCHANGED <<enable, base, tick, interval, isr, seen, running>>
      /\ pc[t] = "enter" /\ adds[t] /\ what[t] \in UserIsrs /\ SetsBit(t) /\ base
      /\ what[t] \notin Timers
  BY SoundParts, SysTimerAssumption DEF EnterIsr, At, clockVars, InProgress, SetsBit, BaseInProgress
<1>2. CASE free = {}
  <2>1. Return(t)
    BY <1>2 DEF EnterIsr
  <2>2. /\ pc'[t] = "idle"
        /\ \A u \in Tasks \ {t} :
             /\ pc'[u] = pc[u] /\ what'[u] = what[u] /\ bit'[u] = bit[u] /\ adds'[u] = adds[u]
             /\ arg'[u] = arg[u] /\ seen'[u] = seen[u]
    BY <1>1, <2>1 DEF Return, Shapes, TypeOK
  <2>3. InProgress(t)' /\ Mine(t)' /\ \A i \in IsrSlots : ~ About(t, i)' /\ ~ About(t, i)
    BY <1>1, <2>2 DEF InProgress, Mine, About, Busy, Changing
  <2>4. \A u \in Tasks \ {t} : InProgress(u)'
    BY <1>1, <2>2, SoundParts, InProgressElsewhere
  <2>5. enable # {} \/ \E u \in Tasks \ {t} : SetsBit(u)
    <3>1. 0 \in IsrSlots /\ isr[0] # NULL
      BY <1>2, SysTimerAssumption DEF IsrSlots
    <3>2. IsrBit(0) \in enable \/ \E u \in Tasks : About(u, 0)
      BY <3>1, SoundParts DEF IsrBits
    <3>3. ASSUME NEW u \in Tasks, About(u, 0), IsrBit(0) \notin enable
          PROVE  u # t /\ SetsBit(u)
      BY <1>1, <3>1, <3>3, AboutIsr DEF About, SetsBit
    <3>4. QED
      BY <3>2, <3>3
  <2>6. BaseInProgress'
    BY <1>1, <2>2, <2>5 DEF BaseInProgress, SetsBit
  <2>7. QED
    BY <1>1, <2>2, <2>3, <2>4, <2>6, TableElsewhere, SoundPartsNext
<1>3. CASE free # {}
  <2>1. first \in IsrSlots /\ isr[first] = NULL
    <3>1. \E i \in free : \A j \in free : i <= j
      BY <1>3, LeastSlot
    <3>2. QED
      BY <3>1
  <2>2. /\ bit' = [bit EXCEPT ![t] = IsrBit(first)]
        /\ pc' = [pc EXCEPT ![t] = "fill"]
        /\ raced' = (raced \/ AboutBit(t, IsrBit(first)))
        /\ UNCHANGED <<adds, what, arg>>
    BY <1>3 DEF EnterIsr, Goto
  <2> HIDE DEF first
  <2>3. /\ pc'[t] = "fill" /\ bit'[t] = IsrBit(first)
        /\ \A u \in Tasks \ {t} : pc'[u] = pc[u] /\ bit'[u] = bit[u]
    BY <2>2 DEF Shapes, TypeOK
  <2>4. \A u \in Tasks : ~ About(u, first)
    <3>1. ~ AboutBit(t, IsrBit(first)) /\ ~ About(t, first)
      BY <1>1, <2>2 DEF About
    <3>2. QED
      BY <3>1 DEF AboutBit, About
  <2>5. IsrBit(first) \notin enable
    BY <2>1, <2>4, SoundParts DEF IsrBits
  <2>6. /\ \A i \in IsrSlots : (About(t, i)' <=> i = first) /\ ~ About(t, i)
        /\ \A u \in Tasks \ {t}, i \in IsrSlots : About(u, i)' <=> About(u, i)
    BY <1>1, <2>1, <2>3, BitsDiffer DEF About
  <2>7. InProgress(t)' /\ Mine(t)'
    <3>1. InProgress(t)'
      BY <1>1, <2>2, <2>3, SoundParts DEF InProgress, Busy, Changing
    <3>2. Mine(t)'
      BY <1>1, <2>1, <2>2, <2>3, <2>5 DEF Mine, Changing
    <3>3. QED
      BY <3>1, <3>2
  <2>8. \A u \in Tasks \ {t} : InProgress(u)' /\ Mine(u)'
    <3>1. \A u \in Tasks \ {t} : InProgress(u)'
      BY <1>1, <2>2, <2>3, SoundParts, InProgressElsewhere
    <3>2. \A u \in Tasks \ {t} : Mine(u)'
      BY <1>1, <2>2, <2>3, SoundParts, MineElsewhere
    <3>3. QED
      BY <3>1, <3>2
  <2>9. \A u \in Tasks : Alone(u)'
    BY <2>4, <2>6, SoundParts DEF Alone
  <2>10. IsrBits'
    BY <1>1, <2>6, SoundParts DEF IsrBits
  <2>11. BaseInProgress'
    <3>1. SetsBit(t)'
      BY <1>1, <2>2, <2>3 DEF SetsBit
    <3>2. QED
      BY <1>1, <3>1 DEF BaseInProgress
  <2>12. QED
    BY <1>1, <2>7, <2>8, <2>9, <2>10, <2>11, SoundParts, SoundPartsNext
<1>4. QED
  BY <1>2, <1>3

LEMMA SoundFillIsr ==
  ASSUME Shapes, Sound, NEW t \in Tasks, FillIsr(t)
  PROVE  Sound'
<1>1. /\ UNCHANGED <<enable, base, tick, interval, adds, what, bit, arg, seen, running>>
      /\ pc[t] = "fill" /\ pc'[t] = "load" /\ adds[t] /\ what[t] \in UserIsrs
      /\ \A u \in Tasks \ {t} : pc'[u] = pc[u]
      /\ what[t] \notin Timers /\ what[t] # NULL
  BY SoundParts, SysTimerAssumption
  DEF FillIsr, At, Goto, clockVars, callVars, InProgress, Shapes, TypeOK
<1>2. PICK i \in IsrSlots : bit[t] = IsrBit(i) /\ IsrBit(i) \notin enable
  BY <1>1, SoundParts DEF Mine
<1>3. isr'[i] = what[t] /\ \A j \in IsrSlots \ {i} : isr'[j] = isr[j]
  BY <1>2, BitsDiffer DEF FillIsr
<1>4. /\ \A j \in IsrSlots : (About(t, j)' <=> j = i) /\ (About(t, j) <=> j = i)
      /\ \A u \in Tasks \ {t}, j \in IsrSlots : About(u, j)' <=> About(u, j)
  BY <1>1, <1>2, BitsDiffer DEF About
<1>5. \A u \in Tasks \ {t} : ~ About(u, i)
  BY <1>4, SoundParts DEF Alone
<1>6. InProgress(t)' /\ \A u \in Tasks \ {t} : InProgress(u)'
  <2>1. InProgress(t)'
    BY <1>1, SoundParts DEF InProgress, Busy, Changing
  <2>2. \A u \in Tasks \ {t} : InProgress(u)'
    BY <1>1, SoundParts, InProgressElsewhere
  <2>3. QED
    BY <2>1, <2>2
<1>7. Mine(t)' /\ \A u \in Tasks \ {t} : Mine(u)'
  <2>1. Mine(t)'
    BY <1>1, <1>2, <1>3 DEF Mine, Changing
  <2>2. \A u \in Tasks \ {t} : Mine(u)'
    BY <1>1, <1>3, <1>5, SoundParts, MineElsewhere
  <2>3. QED
    BY <2>1, <2>2
<1>8. \A u \in Tasks : Alone(u)'
  BY <1>4, SoundParts DEF Alone
<1>9. IsrBits'
  BY <1>1, <1>3, <1>4, SoundParts DEF IsrBits
<1>10. BaseInProgress'
  <2>1. \A u \in Tasks : SetsBit(u)' <=> SetsBit(u)
    BY <1>1 DEF SetsBit
  <2>2. \A u \in Tasks : pc'[u] \in {"test", "stop"} <=> pc[u] \in {"test", "stop"}
    BY <1>1
  <2>3. QED
    BY <1>1, <2>1, <2>2, SoundParts DEF BaseInProgress
<1>11. QED
  BY <1>1, <1>6, <1>7, <1>8, <1>9, <1>10, SoundParts, SoundPartsNext

(* The word is loaded and stored.                                          *)
LEMMA SoundLoad ==
  ASSUME Shapes, Sound, NEW t \in Tasks, Load(t)
  PROVE  Sound'
<1>1. /\ UNCHANGED <<enable, base, tick, interval, isr, adds, what, bit, arg, running>>
      /\ pc[t] = "load" /\ pc'[t] = "store" /\ seen'[t] = enable
      /\ \A u \in Tasks \ {t} : pc'[u] = pc[u] /\ seen'[u] = seen[u]
  BY DEF Load, At, Goto, clockVars, callVars, Shapes, TypeOK
<1>2. InProgress(t)' /\ \A u \in Tasks \ {t} : InProgress(u)'
  <2>1. InProgress(t)'
    BY <1>1, SoundParts DEF InProgress, Busy, Changing
  <2>2. \A u \in Tasks \ {t} : InProgress(u)'
    BY <1>1, SoundParts, InProgressElsewhere
  <2>3. QED
    BY <2>1, <2>2
<1>3. Mine(t)'
  BY <1>1, SoundParts DEF Mine, Changing
<1>4. \A i \in IsrSlots : About(t, i)' <=> About(t, i)
  BY <1>1 DEF About
<1>5. BaseInProgress'
  <2>1. \A u \in Tasks : SetsBit(u)' <=> SetsBit(u)
    BY <1>1 DEF SetsBit
  <2>2. \A u \in Tasks : pc'[u] \in {"test", "stop"} <=> pc[u] \in {"test", "stop"}
    BY <1>1
  <2>3. QED
    BY <1>1, <2>1, <2>2, SoundParts DEF BaseInProgress
<1>6. QED
  BY <1>1, <1>2, <1>3, <1>4, <1>5, TableElsewhere, SoundPartsNext

LEMMA SoundStore ==
  ASSUME Shapes, Sound, NEW t \in Tasks, Store(t), ~ raced'
  PROVE  Sound'
<1>1. /\ UNCHANGED <<base, tick, interval, isr>>
      /\ pc[t] = "store" /\ Busy(t) /\ Changing(t)
      /\ what[t] \in Timers \cup UserIsrs /\ Owner[what[t]] = t /\ seen[t] = enable
      /\ \A u \in Tasks \ {t} :
           /\ pc'[u] = pc[u] /\ what'[u] = what[u] /\ bit'[u] = bit[u] /\ adds'[u] = adds[u]
           /\ arg'[u] = arg[u] /\ seen'[u] = seen[u]
  <2>1. /\ UNCHANGED <<base, tick, interval, isr>>
        /\ pc[t] = "store" /\ Busy(t) /\ Changing(t)
        /\ what[t] \in Timers \cup UserIsrs /\ Owner[what[t]] = t /\ seen[t] = enable
    BY SoundParts DEF Store, At, clockVars, Busy, Changing, InProgress
  <2>2. \A u \in Tasks \ {t} :
           /\ pc'[u] = pc[u] /\ what'[u] = what[u] /\ bit'[u] = bit[u] /\ adds'[u] = adds[u]
           /\ arg'[u] = arg[u] /\ seen'[u] = seen[u]
    BY DEF Store, Return, Goto, callVars, Shapes, TypeOK
  <2>3. QED
    BY <2>1, <2>2
<1>2. \A u \in Tasks \ {t} : pc[u] \notin {"store", "stop"}
  <2>1. ~ LookedAtWord(t)
    BY DEF Store
  <2>2. QED
    BY <2>1 DEF LookedAtWord
<1>3. /\ enable' = IF adds[t] THEN enable \cup {bit[t]} ELSE enable \ {bit[t]}
      /\ running' = IF adds[t] THEN running \cup ({what[t]} \cap Timers) ELSE running \ {what[t]}
      /\ IF adds[t] THEN pc'[t] = "idle" ELSE pc'[t] = "test" /\ adds'[t] = adds[t] /\ what'[t] = what[t]
  BY <1>1 DEF Store, Return, Goto, callVars, Shapes, TypeOK
<1>4. CASE what[t] \in Timers
  <2>1. bit[t] = what[t] /\ what[t] \notin UserIsrs
    BY <1>1, <1>4, SysTimerAssumption DEF Shapes, CallShape
  <2>2. /\ (enable \cap Timers = running)'
        /\ \A i \in IsrSlots : IsrBit(i) \in enable' <=> IsrBit(i) \in enable
        /\ \A i \in IsrSlots : ~ About(t, i) /\ ~ About(t, i)'
    BY <1>1, <1>3, <1>4, <2>1, SoundParts, BitsDiffer DEF About
  <2>3. InProgress(t)' /\ Mine(t)'
    BY <1>1, <1>3 DEF InProgress, Mine, Busy, Changing
  <2>4. \A u \in Tasks \ {t} : InProgress(u)' /\ Mine(u)'
    <3> SUFFICES ASSUME NEW u \in Tasks \ {t} PROVE InProgress(u)' /\ Mine(u)'
      OBVIOUS
    <3>1. Busy(u) => what[u] # what[t]
      BY <1>1, NotTheSame
    <3>2. what[u] # what[t] => (what[u] \in running' <=> what[u] \in running)
      BY <1>3
    <3>3. InProgress(u)'
      BY <1>1, <1>2, <3>1, <3>2, SoundParts, InProgressElsewhere
    <3>4. Mine(u)'
      BY <1>1, <2>2, SoundParts, MineElsewhere
    <3>5. QED
      BY <3>3, <3>4
  <2>5. \A u \in Tasks, i \in IsrSlots : About(u, i)' <=> About(u, i)
    BY <1>1, <2>2 DEF About
  <2>6. \A u \in Tasks : Alone(u)'
    BY <2>5, SoundParts DEF Alone
  <2>7. IsrBits'
    BY <1>1, <2>2, <2>5, SoundParts DEF IsrBits
  <2>8. BaseInProgress'
    <3>1. /\ \A u \in Tasks \ {t} : SetsBit(u)' <=> SetsBit(u)
          /\ adds[t] <=> SetsBit(t)
          /\ ~ SetsBit(t)'
      BY <1>1, <1>3 DEF SetsBit
    <3>2. CASE adds[t]
      BY <1>1, <1>3, <3>1, <3>2, SoundParts DEF BaseInProgress
    <3>3. CASE ~ adds[t]
      <4>1. enable' # {} => enable # {}
        BY <1>3, <3>3
      <4>2. pc'[t] = "test"
        BY <1>3, <3>3
      <4>3. QED
        BY <1>1, <3>1, <4>1, <4>2, SoundParts DEF BaseInProgress
    <3>4. QED
      BY <3>2, <3>3
  <2>9. QED
    BY <2>2, <2>3, <2>4, <2>6, <2>7, <2>8, SoundPartsNext
<1>5. CASE what[t] \in UserIsrs
  <2>1. what[t] \notin Timers /\ what[t] # NULL /\ what[t] \notin running
    BY <1>5, SysTimerAssumption DEF Shapes, TypeOK
  <2>2. PICK i \in IsrSlots :
          /\ bit[t] = IsrBit(i)
          /\ isr[i] = IF adds[t] THEN what[t] ELSE NULL
          /\ adds[t] <=> IsrBit(i) \notin enable
    BY <1>1, <1>5, SoundParts DEF Mine
  <2>3. running' = running /\ (enable \cap Timers = running)'
    <3>1. running' = running
      BY <1>3, <2>1
    <3>2. QED
      BY <1>3, <2>2, <3>1, SoundParts, BitsDiffer
  <2>4. /\ IsrBit(i) \in enable' <=> adds[t]
        /\ \A j \in IsrSlots \ {i} : IsrBit(j) \in enable' <=> IsrBit(j) \in enable
    BY <1>3, <2>2, BitsDiffer
  <2>5. /\ \A j \in IsrSlots : About(t, j) <=> j = i
        /\ \A j \in IsrSlots : ~ About(t, j)'
        /\ \A u \in Tasks \ {t}, j \in IsrSlots : About(u, j)' <=> About(u, j)
    BY <1>1, <1>3, <2>2, BitsDiffer DEF About
  <2>6. \A u \in Tasks \ {t} : ~ About(u, i)
    BY <2>5, SoundParts DEF Alone
  <2>7. InProgress(t)' /\ Mine(t)'
    BY <1>1, <1>3 DEF InProgress, Mine, Busy, Changing
  <2>8. \A u \in Tasks \ {t} : InProgress(u)' /\ Mine(u)'
    <3>1. \A u \in Tasks \ {t} : InProgress(u)'
      BY <1>1, <1>2, <2>3, SoundParts, InProgressElsewhere
    <3>2. \A u \in Tasks \ {t} : Mine(u)'
      BY <1>1, <2>4, <2>6, SoundParts, MineElsewhere
    <3>3. QED
      BY <3>1, <3>2
  <2>9. \A u \in Tasks : Alone(u)'
    BY <2>5, SoundParts DEF Alone
  <2>10. IsrBits'
    <3> SUFFICES ASSUME NEW j \in IsrSlots
                 PROVE  (IsrBit(j) \in enable' <=> isr'[j] # NULL) \/ \E u \in Tasks : About(u, j)'
      BY DEF IsrBits
    <3>1. CASE j = i
      BY <1>1, <2>1, <2>2, <2>4, <3>1
    <3>2. CASE j # i
      <4>1. (IsrBit(j) \in enable <=> isr[j] # NULL) \/ \E u \in Tasks : About(u, j)
        BY SoundParts DEF IsrBits
      <4>2. QED
        BY <1>1, <2>4, <2>5, <3>2, <4>1
    <3>3. QED
      BY <3>1, <3>2
  <2>11. BaseInProgress'
    <3>1. /\ \A u \in Tasks \ {t} : SetsBit(u)' <=> SetsBit(u)
          /\ adds[t] <=> SetsBit(t)
          /\ ~ SetsBit(t)'
      BY <1>1, <1>3 DEF SetsBit
    <3>2. CASE adds[t]
      BY <1>1, <1>3, <3>1, <3>2, SoundParts DEF BaseInProgress
    <3>3. CASE ~ adds[t]
      <4>1. enable' # {} => enable # {}
        BY <1>3, <3>3
      <4>2. pc'[t] = "test"
        BY <1>3, <3>3
      <4>3. QED
        BY <1>1, <3>1, <4>1, <4>2, SoundParts DEF BaseInProgress
    <3>4. QED
      BY <3>2, <3>3
  <2>12. QED
    BY <2>3, <2>7, <2>8, <2>9, <2>10, <2>11, SoundPartsNext
<1>6. QED
  BY <1>1, <1>4, <1>5

(* The word is tested and the time base stopped.                           *)
LEMMA SoundAfterWord ==
  ASSUME Shapes, Sound, NEW t \in Tasks, Test(t) \/ StopBase(t), ~ raced'
  PROVE  Sound'
<1>1. /\ UNCHANGED <<enable, tick, interval, isr, seen, running>>
      /\ pc[t] \in {"test", "stop"} /\ ~ adds[t]
      /\ \A u \in Tasks \ {t} :
           /\ pc'[u] = pc[u] /\ what'[u] = what[u] /\ bit'[u] = bit[u] /\ adds'[u] = adds[u]
           /\ arg'[u] = arg[u] /\ seen'[u] = seen[u]
  <2>1. /\ UNCHANGED <<enable, tick, interval, isr, seen, running>>
        /\ pc[t] \in {"test", "stop"} /\ ~ adds[t]
    BY SoundParts DEF Test, StopBase, At, clockVars, InProgress
  <2>2. \A u \in Tasks \ {t} :
           /\ pc'[u] = pc[u] /\ what'[u] = what[u] /\ bit'[u] = bit[u] /\ adds'[u] = adds[u]
           /\ arg'[u] = arg[u] /\ seen'[u] = seen[u]
    BY DEF Test, StopBase, Return, Goto, callVars, Shapes, TypeOK
  <2>3. QED
    BY <2>1, <2>2
<1>2. \/ /\ pc'[t] = "stop" /\ enable = {} /\ base' = base
         /\ adds'[t] = adds[t] /\ what'[t] = what[t]
      \/ pc'[t] = "idle" /\ enable # {} /\ base' = base
      \/ /\ pc'[t] = "idle" /\ enable = {} /\ ~ base'
         /\ \A u \in Tasks \ {t} : ~ SetsBit(u)
  <2>1. CASE Test(t)
    BY <2>1 DEF Test, Goto, Return, callVars, Shapes, TypeOK
  <2>2. CASE StopBase(t)
    <3>1. enable = {} /\ ~ CountsOnBase(t)
      BY <2>2, SoundParts DEF StopBase, At, InProgress
    <3>2. QED
      BY <2>2, <3>1 DEF StopBase, Return, CountsOnBase, SetsBit, Shapes, TypeOK
  <2>3. QED
    BY <2>1, <2>2
<1>3. InProgress(t)' /\ Mine(t)' /\ \A i \in IsrSlots : ~ About(t, i)' /\ ~ About(t, i)
  <2>1. InProgress(t)'
    BY <1>1, <1>2, SoundParts DEF InProgress, Busy, Changing
  <2>2. Mine(t)' /\ \A i \in IsrSlots : ~ About(t, i)' /\ ~ About(t, i)
    BY <1>1, <1>2 DEF Mine, About, Changing
  <2>3. QED
    BY <2>1, <2>2
<1>4. \A u \in Tasks \ {t} : InProgress(u)'
  BY <1>1, SoundParts, InProgressElsewhere
<1>5. BaseInProgress'
  <2>1. /\ \A u \in Tasks \ {t} : SetsBit(u)' <=> SetsBit(u)
        /\ ~ SetsBit(t) /\ ~ SetsBit(t)'
    BY <1>1, <1>2 DEF SetsBit
  <2>2. CASE pc'[t] = "stop" /\ base' = base
    BY <1>1, <2>1, <2>2, SoundParts DEF BaseInProgress
  <2>3. CASE enable # {} /\ base' = base
    BY <1>1, <2>1, <2>3, SoundParts DEF BaseInProgress
  <2>4. CASE enable = {} /\ ~ base' /\ \A u \in Tasks \ {t} : ~ SetsBit(u)
    BY <1>1, <2>1, <2>4 DEF BaseInProgress
  <2>5. QED
    BY <1>2, <2>2, <2>3, <2>4
<1>6. QED
  BY <1>1, <1>3, <1>4, <1>5, TableElsewhere, SoundPartsNext

LEMMA SoundTick ==
  ASSUME Shapes, Sound, TimeBaseC_ISR
  PROVE  Sound'
<1>1. /\ UNCHANGED <<enable, base, interval, isr, pc, adds, what, bit, arg, seen, running>>
      /\ \A k \in Timers : k \notin enable => tick'[k] = tick[k]
  BY DEF TimeBaseC_ISR, callVars
<1>2. \A t \in Tasks : InProgress(t)'
  <2> SUFFICES ASSUME NEW t \in Tasks PROVE InProgress(t)'
    OBVIOUS
  <2>1. InProgress(t)
    BY SoundParts
  <2>2. Busy(t) /\ what[t] \in Timers /\ adds[t] => what[t] \notin enable
    BY <2>1, SoundParts DEF InProgress
  <2>3. QED
    BY <1>1, <2>1, <2>2, InProgressElsewhere
<1>3. /\ \A t \in Tasks : Mine(t)' /\ Alone(t)'
      /\ IsrBits' /\ BaseInProgress'
  BY <1>1, SoundParts
  DEF Mine, Alone, IsrBits, BaseInProgress, About, SetsBit, Changing
<1>4. QED
  BY <1>1, <1>2, <1>3, SoundParts, SoundPartsNext

(* A race is remembered, and nothing but a race ends Sound.                *)
LEMMA NextSound == Shapes /\ Sound /\ [Next]_vars /\ ~ raced' => Sound'
<1> SUFFICES ASSUME Shapes, Sound, [Next]_vars, ~ raced' PROVE Sound'
  OBVIOUS
<1>1. CASE UNCHANGED vars
  <2>1. UNCHANGED <<enable, base, tick, interval, isr, pc, adds, what, bit, arg, seen, running>>
    BY <1>1 DEF vars, clockVars, callVars
  <2>2. QED
    BY <2>1 DEF Sound, InProgress, IsrInProgress, IsrBits, BaseInProgress, About, SetsBit,
       Changing, Busy
<1>2. ASSUME NEW t \in Tasks, Step(t) PROVE Sound'
  BY <1>2, SoundBeforeWord, SoundEnterIsr, SoundFillIsr, SoundLoad, SoundStore, SoundAfterWord
  DEF Step
<1>3. QED
  BY <1>1, <1>2, SoundSetTimer, SoundKillTimer, SoundRegisterIsr, SoundReleaseIsr, SoundTick
  DEF Next

LEMMA RacedRemains == [Next]_vars /\ raced => raced'
<1> SUFFICES ASSUME [Next]_vars, raced PROVE raced'
  OBVIOUS
<1>1. CASE UNCHANGED vars
  BY <1>1 DEF vars
<1>2. ASSUME NEW t \in Tasks, Step(t) PROVE raced'
  BY <1>2 DEF Step, FillRecord, CheckBase, SetupBase, EnterIsr, FillIsr, Load, Store, Test, StopBase
<1>3. ASSUME NEW t \in Tasks,
             \/ \E k \in Timers, n \in Intervals : SetTimer(t, k, n)
             \/ \E k \in Timers : KillTimer(t, k)
             \/ \E f \in UserIsrs : RegisterIsr(t, f) \/ ReleaseIsr(t, f)
      PROVE  raced'
  BY <1>3 DEF SetTimer, KillTimer, RegisterIsr, ReleaseIsr
<1>4. CASE TimeBaseC_ISR
  BY <1>4 DEF TimeBaseC_ISR
<1>5. QED
  BY <1>1, <1>2, <1>3, <1>4 DEF Next

LEMMA InitSound == Init => Sound
<1> SUFFICES ASSUME Init PROVE Sound
  OBVIOUS
<1>1. \A t \in Tasks : pc[t] = "idle"
  BY DEF Init
<1>2. \A t \in Tasks : InProgress(t) /\ IsrInProgress(t)
  BY <1>1 DEF InProgress, IsrInProgress, About, Busy, Changing
<1>3. IsrBits
  <2>1. \A i \in IsrSlots : isr[i] = NULL
    BY DEF Init
  <2>2. enable = {}
    BY DEF Init
  <2>3. QED
    BY <2>1, <2>2 DEF IsrBits
<1>4. BaseInProgress
  BY <1>1 DEF Init, BaseInProgress, SetsBit
<1>5. QED
  BY <1>2, <1>3, <1>4 DEF Sound, Init

(* The invariant: the types, and Sound until a race.                       *)
LEMMA SoundUntilRaced ==
  /\ Init => Shapes /\ IInv
  /\ Shapes /\ IInv /\ [Next]_vars => (Shapes /\ IInv)'
BY InitShapes, InitSound, NextShapes, NextSound, RacedRemains DEF IInv

(* While nobody calls, Sound is what the callers see.                      *)
LEMMA SoundSeen ==
  ASSUME Shapes, Sound, AllIdle
  PROVE  enable = running \cup Registered /\ (base <=> enable # {})
<1>1. \A t \in Tasks, i \in IsrSlots : ~ About(t, i)
  BY DEF AllIdle, About
<1>2. \A i \in IsrSlots : IsrBit(i) \in enable <=> isr[i] # NULL
  BY <1>1 DEF Sound, IsrBits
<1>3. enable \subseteq Bits /\ running = enable \cap Timers
  BY DEF Sound, Shapes, TypeOK
<1>4. enable = running \cup Registered
  BY <1>2, <1>3 DEF Registered, Bits
<1>5. base <=> enable # {}
  BY DEF Sound, BaseInProgress, SetsBit, AllIdle
<1>6. QED
  BY <1>4, <1>5

(* Until a task races another, the enable word says between calls what the *)
(* callers have asked for (gstSysTimerEnable), and the time base runs      *)
(* exactly while the word has a bit (time_base_setup and time_base_stop),  *)
(* however the calls preempt one another.                                  *)
THEOREM WordIsTrue == Spec => [](WordTrue /\ BaseFollows)
<1>1. Shapes /\ IInv => WordTrue /\ BaseFollows
  BY SoundSeen DEF IInv, WordTrue, WordHolds, BaseFollows
<1>2. QED
  BY <1>1, SoundUntilRaced, PTL DEF Spec

-----------------------------------------------------------------------------
(* What Alarms sees of the timers.                                         *)
Period == [k \in Timers |-> IF k \in enable THEN interval[k] ELSE 0]
Due == [k \in Timers |-> IF k \in enable THEN tick[k] ELSE 0]

\* A step that leaves the timers' bits and the records of those that run.
LEMMA NothingSeen ==
  ASSUME \A k \in Timers : k \in enable' <=> k \in enable,
         \A k \in Timers : k \in enable => tick'[k] = tick[k] /\ interval'[k] = interval[k],
         rang' = rang
  PROVE  UNCHANGED <<Period, Due, rang>>
<1>1. Period' = Period /\ Due' = Due
  BY DEF Period, Due
<1>2. QED
  BY <1>1

\* A call takes effect when it stores the enable word.
LEMMA StoreIsSetOrKill ==
  ASSUME Shapes, Sound, NEW t \in Tasks, Store(t)
  PROVE  A!Works \/ UNCHANGED <<Period, Due, rang>>
<1>0. /\ TypeOK /\ InProgress(t) /\ CallShape(t)
      /\ pc[t] = "store" /\ seen[t] = enable
      /\ what[t] \in Timers \cup UserIsrs
      /\ UNCHANGED <<tick, interval, rang>>
      /\ enable \cap Timers = running
  BY DEF Sound, Shapes, Store, At, InProgress, Busy, clockVars
<1>1. CASE adds[t] /\ what[t] \in Timers
  <2> DEFINE k == what[t]
  <2>1. enable' = enable \cup {k} /\ k \notin enable
    BY <1>0, <1>1 DEF Store, InProgress, Busy
  <2>2. tick[k] = interval[k] /\ interval[k] \in Intervals
    BY <1>0, <1>1 DEF InProgress, Busy
  <2> HIDE DEF k
  <2>3. k \in Timers
    BY <1>1 DEF k
  <2>4. /\ Period[k] = 0
        /\ Period' = [Period EXCEPT ![k] = interval[k]]
        /\ Due' = [Due EXCEPT ![k] = interval[k]]
    BY <1>0, <2>1, <2>2, <2>3 DEF Period, Due
  <2>5. A!Set(k, interval[k])
    BY <1>0, <2>4 DEF A!Set, Period, Due
  <2>6. \E j \in Timers, n \in Intervals : A!Set(j, n)
    BY <2>2, <2>3, <2>5 DEF A!Set
  <2>7. QED
    BY <2>6 DEF A!Works
<1>2. CASE ~ adds[t] /\ what[t] \in Timers
  <2> DEFINE k == what[t]
  <2>1. enable' = enable \ {k} /\ k \in enable
    BY <1>0, <1>2 DEF Store, InProgress, Busy, Changing
  <2> HIDE DEF k
  <2>2. k \in Timers
    BY <1>2 DEF k
  <2>3. interval[k] # 0
    BY <1>0, <2>1, <2>2, IntervalsPositive DEF TypeOK
  <2>4. /\ Period[k] # 0
        /\ Period' = [Period EXCEPT ![k] = 0]
        /\ Due' = [Due EXCEPT ![k] = 0]
    BY <1>0, <2>1, <2>2, <2>3 DEF Period, Due
  <2>5. A!Kill(k)
    BY <1>0, <2>4 DEF A!Kill, Period, Due
  <2>6. \E j \in Timers : A!Kill(j)
    BY <2>2, <2>5 DEF A!Kill
  <2>7. QED
    BY <2>6 DEF A!Works
<1>3. CASE what[t] \notin Timers
  <2>1. bit[t] \notin Timers
    BY <1>0, <1>3 DEF CallShape
  <2>2. enable' = enable \cup {bit[t]} \/ enable' = enable \ {bit[t]}
    BY <1>0 DEF Store
  <2>3. QED
    BY <1>0, <2>1, <2>2, NothingSeen
<1>4. QED
  BY <1>0, <1>1, <1>2, <1>3

LEMMA InterruptIsTick ==
  ASSUME Shapes, TimeBaseC_ISR
  PROVE  A!Tick
<1>1. TypeOK
  BY DEF Shapes
<1>2. UNCHANGED <<enable, interval>>
  BY DEF TimeBaseC_ISR
<1>3. Period' = Period
  BY <1>2 DEF Period
<1>4. \A k \in Timers : Due[k] = IF k \in enable THEN tick[k] ELSE 0
  BY DEF Due
<1>5. \A k \in Timers : k \in enable => tick[k] > 0 /\ tick[k] \in Nat
  BY <1>1 DEF TypeOK
<1>6. rang' = {k \in Timers : Due[k] = 1}
  BY <1>4 DEF TimeBaseC_ISR
<1>7. Due' = [k \in Timers |-> CASE Due[k] = 0 -> 0
                              [] Due[k] = 1 -> Period[k]
                              [] OTHER -> Due[k] - 1]
  <2>1. \A k \in Timers :
          Due'[k] = CASE Due[k] = 0 -> 0 [] Due[k] = 1 -> Period[k] [] OTHER -> Due[k] - 1
    <3> SUFFICES ASSUME NEW k \in Timers
                 PROVE  Due'[k] = CASE Due[k] = 0 -> 0
                                    [] Due[k] = 1 -> Period[k]
                                    [] OTHER -> Due[k] - 1
      OBVIOUS
    <3>1. Due'[k] = IF k \in enable THEN tick'[k] ELSE 0
      BY <1>2 DEF Due
    <3>2. k \in enable => tick'[k] = IF tick[k] = 1 THEN interval[k] ELSE tick[k] - 1
      BY DEF TimeBaseC_ISR
    <3>3. k \in enable => Period[k] = interval[k]
      BY DEF Period
    <3>4. QED
      BY <1>4, <1>5, <3>1, <3>2, <3>3
  <2>2. Due' = [k \in Timers |-> Due'[k]]
    BY DEF Due
  <2>3. QED
    BY <2>1, <2>2
<1>8. QED
  BY <1>3, <1>6, <1>7 DEF A!Tick, Period, Due

\* A step that is no race is an alarm's, or the alarms do not see it.
LEMMA StepIsAlarms ==
  ASSUME Shapes, Sound, [Next]_vars
  PROVE  A!Works \/ UNCHANGED <<Period, Due, rang>>
<1>1. CASE TimeBaseC_ISR
  BY <1>1, InterruptIsTick DEF A!Works
<1>2. ASSUME NEW t \in Tasks, NEW k \in Timers, NEW n \in Intervals, SetTimer(t, k, n)
      PROVE  UNCHANGED <<Period, Due, rang>>
  <2>1. k \notin enable
    BY <1>2 DEF SetTimer, Sound
  <2>2. QED
    BY <1>2, <2>1, NothingSeen DEF SetTimer, Shapes, TypeOK
<1>3. ASSUME NEW t \in Tasks, FillRecord(t)
      PROVE  UNCHANGED <<Period, Due, rang>>
  <2>1. what[t] \in Timers /\ what[t] \notin enable
    BY <1>3 DEF FillRecord, At, Sound, InProgress, Busy
  <2>2. \A k \in Timers : k \in enable => interval'[k] = interval[k]
    BY <1>3, <2>1 DEF FillRecord, Shapes, TypeOK
  <2>3. QED
    BY <1>3, <2>2, NothingSeen DEF FillRecord
<1>4. ASSUME NEW t \in Tasks,
             \/ \E k \in Timers : KillTimer(t, k)
             \/ \E f \in UserIsrs : RegisterIsr(t, f) \/ ReleaseIsr(t, f)
             \/ CheckBase(t) \/ SetupBase(t) \/ EnterIsr(t) \/ FillIsr(t)
             \/ Load(t) \/ Test(t) \/ StopBase(t)
      PROVE  UNCHANGED <<Period, Due, rang>>
  <2>1. UNCHANGED <<enable, tick, interval, rang>>
    BY <1>4 DEF KillTimer, RegisterIsr, ReleaseIsr, CheckBase, SetupBase, EnterIsr, FillIsr,
       Load, Test, StopBase, clockVars
  <2>2. QED
    BY <2>1, NothingSeen
<1>5. CASE UNCHANGED vars
  BY <1>5, NothingSeen DEF vars, clockVars
<1>6. QED
  BY <1>1, <1>2, <1>3, <1>4, <1>5, StoreIsSetOrKill DEF Next, Step

(* The timers are alarms: the owner of a timer sets and kills it, and it   *)
(* rings when its ticks are over, whatever the others do with theirs and   *)
(* wherever their calls cut in, until one races another.                   *)
THEOREM TimersAreAlarms == Spec => ImplementsAlarms
<1>1. Init => A!Init
  <2> SUFFICES ASSUME Init PROVE A!Init
    OBVIOUS
  <2>1. enable = {} /\ rang = {} /\ raced = FALSE
    BY DEF Init
  <2>2. QED
    BY <2>1 DEF A!Init
<1>2. Shapes /\ IInv /\ [Next]_vars => [A!Next]_(A!alarmVars)
  <2> SUFFICES ASSUME Shapes, IInv, [Next]_vars PROVE [A!Next]_(A!alarmVars)
    OBVIOUS
  <2>1. CASE raced'
    <3>1. raced' = TRUE
      BY <2>1, NextShapes DEF Shapes, TypeOK
    <3>2. QED
      BY <3>1 DEF A!Next, A!Break
  <2>2. CASE ~ raced'
    <3>1. raced = FALSE /\ raced' = FALSE
      BY <2>2, RacedRemains, NextShapes DEF Shapes, TypeOK
    <3>2. Sound
      BY <3>1 DEF IInv
    <3>3. A!Works \/ UNCHANGED <<Period, Due, rang>>
      BY <3>2, StepIsAlarms
    <3>4. CASE A!Works
      BY <3>1, <3>4 DEF A!Next
    <3>5. CASE UNCHANGED <<Period, Due, rang>>
      <4>1. UNCHANGED A!alarmVars
        BY <3>1, <3>5 DEF Period, Due, A!alarmVars
      <4>2. QED
        BY <4>1
    <3>6. QED
      BY <3>3, <3>4, <3>5
  <2>3. QED
    BY <2>1, <2>2
<1>3. QED
  BY <1>1, <1>2, SoundUntilRaced, PTL DEF Spec, ImplementsAlarms, A!Spec

=============================================================================
