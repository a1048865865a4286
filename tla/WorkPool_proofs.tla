--------------------------- MODULE WorkPool_proofs ---------------------------
(***************************************************************************)
(* Proofs about the work pool and its pulses, for every hold time, count   *)
(* of half-cycles and width of the counter.                                *)
(***************************************************************************)
EXTENDS WorkPool, TLAPS

(* The counter of half-cycles counts down, and wraps to an odd number.     *)
LEMMA CountFacts ==
  /\ CycleMod - 1 \in Nat /\ CycleMod - 1 > 0 /\ (CycleMod - 1) % 2 = 1
  /\ \A c \in 0..(CycleMod - 1) :
        /\ (c - 1) % CycleMod = IF c = 0 THEN CycleMod - 1 ELSE c - 1
        /\ (c - 1) % CycleMod \in 0..(CycleMod - 1)
<1> DEFINE m == CycleMod
<1>1. m \in Nat /\ m > 0 /\ m % 2 = 0
  BY PoolAssumption
<1> HIDE DEF m
<1>2. m - 1 \in Nat /\ m - 1 > 0 /\ (m - 1) % 2 = 1
  BY <1>1
<1>3. ASSUME NEW c \in 0..(m - 1) PROVE (c - 1) % m = IF c = 0 THEN m - 1 ELSE c - 1
  <2>1. CASE c = 0
    <3>1. (-1) % m = m - 1
      BY <1>1
    <3>2. QED
      BY <2>1, <3>1
  <2>2. CASE c # 0
    <3>1. c - 1 \in 0..(m - 1)
      BY <1>1, <2>2
    <3>2. (c - 1) % m = c - 1
      BY <1>1, <3>1
    <3>3. QED
      BY <2>2, <3>2
  <2>3. QED
    BY <2>1, <2>2
<1>4. \A c \in 0..(m - 1) : (c - 1) % m \in 0..(m - 1)
  BY <1>1, <1>2, <1>3
<1>5. QED
  BY <1>2, <1>3, <1>4 DEF m

(* What is left after a half-cycle: the same parity turned round, unless   *)
(* the pulse is endless.                                                   *)
LEMMA LeftFacts ==
  ASSUME TypeOK, NEW j \in Jobs
  PROVE  /\ CyclesLeft(j) \in 0..(CycleMod - 1)
         /\ cycles[j] = Infinite => CyclesLeft(j) = Infinite
         /\ cycles[j] # Infinite => CyclesLeft(j) % 2 # cycles[j] % 2
         /\ CyclesLeft(j) = 0 => cycles[j] = 1 /\ cycles[j] # Infinite
<1> DEFINE c == cycles[j]
           n == CyclesLeft(j)
<1>1. c \in 0..(CycleMod - 1)
  BY DEF TypeOK
<1>2. n = IF c = Infinite THEN c ELSE (c - 1) % CycleMod
  BY DEF CyclesLeft
<1>3. Infinite \in Nat \ {0} /\ CycleMod \in Nat /\ CycleMod % 2 = 0
  BY PoolAssumption
<1>4. (c - 1) % CycleMod = IF c = 0 THEN CycleMod - 1 ELSE c - 1
  BY <1>1, CountFacts
<1> HIDE DEF c, n
<1>5. n \in 0..(CycleMod - 1)
  BY <1>1, <1>2, <1>3, <1>4, CountFacts
<1>6. c # Infinite => n % 2 # c % 2
  <2>1. CASE c = 0
    BY <1>2, <1>3, <1>4, <2>1, CountFacts
  <2>2. CASE c # 0
    <3>1. c \in Nat /\ (c - 1) % 2 # c % 2
      BY <1>1
    <3>2. QED
      BY <1>2, <1>4, <2>2, <3>1
  <2>3. QED
    BY <2>1, <2>2
<1>7. n = 0 => c = 1 /\ c # Infinite
  BY <1>1, <1>2, <1>3, <1>4, CountFacts
<1>8. QED
  BY <1>2, <1>5, <1>6, <1>7 DEF c, n

(* The longer of the hold times. *)
LEMMA HoldFacts ==
  MaxHold \in Nat /\ Hold1 \in 0..MaxHold /\ Hold2 \in 0..MaxHold
BY PoolAssumption DEF MaxHold

-----------------------------------------------------------------------------
(* Listing and unlisting a job keeps the links typed. *)
LEMMA LinkType ==
  ASSUME TypeOK, NEW j \in Jobs, AddJob(j) \/ RemoveJob(j)
  PROVE  /\ jobHead' \in Ptr /\ jobTail' \in Ptr
         /\ next' \in [Jobs -> Ptr] /\ prev' \in [Jobs -> Ptr]
<1>1. next[j] \in Ptr /\ prev[j] \in Ptr /\ j \in Ptr /\ Null \in Ptr
  BY DEF TypeOK, Ptr
<1>2. CASE AddJob(j)
  BY <1>1, <1>2 DEF AddJob, TypeOK
<1>3. CASE RemoveJob(j)
  BY <1>1, <1>3 DEF RemoveJob, TypeOK
<1>4. QED
  BY <1>2, <1>3

(* So does driving a pin. *)
LEMMA DriveType ==
  ASSUME TypeOK, NEW j \in Jobs, NEW st, NEW lvl \in {"level1", "level2"},
         NEW hold \in 0..MaxHold, NEW after \in {"pulse_on", "pulse_off"},
         Drive(j, st, lvl, hold, after)
  PROVE  TypeOK'
<1>1. UNCHANGED <<jobHead, jobTail, next, prev, running, cycles, total, restarted, due>>
  BY DEF Drive, links
<1>2. state' \in [Jobs -> States] /\ level' \in [Jobs -> Levels]
  BY DEF Drive, TypeOK, States, Levels
<1>3. wait' \in [Jobs -> 0..MaxHold] /\ age' \in [Jobs -> 0..MaxHold]
  BY HoldFacts DEF Drive, Deadline, TypeOK
<1>4. nextState' \in [Jobs -> {"invalid", "pulse_on", "pulse_off"}] /\ cur' \in Ptr
  BY DEF Drive, TypeOK
<1>5. QED
  BY <1>1, <1>2, <1>3, <1>4 DEF TypeOK

(* Every step keeps every variable in its range. *)
LEMMA TypeStep == TypeOK /\ [Next]_vars => TypeOK'
<1> SUFFICES ASSUME TypeOK, [Next]_vars PROVE TypeOK'
  OBVIOUS
<1>1. ASSUME NEW j \in Jobs, NEW n \in CycleSet, StartPulse(j, n) PROVE TypeOK'
  <2>1. n \in 0..(CycleMod - 1)
    BY PoolAssumption
  <2>2. /\ cycles' \in [Jobs -> 0..(CycleMod - 1)] /\ total' \in [Jobs -> 0..(CycleMod - 1)]
        /\ restarted' \in BOOLEAN
    BY <1>1, <2>1 DEF StartPulse, TypeOK
  <2>3. /\ jobHead' \in Ptr /\ jobTail' \in Ptr
        /\ next' \in [Jobs -> Ptr] /\ prev' \in [Jobs -> Ptr]
        /\ state' \in [Jobs -> States]
    <3>1. CASE running[j]
      BY <1>1, <3>1 DEF StartPulse, TypeOK, links
    <3>2. CASE ~running[j]
      BY <1>1, <3>2, LinkType DEF StartPulse, TypeOK, States
    <3>3. QED
      BY <3>1, <3>2
  <2>4. QED
    BY <1>1, <2>2, <2>3 DEF StartPulse, TypeOK
<1>2. CASE Tick
  <2>1. wait' \in [Jobs -> 0..MaxHold] /\ age' \in [Jobs -> 0..MaxHold]
    BY <1>2, HoldFacts DEF Tick, TypeOK
  <2>2. QED
    BY <1>2, <2>1 DEF Tick, TypeOK, links
<1>3. CASE EnterTick
  BY <1>3 DEF EnterTick, TypeOK, links, pulses
<1>4. ASSUME NEW j \in Jobs, RunJob(j) PROVE TypeOK'
  <2>1. CASE PulseOn(j)
    BY <2>1, DriveType, HoldFacts DEF PulseOn
  <2>2. CASE PulseOff(j)
    BY <2>2, DriveType, HoldFacts DEF PulseOff
  <2>3. CASE StillWaiting(j)
    BY <2>3 DEF StillWaiting, TypeOK, links, pulses
  <2>4. CASE HalfCycleOver(j)
    BY <2>4, LeftFacts DEF HalfCycleOver, TypeOK, links, States
  <2>5. CASE Finish(j)
    <3>1. /\ jobHead' \in Ptr /\ jobTail' \in Ptr
          /\ next' \in [Jobs -> Ptr] /\ prev' \in [Jobs -> Ptr] /\ cur' \in Ptr
      BY <2>5, LinkType DEF Finish
    <3>2. /\ cycles' \in [Jobs -> 0..(CycleMod - 1)] /\ state' \in [Jobs -> States]
          /\ running' \in [Jobs -> BOOLEAN]
      BY <2>5, CountFacts DEF Finish, TypeOK, States
    <3>3. QED
      BY <2>5, <3>1, <3>2 DEF Finish, TypeOK
  <2>6. QED
    BY <1>4, <2>1, <2>2, <2>3, <2>4, <2>5 DEF RunJob
<1>5. CASE UNCHANGED vars
  BY <1>5 DEF vars, links, pulses, TypeOK
<1>6. QED
  BY <1>1, <1>2, <1>3, <1>4, <1>5 DEF Next

(* The empty pool has every variable in its range. *)
LEMMA TypeInit == Init => TypeOK
<1> SUFFICES ASSUME Init PROVE TypeOK
  OBVIOUS
<1>1. 0 \in 0..MaxHold /\ MaxHold \in 0..MaxHold /\ 0 \in 0..(CycleMod - 1)
  BY HoldFacts, CountFacts
<1>2. /\ cycles \in [Jobs -> 0..(CycleMod - 1)] /\ total \in [Jobs -> 0..(CycleMod - 1)]
      /\ wait \in [Jobs -> 0..MaxHold] /\ age \in [Jobs -> 0..MaxHold]
  BY <1>1 DEF Init
<1>3. QED
  BY <1>2 DEF Init, TypeOK, Ptr, States, Levels

(* Every variable keeps its range, for any number of jobs and however they *)
(* are restarted.                                                          *)
THEOREM TypeCorrect == Spec => []TypeOK
BY TypeInit, TypeStep, PTL DEF Spec

-----------------------------------------------------------------------------
(* How the half-cycles still to do compare with those asked for. *)
AsAsked(j) == cycles[j] = Infinite \/ cycles[j] % 2 = total[j] % 2
HalfWay(j) == cycles[j] = Infinite \/ cycles[j] % 2 # total[j] % 2

EndLevel(j) == IF total[j] % 2 = 0 THEN "level2" ELSE "level1"
HoldOf(lvl) == IF lvl = "level1" THEN Hold1 ELSE Hold2

(* A job before and after the first half of a cycle. *)
PinInv(j) ==
    /\ ~running[j]
    /\ state[j] = "pulse_on" => AsAsked(j)
    /\ state[j] = "pulse_off" => HalfWay(j)
    /\ state[j] = "waiting" =>
         \/ nextState[j] = "pulse_off" /\ level[j] = "level1" /\ AsAsked(j)
         \/ nextState[j] = "pulse_on" /\ level[j] = "level2" /\ HalfWay(j)
    /\ state[j] = "done" => level[j] = EndLevel(j)

(* The time at a level and the time still to wait make up the hold time.   *)
TimeInv(j) ==
    level[j] # "reset" =>
        IF state[j] = "waiting" THEN wait[j] + age[j] >= HoldOf(level[j])
                                ELSE age[j] >= HoldOf(level[j])

PulseInv ==
    /\ TypeOK
    /\ ~restarted => \A j \in Jobs : PinInv(j) /\ TimeInv(j)

(* A job that a step does not touch. *)
LEMMA PinStays ==
  ASSUME NEW j \in Jobs, PinInv(j),
         UNCHANGED <<running[j], state[j], cycles[j], total[j], nextState[j], level[j]>>
  PROVE  PinInv(j)'
BY DEF PinInv, AsAsked, HalfWay, EndLevel

(* What leaves a job's pin and its times alone keeps TimeInv of it. *)
LEMMA TimeStays ==
  ASSUME NEW j \in Jobs, TimeInv(j), UNCHANGED <<state[j], level[j], wait[j], age[j]>>
  PROVE  TimeInv(j)'
BY DEF TimeInv

(* Driving a pin begins its hold time. *)
LEMMA DriveTime ==
  ASSUME TypeOK, NEW j \in Jobs, NEW st, NEW lvl \in {"level1", "level2"}, NEW after,
         Drive(j, st, lvl, HoldOf(lvl), after)
  PROVE  TimeInv(j)'
<1>1. wait'[j] = HoldOf(lvl) /\ age'[j] = 0 /\ level'[j] = lvl /\ state'[j] = "waiting"
  BY DEF Drive, Deadline, TypeOK
<1>2. HoldOf(lvl) \in Nat
  BY PoolAssumption DEF HoldOf
<1> DEFINE w == wait'[j]
           a == age'[j]
<1>3. w = HoldOf(lvl) /\ a = 0
  BY <1>1
<1> HIDE DEF w, a
<1>4. w + a >= HoldOf(lvl)
  BY <1>2, <1>3
<1>5. QED
  BY <1>1, <1>4 DEF w, a, TimeInv

(* The timer takes from the time to wait what it adds to the time waited.  *)
LEMMA TickTime ==
  ASSUME TypeOK, Tick, NEW j \in Jobs, TimeInv(j)
  PROVE  TimeInv(j)'
<1> DEFINE w == wait[j]
           a == age[j]
           ww == IF w > 0 THEN w - 1 ELSE 0
           aa == IF a < MaxHold THEN a + 1 ELSE MaxHold
           h == HoldOf(level[j])
<1>1. w \in Nat /\ a \in 0..MaxHold /\ h \in 0..MaxHold /\ MaxHold \in Nat
  BY HoldFacts DEF TypeOK, HoldOf
<1>2. wait'[j] = ww /\ age'[j] = aa
  BY DEF Tick
<1>3. level'[j] = level[j] /\ state'[j] = state[j]
  BY DEF Tick
<1>4. level[j] # "reset" => IF state[j] = "waiting" THEN w + a >= h ELSE a >= h
  BY DEF TimeInv
<1> HIDE DEF w, a, h
<1>5. (w + a >= h => ww + aa >= h) /\ (a >= h => aa >= h)
  BY <1>1
<1> HIDE DEF ww, aa
<1>6. level[j] # "reset" => IF state[j] = "waiting" THEN ww + aa >= h ELSE aa >= h
  BY <1>4, <1>5
<1>7. QED
  BY <1>2, <1>3, <1>6, Zenon DEF TimeInv, h

(* Every step keeps what is known of a pulse that is left to itself.       *)
LEMMA PulseStep == PulseInv /\ [Next]_vars => PulseInv'
<1> SUFFICES ASSUME PulseInv, [Next]_vars, ~restarted', NEW i \in Jobs
             PROVE  PinInv(i)' /\ TimeInv(i)'
  BY TypeStep DEF PulseInv
<1>0. TypeOK
  BY DEF PulseInv
<1>1. ~restarted
  <2>1. restarted => restarted'
    BY DEF Next, StartPulse, Tick, EnterTick, RunJob, PulseOn, PulseOff, Drive, StillWaiting,
           HalfCycleOver, Finish, pulses, vars
  <2>2. QED
    BY <2>1
<1>2. PinInv(i) /\ TimeInv(i)
  BY <1>1 DEF PulseInv
<1>3. ASSUME NEW j \in Jobs, NEW n \in CycleSet, StartPulse(j, n)
      PROVE  PinInv(i)' /\ TimeInv(i)'
  <2>1. CASE i = j
    <3>1. ~Active(i) /\ ~running[i]
      BY <1>2, <1>3, <2>1 DEF StartPulse, PinInv
    <3>2. /\ state'[i] = "pulse_on" /\ cycles'[i] = n /\ total'[i] = n
          /\ UNCHANGED <<running, wait, nextState, level, age>>
      BY <1>0, <1>3, <2>1, <3>1 DEF StartPulse, TypeOK
    <3>3. PinInv(i)'
      BY <3>1, <3>2 DEF PinInv, AsAsked
    <3>4. TimeInv(i)'
      BY <1>2, <3>1, <3>2 DEF TimeInv, Active
    <3>5. QED
      BY <3>3, <3>4
  <2>2. CASE i # j
    <3>1. UNCHANGED <<state[i], cycles[i], total[i], running, wait, nextState, level, age>>
      BY <1>0, <1>3, <2>2 DEF StartPulse, TypeOK
    <3>2. QED
      BY <1>2, <3>1, PinStays, TimeStays
  <2>3. QED
    BY <2>1, <2>2
<1>4. CASE Tick
  <2>1. PinInv(i)'
    BY <1>2, <1>4, PinStays DEF Tick
  <2>2. QED
    BY <1>0, <1>2, <1>4, <2>1, TickTime
<1>5. CASE EnterTick
  BY <1>2, <1>5, PinStays, TimeStays DEF EnterTick, pulses
<1>6. ASSUME NEW j \in Jobs, RunJob(j) PROVE PinInv(i)' /\ TimeInv(i)'
  <2>1. CASE i # j
    <3>1. UNCHANGED <<running[i], state[i], cycles[i], total[i], nextState[i], level[i], wait[i], age[i]>>
      BY <1>0, <1>6, <2>1 DEF RunJob, PulseOn, PulseOff, Drive, StillWaiting, HalfCycleOver,
                              Finish, pulses, TypeOK
    <3>2. QED
      BY <1>2, <3>1, PinStays, TimeStays
  <2>2. CASE i = j /\ PulseOn(i)
    <3>1. Drive(i, "pulse_on", "level1", HoldOf("level1"), "pulse_off")
      BY <2>2 DEF PulseOn, HoldOf
    <3>2. TimeInv(i)'
      BY <1>0, <3>1, DriveTime
    <3>3. /\ state[i] = "pulse_on" /\ state'[i] = "waiting" /\ level'[i] = "level1"
          /\ nextState'[i] = "pulse_off" /\ UNCHANGED <<running, cycles, total>>
      BY <1>0, <3>1 DEF Drive, TypeOK
    <3>4. PinInv(i)'
      BY <1>2, <3>3 DEF PinInv, AsAsked
    <3>5. QED
      BY <3>2, <3>4
  <2>3. CASE i = j /\ PulseOff(i)
    <3>1. Drive(i, "pulse_off", "level2", HoldOf("level2"), "pulse_on")
      BY <2>3 DEF PulseOff, HoldOf
    <3>2. TimeInv(i)'
      BY <1>0, <3>1, DriveTime
    <3>3. /\ state[i] = "pulse_off" /\ state'[i] = "waiting" /\ level'[i] = "level2"
          /\ nextState'[i] = "pulse_on" /\ UNCHANGED <<running, cycles, total>>
      BY <1>0, <3>1 DEF Drive, TypeOK
    <3>4. PinInv(i)'
      BY <1>2, <3>3 DEF PinInv, HalfWay
    <3>5. QED
      BY <3>2, <3>4
  <2>4. CASE i = j /\ StillWaiting(i)
    BY <1>2, <2>4, PinStays, TimeStays DEF StillWaiting, pulses
  <2>5. CASE i = j /\ HalfCycleOver(i)
    <3>1. /\ state[i] = "waiting" /\ wait[i] = 0 /\ cycles'[i] = CyclesLeft(i)
          /\ state'[i] = nextState[i] /\ UNCHANGED <<running, total, level, age>>
      BY <1>0, <2>5 DEF HalfCycleOver, TypeOK
    <3>2. TimeInv(i)'
      BY <1>0, <1>2, <3>1 DEF TimeInv, PinInv, TypeOK
    <3>3. (AsAsked(i) => HalfWay(i)') /\ (HalfWay(i) => AsAsked(i)')
      <4>1. /\ cycles[i] = Infinite => cycles'[i] = Infinite
            /\ cycles[i] # Infinite => cycles'[i] % 2 # cycles[i] % 2
            /\ cycles'[i] \in Nat /\ cycles[i] \in Nat /\ total[i] \in Nat
        BY <1>0, <3>1, LeftFacts DEF TypeOK
      <4> DEFINE c == cycles[i]
                 cc == cycles'[i]
                 t == total[i]
      <4>2. t = total'[i]
        BY <3>1
      <4>3. (c = Infinite => cc = Infinite) /\ (c # Infinite => cc % 2 # c % 2)
            /\ c \in Nat /\ cc \in Nat /\ t \in Nat
        BY <4>1
      <4> HIDE DEF c, cc, t
      <4>4. /\ c = Infinite \/ c % 2 = t % 2 => cc = Infinite \/ cc % 2 # t % 2
            /\ c = Infinite \/ c % 2 # t % 2 => cc = Infinite \/ cc % 2 = t % 2
        BY <4>3
      <4>5. QED
        BY <4>2, <4>4, Zenon DEF c, cc, t, AsAsked, HalfWay
    <3>4. PinInv(i)'
      BY <1>2, <3>1, <3>3 DEF PinInv
    <3>5. QED
      BY <3>2, <3>4
  <2>6. CASE i = j /\ Finish(i)
    <3>1. /\ state[i] = "waiting" /\ wait[i] = 0 /\ CyclesLeft(i) = 0
          /\ state'[i] = "done" /\ running'[i] = FALSE
          /\ UNCHANGED <<total, level, age>>
      BY <1>0, <2>6 DEF Finish, TypeOK
    <3>2. TimeInv(i)'
      BY <1>0, <1>2, <3>1 DEF TimeInv, PinInv, TypeOK
    <3>3. cycles[i] # Infinite /\ cycles[i] % 2 = 1
      BY <1>0, <3>1, LeftFacts
    <3>4. total[i] \in Nat
      BY <1>0 DEF TypeOK
    <3>5. level[i] = EndLevel(i)
      <4>1. total[i] % 2 = 0 \/ total[i] % 2 = 1
        BY <3>4
      <4>2. QED
        BY <1>2, <3>1, <3>3, <4>1 DEF PinInv, AsAsked, HalfWay, EndLevel
    <3>6. PinInv(i)'
      BY <3>1, <3>5 DEF PinInv, EndLevel
    <3>7. QED
      BY <3>2, <3>6
  <2>7. QED
    BY <1>6, <2>1, <2>2, <2>3, <2>4, <2>5, <2>6 DEF RunJob
<1>7. CASE UNCHANGED vars
  BY <1>2, <1>7, PinStays, TimeStays DEF vars, pulses
<1>8. QED
  BY <1>3, <1>4, <1>5, <1>6, <1>7 DEF Next

(* No pin has been driven before the first pulse. *)
LEMMA PulseInit == Init => PulseInv
BY TypeInit DEF Init, PulseInv, PinInv, TimeInv

(* A pulse that is left to itself leaves its pin where it was asked to,    *)
(* whatever the number of half-cycles, the wrap of the counter and the     *)
(* endless count included, and whatever the other jobs do (run_job).       *)
THEOREM PinEndsAtRest == Spec => []PinAtRest
<1>1. PulseInv => PinAtRest
  BY DEF PulseInv, PinInv, PinAtRest, EndLevel
<1>2. QED
  BY <1>1, PulseInit, PulseStep, PTL DEF Spec

(* And it keeps every level for its hold time, however late the timer poll *)
(* comes to it (m_wait_until).                                             *)
THEOREM HoldKept == Spec => HoldRespected
<1>1. ASSUME PulseInv, [Next]_vars, NEW j \in Jobs,
             level'[j] # level[j], level[j] # "reset", ~restarted
      PROVE  age[j] >= IF level[j] = "level1" THEN Hold1 ELSE Hold2
  <2>1. PinInv(j) /\ TimeInv(j) /\ TypeOK
    BY <1>1 DEF PulseInv
  <2>2. state[j] # "waiting"
    <3>1. CASE \E k \in Jobs : PulseOn(k) \/ PulseOff(k)
      BY <1>1, <2>1, <3>1 DEF PulseOn, PulseOff, Drive, TypeOK
    <3>2. CASE ~\E k \in Jobs : PulseOn(k) \/ PulseOff(k)
      <4>1. level' = level
        BY <1>1, <3>2 DEF Next, StartPulse, Tick, EnterTick, RunJob, StillWaiting,
                          HalfCycleOver, Finish, pulses, vars
      <4>2. QED
        BY <1>1, <4>1
    <3>3. QED
      BY <3>1, <3>2
  <2>3. QED
    BY <1>1, <2>1, <2>2 DEF TimeInv, HoldOf
<1>2. PulseInv /\ [Next]_vars =>
        [\A j \in Jobs :
           level'[j] # level[j] /\ level[j] # "reset" /\ ~restarted =>
             age[j] >= IF level[j] = "level1" THEN Hold1 ELSE Hold2]_vars
  BY <1>1
<1>3. QED
  BY <1>2, PulseInit, PulseStep, PTL DEF Spec, HoldRespected

-----------------------------------------------------------------------------
(* The list of a pool with one job: the job alone, or nothing. *)
ListInv ==
    /\ TypeOK
    /\ \A j \in Jobs : ~running[j] /\ (state[j] = "waiting" => nextState[j] # "invalid")
    /\ ~restarted =>
         /\ \A j \in Jobs : next[j] = Null /\ prev[j] = Null
         /\ \A j \in Jobs : Active(j) => jobHead = j /\ jobTail = j
         /\ (\A j \in Jobs : ~Active(j)) => jobHead = Null /\ jobTail = Null

(* The firmware's pool, which has one job object, never loses a pulse that *)
(* runs and is empty when none does: the links a job keeps from its last   *)
(* time on the list do no harm (add_job_list, remove_job, end_job).        *)
THEOREM PoolListsItsJob ==
  ASSUME \A i, j \in Jobs : i = j
  PROVE  Spec => []PoolHoldsActiveJobs
<1>1. Init => ListInv
  BY TypeInit DEF Init, ListInv, Active
<1>2. ListInv /\ [Next]_vars => ListInv'
  <2> SUFFICES ASSUME ListInv, [Next]_vars
               PROVE  /\ \A j \in Jobs : ~running'[j] /\ (state'[j] = "waiting" => nextState'[j] # "invalid")
                      /\ ~restarted' =>
                           /\ \A j \in Jobs : next'[j] = Null /\ prev'[j] = Null
                           /\ \A j \in Jobs : Active(j)' => jobHead' = j /\ jobTail' = j
                           /\ (\A j \in Jobs : ~Active(j)') => jobHead' = Null /\ jobTail' = Null
    BY TypeStep DEF ListInv
  <2>0. TypeOK /\ Null \notin Jobs
    BY PoolAssumption DEF ListInv
  <2>1. ASSUME NEW j \in Jobs, NEW n \in CycleSet, StartPulse(j, n), ~restarted'
        PROVE  /\ \A k \in Jobs : next'[k] = Null /\ prev'[k] = Null
               /\ \A k \in Jobs : Active(k)' => jobHead' = k /\ jobTail' = k
               /\ (\A k \in Jobs : ~Active(k)') => jobHead' = Null /\ jobTail' = Null
    <3>1. ~restarted /\ ~Active(j) /\ ~running[j]
      BY <2>1 DEF StartPulse, ListInv
    <3>2. \A k \in Jobs : k = j
      OBVIOUS
    <3>3. jobHead = Null /\ jobTail = Null /\ next[j] = Null /\ prev[j] = Null
      BY <3>1, <3>2 DEF ListInv
    <3>4. jobHead' = j /\ jobTail' = j /\ next' = next /\ prev' = prev
      BY <2>1, <3>1, <3>3 DEF StartPulse, AddJob
    <3>5. Active(j)'
      BY <2>0, <2>1, <3>1 DEF StartPulse, Active, TypeOK
    <3>6. QED
      BY <3>2, <3>3, <3>4, <3>5
  <2>2. ASSUME NEW j \in Jobs, NEW n \in CycleSet, StartPulse(j, n)
        PROVE  \A k \in Jobs : ~running'[k] /\ (state'[k] = "waiting" => nextState'[k] # "invalid")
    BY <2>0, <2>2 DEF StartPulse, ListInv, TypeOK
  <2>3. CASE Tick \/ EnterTick \/ UNCHANGED vars
    BY <2>3 DEF Tick, EnterTick, vars, links, pulses, ListInv, Active
  <2>4. ASSUME NEW j \in Jobs, PulseOn(j) \/ PulseOff(j) \/ StillWaiting(j) \/ HalfCycleOver(j)
        PROVE  /\ \A k \in Jobs : ~running'[k] /\ (state'[k] = "waiting" => nextState'[k] # "invalid")
               /\ ~restarted' =>
                    /\ \A k \in Jobs : next'[k] = Null /\ prev'[k] = Null
                    /\ \A k \in Jobs : Active(k)' => jobHead' = k /\ jobTail' = k
                    /\ (\A k \in Jobs : ~Active(k)') => jobHead' = Null /\ jobTail' = Null
    <3>1. UNCHANGED <<jobHead, jobTail, next, prev, running, restarted>> /\ Active(j)
      BY <2>4 DEF PulseOn, PulseOff, Drive, StillWaiting, HalfCycleOver, links, pulses, Active
    <3>2. \A k \in Jobs : k = j
      OBVIOUS
    <3>3. Active(j)' /\ (state'[j] = "waiting" => nextState'[j] # "invalid")
      <4>1. CASE PulseOn(j) \/ PulseOff(j)
        BY <2>0, <4>1 DEF PulseOn, PulseOff, Drive, TypeOK, Active
      <4>2. CASE StillWaiting(j)
        BY <4>2 DEF StillWaiting, pulses, ListInv, Active
      <4>3. CASE HalfCycleOver(j)
        <5>1. /\ state'[j] = nextState[j] /\ nextState[j] # "invalid"
              /\ nextState[j] \in {"invalid", "pulse_on", "pulse_off"}
          BY <2>0, <4>3 DEF HalfCycleOver, ListInv, TypeOK
        <5>2. QED
          BY <5>1 DEF Active
      <4>4. QED
        BY <2>4, <4>1, <4>2, <4>3
    <3>4. QED
      BY <3>1, <3>2, <3>3 DEF ListInv
  <2>5. ASSUME NEW j \in Jobs, Finish(j)
        PROVE  /\ \A k \in Jobs : ~running'[k] /\ (state'[k] = "waiting" => nextState'[k] # "invalid")
               /\ ~restarted' =>
                    /\ \A k \in Jobs : next'[k] = Null /\ prev'[k] = Null
                    /\ \A k \in Jobs : Active(k)' => jobHead' = k /\ jobTail' = k
                    /\ (\A k \in Jobs : ~Active(k)') => jobHead' = Null /\ jobTail' = Null
    <3>1. Active(j) /\ restarted' = restarted /\ RemoveJob(j)
      BY <2>5 DEF Finish, Active
    <3>2. \A k \in Jobs : k = j
      OBVIOUS
    <3>3. running'[j] = FALSE /\ ~Active(j)' /\ state'[j] # "waiting"
      BY <2>0, <2>5 DEF Finish, TypeOK, Active
    <3>4. ~restarted => jobHead' = Null /\ jobTail' = Null /\ next' = next /\ prev' = prev
      BY <3>1 DEF ListInv, RemoveJob
    <3>5. QED
      BY <3>1, <3>2, <3>3, <3>4 DEF ListInv
  <2>6. QED
    BY <2>1, <2>2, <2>3, <2>4, <2>5 DEF Next, RunJob
<1>3. ListInv => PoolHoldsActiveJobs
  BY DEF ListInv, PoolHoldsActiveJobs, ActiveJobsListed, Listed
<1>4. QED
  BY <1>1, <1>2, <1>3, PTL DEF Spec
=============================================================================
