------------------------------ MODULE WorkPool ------------------------------
(***************************************************************************)
(* The cooperative work pool of navputter.h (a doubly linked list of jobs  *)
(* run from the main loop) with the one kind of job it has, the GPIO pulse *)
(* of navputter.cpp that power-cycles the attached unit.                   *)
(*                                                                         *)
(* A key press starts a pulse (start_pulse); the timer interrupt counts    *)
(* ticks; the main loop's timer poll runs every listed job once per tick.  *)
(* The deadline m_wait_until is kept as the number of ticks still to come. *)
(***************************************************************************)
EXTENDS Integers, FiniteSets

CONSTANTS
    Jobs,       \* the job objects; the firmware has one, m_pulse
    Null,       \* the null pointer
    Hold1,      \* ticks at level 1: PULSE_HOLD_TIME1 << PULSE_TIME_MUL
    Hold2,      \* ticks at level 2: PULSE_HOLD_TIME2 << PULSE_TIME_MUL
    CycleSet,   \* the half-cycle counts PULSE_CYCLES << PULSE_CYCLES_MUL in use
    Infinite,   \* WORK_CYCLES_INFINITE
    CycleMod    \* m_cycles is a uint32_t; this bounds it

ASSUME PoolAssumption ==
    /\ Null \notin Jobs
    /\ Hold1 \in Nat /\ Hold2 \in Nat
    /\ CycleMod \in Nat \ {0} /\ CycleMod % 2 = 0
    /\ CycleSet \subseteq 0..(CycleMod - 1)
    /\ Infinite \in Nat \ {0}

VARIABLES
    jobHead, jobTail,   \* m_job_head, m_job_tail
    next, prev,         \* each job's m_next, m_prev
    state,              \* each job's m_state
    running,            \* each job's m_running
    cycles,             \* each pulse's m_cycles
    total,              \* history: the half-cycles its begin() asked for
    wait,               \* ticks until its m_wait_until
    nextState,          \* its m_next_state
    level,              \* the level it last drove its pin to
    age,                \* history: ticks since then, saturating at MaxHold
    restarted,          \* history: a pulse was started while it ran
    due,                \* global_ticks differs from m_last_work
    cur                 \* the loop variable of tick(), Null outside tick()

links  == <<jobHead, jobTail, next, prev>>
pulses == <<cycles, total, wait, nextState, level, age, restarted>>
vars   == <<links, state, running, pulses, due, cur>>

Ptr    == Jobs \union {Null}
MaxHold == IF Hold1 > Hold2 THEN Hold1 ELSE Hold2
States == {"invalid", "starting", "pulse_on", "pulse_off", "waiting", "done"}
Levels == {"reset", "level1", "level2"}

TypeOK ==
    /\ jobHead \in Ptr /\ jobTail \in Ptr /\ cur \in Ptr
    /\ next \in [Jobs -> Ptr] /\ prev \in [Jobs -> Ptr]
    /\ state \in [Jobs -> States]
    /\ running \in [Jobs -> BOOLEAN]
    /\ cycles \in [Jobs -> 0..(CycleMod - 1)]
    /\ total \in [Jobs -> 0..(CycleMod - 1)]
    /\ wait \in [Jobs -> 0..MaxHold]
    /\ age \in [Jobs -> 0..MaxHold]
    /\ nextState \in [Jobs -> {"invalid", "pulse_on", "pulse_off"}]
    /\ level \in [Jobs -> Levels]
    /\ due \in BOOLEAN /\ restarted \in BOOLEAN

(* Global objects start zeroed; the pool's begin() sets both ends to NULL. *)
Init ==
    /\ jobHead = Null /\ jobTail = Null /\ cur = Null
    /\ next = [j \in Jobs |-> Null] /\ prev = [j \in Jobs |-> Null]
    /\ state = [j \in Jobs |-> "invalid"]
    /\ running = [j \in Jobs |-> FALSE]
    /\ cycles = [j \in Jobs |-> 0] /\ total = [j \in Jobs |-> 0]
    /\ wait = [j \in Jobs |-> 0]
    /\ nextState = [j \in Jobs |-> "invalid"]
    /\ level = [j \in Jobs |-> "reset"]
    /\ age = [j \in Jobs |-> MaxHold]
    /\ due = FALSE /\ restarted = FALSE

(* A job between its start_job and its end_job. *)
Active(j) == state[j] \in {"pulse_on", "pulse_off", "waiting"}

----------------------------------------------------------------------------
(* Mutants of add_job_list: the head of an empty list is not set; the new  *)
(* job's next link is cleared before the old tail's is set.                *)
AddJobNoHead(j) == jobTail' = j /\ UNCHANGED <<jobHead, next, prev>>

AddJobLoops(j) ==
    /\ jobTail' = j
    /\ \/ /\ jobTail = Null
          /\ jobHead' = j
          /\ UNCHANGED <<next, prev>>
       \/ /\ jobTail # Null
          /\ next' = [next EXCEPT ![j] = Null, ![jobTail] = j]
          /\ prev' = [prev EXCEPT ![j] = jobTail]
          /\ UNCHANGED jobHead

(* add_job_list: on an empty list the job's own links keep what they held. *)
AddJob(j) ==
    /\ jobTail' = j
    /\ \/ /\ jobTail = Null
          /\ jobHead' = j
          /\ UNCHANGED <<next, prev>>
       \/ /\ jobTail # Null
          /\ next' = [next EXCEPT ![jobTail] = j, ![j] = Null]
          /\ prev' = [prev EXCEPT ![j] = jobTail]
          /\ UNCHANGED jobHead

(* Mutant: the tail stays when the last job is removed. *)
RemoveJobKeepsTail(j) ==
    LET n == next[j]
        p == prev[j]
    IN  /\ jobHead' = IF jobHead = j THEN n ELSE jobHead
        /\ jobTail' = jobTail
        /\ prev' = IF n = Null THEN prev ELSE [prev EXCEPT ![n] = p]
        /\ next' = IF p = Null THEN next ELSE [next EXCEPT ![p] = n]

(* remove_job, whose last two assignments go through the links it read.    *)
RemoveJob(j) ==
    LET n == next[j]
        p == prev[j]
    IN  /\ jobHead' = IF jobHead = j THEN n ELSE jobHead
        /\ jobTail' = IF jobTail = j THEN p ELSE jobTail
        /\ prev' = IF n = Null THEN prev ELSE [prev EXCEPT ![n] = p]
        /\ next' = IF p = Null THEN next ELSE [next EXCEPT ![p] = n]

(* start_pulse, called by press(): the pulse's begin() takes the key's     *)
(* parameters first, whatever the job is doing; start_job then refuses a   *)
(* running job, or lists the job and calls its start().                    *)
StartPulse(j, n) ==
    /\ cur = Null
    /\ restarted' = (restarted \/ Active(j))
    /\ cycles' = [cycles EXCEPT ![j] = n]
    /\ total' = [total EXCEPT ![j] = n]
    /\ IF running[j]
         THEN UNCHANGED <<links, state>>
         ELSE AddJob(j) /\ state' = [state EXCEPT ![j] = "pulse_on"]
    /\ UNCHANGED <<running, wait, nextState, level, age, due, cur>>

(* The timer interrupt. *)
Tick ==
    /\ due' = TRUE
    /\ wait' = [j \in Jobs |-> IF wait[j] > 0 THEN wait[j] - 1 ELSE 0]
    /\ age' = [j \in Jobs |-> IF age[j] < MaxHold THEN age[j] + 1 ELSE MaxHold]
    /\ UNCHANGED <<links, state, running, cycles, total, nextState, level, restarted, cur>>

(* navputter_timer_class::poll enters tick() when the count has moved.     *)
EnterTick ==
    /\ cur = Null /\ due
    /\ due' = FALSE
    /\ cur' = jobHead
    /\ UNCHANGED <<links, state, running, pulses>>

(* Mutants: the deadline is a tick late, or is the current tick. *)
DeadlineLate(hold) == hold + 1
DeadlineNow(hold) == 0

(* m_wait_until, counted from now. *)
Deadline(hold) == hold

(* One half of the pulse begins: run_job in the states PULSE_ON and        *)
(* PULSE_OFF drives the pin and sets the deadline.                         *)
Drive(j, st, lvl, hold, after) ==
    /\ cur = j /\ state[j] = st
    /\ level' = [level EXCEPT ![j] = lvl]
    /\ state' = [state EXCEPT ![j] = "waiting"]
    /\ wait' = [wait EXCEPT ![j] = Deadline(hold)]
    /\ age' = [age EXCEPT ![j] = 0]
    /\ nextState' = [nextState EXCEPT ![j] = after]
    /\ cur' = next[j]
    /\ UNCHANGED <<links, running, cycles, total, restarted, due>>

(* Mutant: level 1 is followed by level 1. *)
PulseOnTwice(j) == Drive(j, "pulse_on", "level1", Hold1, "pulse_on")

PulseOn(j)  == Drive(j, "pulse_on", "level1", Hold1, "pulse_off")
PulseOff(j) == Drive(j, "pulse_off", "level2", Hold2, "pulse_on")

StillWaiting(j) ==
    /\ cur = j /\ state[j] = "waiting" /\ wait[j] > 0
    /\ cur' = next[j]
    /\ UNCHANGED <<links, state, running, pulses, due>>

(* The count after a half-cycle; the endless count stays. *)
CyclesLeft(j) == IF cycles[j] = Infinite THEN cycles[j] ELSE (cycles[j] - 1) % CycleMod

HalfCycleOver(j) ==
    /\ cur = j /\ state[j] = "waiting" /\ wait[j] = 0
    /\ CyclesLeft(j) # 0
    /\ cycles' = [cycles EXCEPT ![j] = CyclesLeft(j)]
    /\ state' = [state EXCEPT ![j] = nextState[j]]
    /\ cur' = next[j]
    /\ UNCHANGED <<links, running, total, wait, nextState, level, age, restarted, due>>

(* The last half-cycle: tick() sees WORKER_DONE and calls end_job, then    *)
(* follows the next link the removed job is left with.                     *)
Finish(j) ==
    /\ cur = j /\ state[j] = "waiting" /\ wait[j] = 0
    /\ CyclesLeft(j) = 0
    /\ cycles' = [cycles EXCEPT ![j] = 0]
    /\ state' = [state EXCEPT ![j] = "done"]
    /\ running' = [running EXCEPT ![j] = FALSE]
    /\ RemoveJob(j)
    /\ cur' = next'[j]
    /\ UNCHANGED <<total, wait, nextState, level, age, restarted, due>>

RunJob(j) == PulseOn(j) \/ PulseOff(j) \/ StillWaiting(j) \/ HalfCycleOver(j) \/ Finish(j)

Next ==
    \/ \E j \in Jobs, n \in CycleSet : StartPulse(j, n)
    \/ Tick
    \/ EnterTick
    \/ \E j \in Jobs : RunJob(j)

(* The timer interrupt keeps coming and the main loop keeps looping (the   *)
(* watchdog restarts a loop that does not); no key need ever be pressed.   *)
Fairness == WF_vars(Tick) /\ WF_vars(EnterTick) /\ \A j \in Jobs : WF_vars(RunJob(j))

Spec == Init /\ [][Next]_vars /\ Fairness

----------------------------------------------------------------------------
(* A job start_job accepted stays on the list tick() runs until its        *)
(* end_job: no pulse is left half done with nobody to finish it            *)
(* (start_job's refusal of a running job, add_job_list, remove_job).       *)
Listed == {j \in Jobs : jobHead = j \/ \E i \in Jobs \ {j} : next[i] = j}

ActiveJobsListed == \A j \in Jobs : Active(j) => j \in Listed

(* As long as no pulse is started while it runs, the list holds the active *)
(* jobs and an idle pool is empty at both ends, so that the next start_job *)
(* takes the branch for an empty list (add_job_list, remove_job).          *)
PoolHoldsActiveJobs ==
    \/ restarted
    \/ /\ ActiveJobsListed
       /\ (\A j \in Jobs : ~Active(j)) => jobHead = Null /\ jobTail = Null

(* A pulse that is left to itself drives its pin in exactly the            *)
(* half-cycles it was asked for: it ends at level 2, at rest, if their     *)
(* number is even, and at level 1 if it is odd (run_job counts halves).    *)
PinAtRest ==
    \A j \in Jobs :
        state[j] = "done" /\ ~restarted =>
            level[j] = IF total[j] % 2 = 0 THEN "level2" ELSE "level1"

(* A pin is driven to a new level only after as many ticks at the previous *)
(* one as the key asks for, whenever the ticks come, unless the pulse was  *)
(* started anew (m_wait_until).                                            *)
HoldRespected ==
    [][\A j \in Jobs :
         level'[j] # level[j] /\ level[j] # "reset" /\ ~restarted =>
             age[j] >= IF level[j] = "level1" THEN Hold1 ELSE Hold2]_vars

(* Every pulse that is started, is not asked to be endless and is left to  *)
(* itself ends, and frees its place on the list (tick, run_job, end_job).  *)
PulseEnds ==
    \A j \in Jobs : Active(j) ~> (state[j] = "done" \/ total[j] = Infinite \/ restarted)

(* tick() comes back to the main loop, which the watchdog depends on: the  *)
(* links never form a loop, however pulses are restarted.                  *)
TickReturns == cur # Null ~> cur = Null
=============================================================================
