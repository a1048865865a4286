------------------------------- MODULE Ticks -------------------------------
(***************************************************************************)
(* Time: global_ticks, which the timer interrupt advances and the main     *)
(* loop reads without turning the interrupt off.  The counter wraps, and   *)
(* the 8-bit processor reads it one byte after the other, the lowest       *)
(* first (navputter.lss, every `lds' of global_ticks), so that a tick in   *)
(* the middle gives bytes of two different values.                         *)
(*                                                                         *)
(* WorkPool and Keypad keep deadlines as ticks still to come and durations *)
(* as ticks gone by.  This module has the real ones: deadlines             *)
(* `global_ticks + hold' tested with `global_ticks >= until' (the settling *)
(* columns of the keypad, the half-cycles of a pulse), the duration        *)
(* `global_ticks - last_hold', and the two reads with which                *)
(* navputter_timer_class::poll decides that there is work.  m_call_next,   *)
(* whose callback is NULL, is left out.                                    *)
(***************************************************************************)
EXTENDS Integers

CONSTANTS
    Base,       \* the values of a byte
    Mod,        \* the values of global_ticks, a power of Base
    Places,     \* the powers of Base up to Mod: what its bytes count
    Step,       \* what an interrupt adds: 1, or 4 at 8 MHz
    HoldOf,     \* deadline -> the hold time it is set with
    PerRound,   \* ticks that may come during one round of the main loop
    MaxAge      \* true ages saturate here

Deadlines == {"pad", "job"}

ASSUME TicksAssumption ==
    /\ Base \in Nat \ {0, 1}
    /\ Mod \in Nat \ {0} /\ {1, Mod} \subseteq Places
    /\ \A p \in Places : /\ p \in 1..Mod /\ Mod % p = 0
                         /\ p # 1 => p >= Base
                         /\ p # Mod => p * Base \in Places
    /\ Step \in 1..(Base - 1)
    /\ HoldOf \in [Deadlines -> 1..(Mod - 1)]
    /\ PerRound \in Nat \ {0}
    /\ MaxAge \in 1..(Mod - 1)
    /\ \A d \in Deadlines : HoldOf[d] + 2 * Step <= MaxAge

VARIABLES
    ticks,      \* global_ticks
    pc,         \* the statement that is reading it
    place,      \* Base to the number of bytes it has read
    acc,        \* what these bytes say
    lastWork,   \* m_last_work
    until,      \* m_until of the keypad, m_wait_until of the pulse
    waiting,    \* whether they are waited for
    lastHold,   \* last_hold of press()
    pressed,    \* the key with a hold action is down
    from,       \* history: ticks when the statement began to read
    round,      \* history: ticks that have come in this round
    age,        \* history: ticks since the reading that set a deadline began
    spoiled     \* history: that reading was torn, or a deadline's sum, or the
                \* counter since, has wrapped

Marks == Deadlines \union {"hold"}

readVars == <<place, acc, from>>
setVars  == <<lastWork, until, waiting, lastHold, pressed>>
pastVars == <<age, spoiled>>
vars == <<ticks, pc, readVars, setVars, round, pastVars>>

Statements == {"pad", "hold", "work", "copy", "job"}
Counts == 0..(Mod - 1)

TypeOK ==
    /\ ticks \in Counts /\ acc \in Counts /\ from \in Counts
    /\ lastWork \in Counts /\ lastHold \in Counts
    /\ pc \in Statements
    /\ place \in Places
    /\ until \in [Deadlines -> Counts]
    /\ waiting \in [Deadlines -> BOOLEAN]
    /\ pressed \in BOOLEAN
    /\ round \in 0..PerRound
    /\ age \in [Marks -> 0..MaxAge]
    /\ spoiled \in [Marks -> BOOLEAN]

Init ==
    /\ ticks = 0
    /\ pc = "pad" /\ place = 1 /\ acc = 0 /\ from = 0
    /\ lastWork = 0 /\ lastHold = 0 /\ pressed = FALSE
    /\ until = [d \in Deadlines |-> 0]
    /\ waiting = [d \in Deadlines |-> FALSE]
    /\ round = 0
    /\ age = [m \in Marks |-> 0]
    /\ spoiled = [m \in Marks |-> FALSE]

(* What a deadline or a duration that nobody waits for would keep is not   *)
(* read again, and not followed; nor is the age of a spoiled one.          *)
InUse(m) == IF m = "hold" THEN pressed ELSE waiting[m]

Later(m) == IF age[m] + Step < MaxAge THEN age[m] + Step ELSE MaxAge

(* The timer interrupt.  One statement's reading takes some ten cycles,    *)
(* two interrupts are 20000 cycles apart (OCR1A): at most one cuts into it.*)
Tick ==
    /\ round < PerRound
    /\ place > 1 => ticks = from
    /\ ticks' = (ticks + Step) % Mod
    /\ round' = round + 1
    /\ spoiled' = [m \in Marks |->
                      spoiled[m] \/ (ticks' < ticks /\ m \in Deadlines /\ InUse(m))]
    /\ age' = [m \in Marks |-> IF InUse(m) /\ ~spoiled'[m] THEN Later(m) ELSE 0]
    /\ UNCHANGED <<pc, readVars, setVars>>

----------------------------------------------------------------------------
(* Reading global_ticks *)

(* Mutants: a load takes all that is left of the counter; the highest byte *)
(* is read first.                                                          *)
ReadByteWide ==
    /\ place < Mod
    /\ acc' = acc + place * (ticks \div place)
    /\ place' = place * Base
    /\ from' = IF place = 1 THEN ticks ELSE from
    /\ UNCHANGED <<ticks, pc, setVars, round, pastVars>>

ReadByteHighFirst ==
    /\ place < Mod
    /\ acc' = acc + (Mod \div (place * Base)) * ((ticks \div (Mod \div (place * Base))) % Base)
    /\ place' = place * Base
    /\ from' = IF place = 1 THEN ticks ELSE from
    /\ UNCHANGED <<ticks, pc, setVars, round, pastVars>>

(* The next byte, `lds' by `lds', from the lowest up. *)
ReadByte ==
    /\ place < Mod
    /\ acc' = acc + place * ((ticks \div place) % Base)
    /\ place' = place * Base
    /\ from' = IF place = 1 THEN ticks ELSE from
    /\ UNCHANGED <<ticks, pc, setVars, round, pastVars>>

(* The statement has all bytes; acc is its copy of global_ticks. *)
Read(statement) == pc = statement /\ place = Mod

(* The copy is none of the values the counter had meanwhile. *)
IsTorn == acc # from /\ acc # ticks

Goto(statement) ==
    /\ pc' = statement
    /\ place' = 1 /\ acc' = 0 /\ from' = 0
    /\ round' = IF statement = "pad" THEN 0 ELSE round
    /\ UNCHANGED ticks

(* A history of what began when the reading did, and of what has ended.    *)
Mark(m, overflow) ==
    /\ spoiled' = [spoiled EXCEPT ![m] = IsTorn \/ overflow]
    /\ age' = [age EXCEPT ![m] = IF spoiled'[m] THEN 0 ELSE (ticks - from) % Mod]

Forget(m) ==
    /\ age' = [age EXCEPT ![m] = 0]
    /\ spoiled' = [spoiled EXCEPT ![m] = FALSE]

----------------------------------------------------------------------------
(* Deadlines *)

SetDeadline(d) ==
    /\ ~waiting[d]
    /\ until' = [until EXCEPT ![d] = (acc + HoldOf[d]) % Mod]
    /\ waiting' = [waiting EXCEPT ![d] = TRUE]
    /\ Mark(d, acc + HoldOf[d] >= Mod \/ ticks < from)

(* Mutant: the tick before the deadline passes it. *)
PassedEarly(d) == acc + Step >= until[d]

Passed(d) == acc >= until[d]

TestDeadline(d) ==
    /\ waiting[d]
    /\ \/ ~Passed(d) /\ UNCHANGED <<until, waiting, pastVars>>
       \/ /\ Passed(d)
          /\ waiting' = [waiting EXCEPT ![d] = FALSE]
          /\ until' = [until EXCEPT ![d] = 0]
          /\ Forget(d)

Deadline(d) ==
    /\ SetDeadline(d) \/ TestDeadline(d)
    /\ UNCHANGED <<lastWork, lastHold, pressed>>

(* PAD.poll, in KP_SET_COLS or KP_WAIT; trigger() may then run press().    *)
PadPoll ==
    /\ Read("pad")
    /\ Deadline("pad")
    /\ Goto("hold") \/ Goto("work")

(* Mutant: the difference does not wrap. *)
ElapsedNoWrap == IF acc >= lastHold THEN acc - lastHold ELSE 0

(* delta, in press() *)
Elapsed == (acc - lastHold) % Mod

(* The key with a hold action goes down, and up. *)
HoldDown ==
    /\ Read("hold") /\ ~pressed
    /\ lastHold' = acc /\ pressed' = TRUE
    /\ Mark("hold", FALSE)
    /\ Goto("work")
    /\ UNCHANGED <<lastWork, until, waiting>>

HoldUp ==
    /\ Read("hold") /\ pressed
    /\ lastHold' = 0 /\ pressed' = FALSE
    /\ Forget("hold")
    /\ Goto("work")
    /\ UNCHANGED <<lastWork, until, waiting>>

(* Mutant: the pool works only when the count has grown. *)
ThereIsWorkIfMore == lastWork < acc

ThereIsWork == lastWork # acc

(* TIMER.poll: the test, the copy, and WORKERS.tick() with its run_job().  *)
TimerTest ==
    /\ Read("work")
    /\ Goto(IF ThereIsWork THEN "copy" ELSE "pad")
    /\ UNCHANGED <<setVars, pastVars>>

TimerCopy ==
    /\ Read("copy")
    /\ lastWork' = acc
    /\ Goto("job")
    /\ UNCHANGED <<until, waiting, lastHold, pressed, pastVars>>

RunJob ==
    /\ Read("job")
    /\ Deadline("job")
    /\ Goto("pad")

MainLoop == ReadByte \/ PadPoll \/ HoldDown \/ HoldUp \/ TimerTest \/ TimerCopy \/ RunJob

Next == Tick \/ MainLoop

(* The timer runs, and the main loop goes round.                           *)
Spec == Init /\ [][Next]_vars /\ WF_vars(Tick) /\ WF_vars(MainLoop)

----------------------------------------------------------------------------
(* The value the reading comes to if no more ticks cut into it. *)
Reading == (ticks \div place) * place + acc

(* A reading that an interrupt cuts into is never behind the counter as it *)
(* was when the reading began, and is ahead of it as it is now by less     *)
(* than the bytes it had already read can say (the order of the loads).    *)
NeverBehind ==
    place > 1 => \/ Reading = from
                 \/ (Reading - ticks) % Mod < place

(* A deadline passes early only by a torn reading or because the sum       *)
(* wrapped, and is still waited for after its time only because of a torn  *)
(* reading or because the counter wrapped: otherwise deadlines may be      *)
(* taken as ticks to come (m_until, m_wait_until).                         *)
DeadlineKept ==
    [][\A d \in Deadlines : Read(d) /\ pc' # pc /\ waiting[d] /\ ~IsTorn /\ ~spoiled[d] =>
         IF waiting'[d] THEN age[d] < HoldOf[d] + 2 * Step
                        ELSE age[d] >= HoldOf[d]]_vars

(* The time a key was held is measured right, to the ticks that cut into   *)
(* the two readings, also when the counter wraps meanwhile (press, delta). *)
HoldMeasured ==
    [][Read("hold") /\ pc' # pc /\ pressed /\ ~IsTorn /\ ~spoiled["hold"] /\ age["hold"] < MaxAge =>
         Elapsed \in (age["hold"] - 2 * Step)..age["hold"]]_vars

(* A pulse that waits comes to its deadline, whatever ticks the pool has   *)
(* missed between the two reads of TIMER.poll, unless the deadline is so   *)
(* near the wrap that the counter may jump over the rest (m_last_work).    *)
JobGoesOn ==
    waiting["job"] /\ until["job"] < Mod - 2 * PerRound * Step ~> ~waiting["job"]
=============================================================================
