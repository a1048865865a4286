# TLA+ models of the NavPutter firmware

NavPutter turns a home-made matrix keypad into a USB keyboard, mouse and serial
port for a navigation unit.  The firmware runs on an ATmega32U4 with the LUFA USB
stack: one main loop, one timer interrupt, one USB control-endpoint interrupt.
These modules model the parts of it where order matters: a key press that travels
from the switch through the scan, the key buffer and the HID report to the host;
the ticks that all waiting is measured in; the work pool that power-cycles the
attached unit; the configuration in EEPROM; the serial line and the menus on it.

Line numbers refer to `navputter.cpp` (C), `navputter.h` (H) and
`VirtualSerialMouse.c` (V).

## 1. The system

### Who runs when

```
main loop (C:186):  PAD.poll -> TIMER.poll -> DOG.kick -> lufa_main_loop -> myputter.poll
                       |            |                         |                  |
                    scan, press   jobs                  HID and CDC tasks      menus
timer interrupt (C:86):      global_ticks
USB interrupt (V:207):       control requests: GET_REPORT, SET_CONFIGURATION, bus reset
```

The main loop's five calls never overlap each other.  The two interrupts can come
between any two instructions of the main loop and run to their end.  The makefile
sets `INTERRUPT_CONTROL_ENDPOINT`, so the USB control requests, and with them
`CALLBACK_HID_Device_CreateHIDReport` and `pop_key`, also run in an interrupt.

### Components

| Component | State | Operations | Talks to | What makes it correct |
|---|---|---|---|---|
| Key buffer (V:47-99) | `out_key_buffer`, `out_key_head`, `out_key_tail` | `push_key`, `pop_key` | pushed by the keypad, popped by the report callback in the main loop and in the interrupt | every press accepted comes out once, in order, unchanged; nothing else comes out; nothing behind the array is touched |
| HID reports (V:217-303, C:162) | `key_state`, LUFA's previous report, the endpoint bank | report callback, start of frame, configuration change | key buffer, mouse state, LUFA, host | the host sees every press, sees it released, sees the mouse as it is |
| Keypad (C:230-384, C:449-479) | scan state, column masks, mouse motion and buttons, mode and step, `last_hold` | `poll`, `trigger`, `press` | key buffer, work pool, configuration | no edge is lost; the mouse moves only under a key; hold actions keep their times |
| Work pool and pulse (H:593-790, C:543-558, C:1635-1758) | a doubly linked list of jobs; each pulse's state, count, deadline | `start_job`, `tick`, `run_job`, `end_job` | started by `press`, run by `TIMER.poll` | a job started is run until it ends; a pulse ends and leaves the pin at rest; `tick` returns |
| Configuration, EEPROM, boot, eeprom menu (C:197-220, C:517-542, C:664-782) | `CONFIG`, its copy in EEPROM, the loaded key map | `init`, `write`, the eeprom menu's fields | read by every other component | values stay in the ranges the arrays have; a boot restores the last complete save |
| Ticks (C:86, C:1746) | `global_ticks`, `m_last_work`, the deadlines and times taken from it | timer interrupt, byte-wise reads, `TIMER.poll` | keypad, pulse | a deadline is neither early nor lost; work goes on although ticks are missed |
| Serial line (H:476-560, V:306-334) | a ring of 16 bytes; the two endpoint banks | `push`, `pop`, blocking output, flush | menus, LUFA's CDC class, the host | commands arrive whole and are answered; a host that reads never makes the watchdog bite |
| Menu lifecycle and main menu (C:598-662) | `m_cur_menu`, a pointer to the one heap object; `this` of the `poll` that runs | `set_menu`, `clear_menu`, `end`, `poll`, `usage` | serial line; opens the other menus | the object in use is not one just freed; one object, never none; every menu can be left |
| GPIO menu (C:784-1099) | parser state, command, port, digits, parameters; the port registers | `poll`, one function per command | serial line, ports, converter | a command does what its help text says, to the port and with the value that were typed |
| Key map editor (C:1101-1620) | a private copy of a key map, the field being edited and a pointer into it, a line buffer | commands | serial line | an edit changes the selected key and no other; indices stay inside the arrays |
| Watchdog (H:564) | 250 ms | `kick` | main loop, the menus' reads | a reset at any time loses nothing that was saved, and comes only when the loop is held up |

Not firmware logic, or not built: the descriptors and scan code tables (constants);
`navnmea`, `minmea`, `navkeys`, `uTFT_ST7735`, `mcp2515`, `myutil`, `glcdfont` (not in
the makefile's `SRC`); `coreduino` (vendored).  LUFA is not in the repository; what
it does is modelled from the way the firmware uses it and marked external.

### What is hard here

* `pop_key` reads and stores the volatile tail in several instructions, and the
  interrupt runs it too.
* The ring's indices run over nine slots and the array has eight.
* One report buffer serves keyboard and mouse, and LUFA drops a report whose bytes
  are those of the previous one, whichever device that was for.
* Keys change while the columns are read one after the other; modes change between
  the two events of one key; one `last_hold` serves all keys.
* `start_job` can find its job on the list already; the half-cycle count passes
  through a value with another meaning.
* Power can fail between two bytes of the header.
* A menu handler frees the object it runs in; `usage` is called on it afterwards.
* The editor's field pointer outlives the choice of the key it points into.
* `global_ticks` is four bytes that the main loop reads one by one while the interrupt
  counts, and it wraps.
* Output waits for the host, byte by byte, with the watchdog running; commands that
  come meanwhile go into a ring of 16 bytes that the waiting menu does not read.

`PROJECT.json` lists each of these hazards at its line, with the properties that
watch it or the reason why none does.

## 2. Modules

| Module | What it is |
|---|---|
| `KeyFifo` | Abstract: a bounded first-in first-out queue of presses. |
| `KeyRing` | `push_key` and `pop_key` at the grain at which the interrupt can cut in; implements `KeyFifo`. |
| `HidReport` | The report callback, LUFA's HID task, the control requests and the host; uses the key buffer as `KeyFifo` describes it. |
| `Keypad` | Scan, change detection, key events; rows, columns and mode changed under way. |
| `Ticks` | The tick counter as it is read, the deadlines and times made from it, `TIMER.poll`. |
| `WorkPool` | Job list, timer poll, GPIO pulse. |
| `EepromConfig` | Header bytes, boot, save, eeprom menu, power loss. |
| `SerialLine` | Host, endpoint banks, ring, the menu's reads and its printing, the watchdog; its ring implements `KeyFifo`. |
| `Navputter` | Extends `Keypad` and composes it with `HidReport` as `main()` does: from the hand to the host. |
| `Octet` | An 8-bit register as the set of its one bits. |
| `GpioMenu` | The command parser and the port registers it changes. |
| `KeymapEditor` | The editor's states, the field being edited, the typed numbers. |
| `Console` | The menu objects, the main menu, and one `poll` of whichever menu there is; composes `GpioMenu` and `KeymapEditor`. |
| `..._proofs` | Proofs about `KeyRing`, `HidReport`, `Navputter` (and `Keypad`, which it extends), `Ticks`, `WorkPool`, `EepromConfig`, `SerialLine` and `Console`, each for every value of its constants (section 4). |
| `MC...` | Small instances of each for TLC. |

### KeyRing

`buf` has the slots 0..N of the ring; slot N is the word behind the array of N
elements, which the linker map of the shipped build (`navputter.sym`) gives to
`USB_Device_ConfigurationNumber`.  `push_key` is split into its tests (`PushTest`),
the store of the slot (`PushSlot`) and of the head (`PushHead`); `pop_key` into the
test, the read of the slot and the separate reads and store of the tail (`PopTest`,
`PopSlot`, `PopWrap`, `PopLoad`, `PopStore`), in the order of the listing
`navputter.lss`.  `PopIsr` is the whole `pop_key` inside an interrupt, allowed at the
program points `IsrWindow`.  `SetConfig` is an interrupt's store of the configuration
number; without `Clash` it comes only while slot N holds no press, as when the host
enumerates the device before a key is used.  `owed` counts presses accepted less
presses handed out; `pushed` and `popped` show what callers see.  A slot read through
a tail beyond N yields `Junk`.

### HidReport

`Create` is the callback: with `key_state` SEND_KEY a key report if a press is
queued, else a forced mouse report, then CLEAR_KEY; with CLEAR_KEY an empty key
report.  LUFA's task is four steps (`StartTask`, `Fill`, `Compare`, `Write`) so that
interrupts can come between them: it returns early unless the device is configured,
the frame is new and the bank is free, calls the callback, and sends the report if
it is forced or differs from the previous one.  `Pressed` is what one key event does to
it: up to two presses queued, the mouse set.  The host polls the bank, asks with
GET_REPORT, configures and resets.  Reports are their first three bytes, which is
where keyboard and mouse reports overlap, so a mouse report can equal a key report.
The host's idle rate is 0: nothing is resent for its age.

### Keypad

`pins` is the hand; `SetCols`, `Settled`, `ReadRows` are the three states of
`poll`; `at` is the loop position of `trigger`, which `SkipColumn`, `KeyDown`, `KeyUp`,
`NoEdge` and `TriggerDone` move, one matrix position each, so that the hand and the
timer act in between.  `Press` is the whole of `press`: hold test, keys sent, motion,
buttons, mode, step.  Deadlines and durations are relative to now, durations saturate
above every maximum hold time.  `since` remembers for every hold key when that very
key went down, while the code's `held` (`last_hold`) is one for all.  The serial menu
changes `key_arrows` (`SetArrows`) and `rows` and `cols` (`SetSize`; `KeysUp` keeps it to
a pad at rest): the loops stop at `size`, the arrays keep what lies beyond it.
`carried` remembers the directions in which the mouse was moving when the mode changed.

### Ticks

`global_ticks` has a few bytes of a few values each (`Base`, `Mod`); each statement that
reads it loads them one by one from the lowest up (`ReadByte`), as the listing has it,
and one interrupt can come between two loads, since a reading takes some ten cycles and
two interrupts are 20000 apart.  `acc` is the copy the statement ends up with, `IsTorn`
says that it is no value the counter had.  The main loop is the sequence of these
statements: the keypad's deadline is set or tested (`PadPoll`), a hold begins or ends
(`HoldDown`, `HoldUp`), `TIMER.poll` tests and copies with two separate reads (`TimerTest`,
`TimerCopy`), the pulse sets or tests its own (`RunJob`).  `age` counts the true ticks since
a deadline was set; `spoiled` that the reading was torn or a sum or the counter wrapped.

### WorkPool

The list is `jobHead`, `jobTail`, `next`, `prev`, with `AddJob` and `RemoveJob` as the code
has them, stale links included.  `cur` is the loop variable of `tick`; every pass of
its loop is one action, so the timer can tick between two jobs.  The deadline is the
number of ticks to come; `age`, the ticks since the pin was driven, is independent of
it.  `total` is the count a pulse was asked for.  `restarted` records that a pulse was
started while it ran, which `start_job` means to refuse and does not, because nothing
calls `running(true)`.

### EepromConfig

The header is its version, low byte first, and the fields the firmware acts on, one
byte each in their order.  `BootReset` and `BootRead` are the two branches of `init`;
`WriteByte` is one turn of the loop of `write`, so `PowerCut` (which the watchdog is too)
can come between any two.  The eeprom menu is its state machine with the typed
number; `SetValue` checks range and key map index as the code does.  `saved` and `torn`
remember the last complete save and whether one has been cut since.  `mouse_step` is
here and not constant because KA_MOUSE_STEP doubles it in CONFIG (`DoubleStep`), from
where any later 'w' saves it and any boot reads it back.

### SerialLine

One round of the main loop is `PadPoll` (which may print a key report), `Flush`,
`Receive` (one byte from the OUT bank into the ring) and a poll of the menu: `PollRead`
takes a byte and echoes it, `PollCompute` is a state that computes without reading, and
the last of them prints the reply.  `PrintByte` is LUFA's `CDC_Device_SendByte`: with the
bank full it hands it over and waits (`WaitEnds`) until the host has taken it or the
time is up, and then the byte is lost.  Time passes only while the loop waits, in
frames (`Frame`), which the watchdog counts.  The host opens the line, sends commands
ahead of their replies, may leave and come back, and takes a bank within `Latency` while
it is there.  `DogBite` restarts the device.  A byte is a command's number and its place in
the command, so that lost, doubled and mixed bytes show.

### Navputter

The module extends `Keypad`; `Hid` is an instance of `HidReport`, whose `mouse` is what
`get_mouse_status` makes of the keypad's `dir` and `clicks` (`MouseNow`).  `mouse_step` is
constant here, as `HidReport` has it (no key of this pad has KA_MOUSE_STEP, `NavAssumption`);
`NoPressWithoutHand` does not use that.  A key event of the
keypad is one `Pressed` of `Hid`, with those of its keypairs that find room in the queue
(`KeyEvent`, `Accepted`).  `turn` keeps
the order of `main()`: one poll of the keypad, with all of `trigger` if it gets there, then
one HID task to its end.  Hand, timer, serial menu, bus resets and GET_REPORTs come
between any two steps; the mode changes only while no key is down (`KeysUp`), since what
it leaves behind otherwise is known (section 3).  `due` counts, for each position, the presses that the closings
of its switch still warrant.

### Console, GpioMenu, KeymapEditor

`Console` is a heap of two addresses.  `Replace` is `clear_menu`, `new` and
`set_menu` as every handler calls them, and `new` takes the lowest free address, as
avr-libc's allocator does when nothing else is on the heap.  The handlers of the
main menu come back into `poll` of the freed object, which calls `usage` (C:609):
`MainPoll` leaves `pc` at "usage" with the old object in `caller`, and
`UsageOnLiveObject` says that something is alive there.  `c` is the character
`SERIAL.read()` returns, any of `Chars` or none (`IdlePoll`); that includes every
loss in the receive ring.  The eeprom menu appears with its states only; what it does
to the configuration is `EepromConfig`'s.  The editor's state "write_command" has no
case in its `poll`: `EditorAbort` is the assertion, `WatchdogReset` the restart.

In `GpioMenu` the registers have arbitrary contents whenever the menu is opened.
What a finished or abandoned command leaves in the parser is dropped at once (the
code leaves it, and overwrites it before it is read).  `Divergent` names the commands
for which code and help text differ; the property is checked for all others.

In `KeymapEditor` a sequence is its action and its other bytes, each byte the set of
its one bits; a field is a byte, a mask, a shift and a range.  `target` is the
sequence that `m_field_ptr` points into, which only `NextField` moves, and `selected`
remembers the keys chosen since the menu was opened.  Digits beyond the end of
`m_int_value` are not typed (`MaxDigits`).

## 3. What TLC checks

| Run | Bounds | Shows |
|---|---|---|
| `ring_fifo` | N = 3, two keys, two configuration words, pops in the interrupt anywhere outside `pop_key` | type, `RingCountsKeys`, `ImplementsFifo` |
| `ring_race` (violated) | the same, interrupt pops anywhere | `NoGhostKeys`: a press comes out twice |
| `ring_alias` (violated) | slot N written at any time | `ConfigIntact`: a press overwrites the configuration number |
| `pool_pulse` | the firmware's one job, 1 to 4 half-cycles and the endless one, holds of 2 and 3 ticks | `PoolHoldsActiveJobs`, `PinAtRest`, `HoldRespected`, `PulseEnds`, `TickReturns` |
| `pool_overlap` (violated) | the same | `ActiveJobsListed`: a restarted job drops off the list and blocks the pool |
| `pad_keys` | 2 by 2 keys with an arrow, a button, the mode key and a hold key, at most two pressed, hold time 3 to 4 ticks; smaller sizes set while the pad is at rest | `MouseFollowsKeys`, `HoldActionInTime`, `ScanFollowsHand` |
| `hid_reports` | buffer of 2, two keys, three mouse states | `PressesInOrder`, `KeyReleased`, `MouseArrives` |
| `eeprom_cuts` | seven header bytes, rows 1..2, steps below 4, power cut anywhere but in the first formatting | `RowsInArray`, `StepMovesMouse`, `BootRestores` |
| `console_menus` | registers of 2 bits, one port, two digits a number; two key sequences, actions with no field and with three; two digits in the editor | `UsageOnLiveObject`, `OneMenuObject`, `UnselectedKept`, `CommandsDoWhatHelpSays`, `InputIsRead`, `QuitLeavesMenus` |
| `tick_reads` | a counter of three bytes of one bit, two ticks a round, hold times 1 and 2 | `NeverBehind`, `DeadlineKept`, `HoldMeasured`, `JobGoesOn` |
| `serial_replies` | ring of 4, banks of 2, commands of 2 bytes and replies of 3, two commands ahead, timeout 2 and watchdog 5 frames | `DogNeedsAbsentHost`, `RingIsFifo`, `CommandsWhole`, `EveryCommandAnswered` |
| `hand_to_host` | 1 by 2 keys, an arrow and a key of two keypairs, buffer of 1, two modes | `NoPhantomPress`, `HostFollowsHand` |

Why the bounds are enough.  A ring of four slots has every relation of head and tail
(empty, full, wrapped or not, one slot short of either) with every program point, and
its size is a parameter of the proofs.  Two different keys show order; the same key
twice shows the release between.  Hold times of 2 and 3 ticks tell the two halves
apart, counts 1 to 4 both parities; the endless mark only has to lie above the finite
counts (7 for 0xff).  A hold window of 3 to 4
ticks lies above the shortest possible tap (a scan takes two ticks) and leaves room
on both sides.  Two columns and two rows are needed for the early exit of a column
and the row loop; two keys in all their positions for edges that coincide.  The mouse
step has one value in `pad_keys`; its doubling is the subject of `eeprom_cuts`.  One of
the key reports has the bytes of a mouse report on purpose.  Two values of `rows` have
a boundary on both sides.  Registers of two bits hold a bit that a mask keeps and one
that it clears, and a value of two digits in base 2 can name a bit beyond them; one of
the four port letters has a port and three have none.  The editor's fields are the
two halves of one byte with ranges beyond them and the field whose shift is as wide
as its byte, the shapes that go wrong; two sequences are the one selected and the one
that must be left alone.  Three bytes are the fewest with one in the middle, and
of one bit each every second tick carries; eight values make the wrap a case like any
other.  Two ticks a round are one that is tested and one that is missed.  A ring with
three places is filled to the last by two commands of which the menu has taken one byte;
a reply of three bytes leaves one behind in a bank of two; two waits that time out fit
into the watchdog's time and three do not, as with 100 and 250 ms.  In `hand_to_host` the
second keypair of a press finds the buffer of one full; an arrow key is the one whose
events outlive a mode.  It was also checked, without its liveness property, with a buffer
of two.  Everything saturates or wraps; no state constraint is used,
except that `owed` in `ring_race` grows downwards until the violation is found.

Fairness.  The main loop never blocks, except in `SerialLine`, where the waiting is
modelled, and the watchdog resets a loop that stops: its steps are weakly fair (`Poll`;
`EnterTick` and the jobs; the HID task; `MainLoop` in `Ticks`, `SerialLine` and `Navputter`; the
menus' computing steps, `Compute`).  The timer keeps ticking.  A host that has configured
the device keeps sending frames and polling; in `Navputter` frame and poll are one
condition, because each waits for the other.  In `SerialLine` frames pass, the watchdog
bites when its time is up, and a host that has the line open takes the bank and goes on
with a command it has begun; that it stays is the condition of `EveryCommandAnswered`.
Keys, resets, GET_REPORTs, the power and whoever types into the menus owe nothing; only
`QuitLeavesMenus` supposes, in its own statement, a host that from some time on types 'q'
and nothing else, and `HostFollowsHand` a hand, a mode and a configuration that come to
rest.

### What the violated runs say about the code

1. `ring_race`: `pop_key` runs in the main loop with interrupts on and in the interrupt.
   Cut at the right place, one press is handed out twice and the tail passes the head,
   so the ring looks almost full of old presses.
2. `ring_alias`: eight elements, nine slots.  Every ninth press lands on the USB
   configuration number, and a SET_CONFIGURATION lands on a queued press.
3. `pool_overlap`: KA_PULSE acts on the press and on the release (C:305), so even one
   tap starts the pulse twice.  After it ends the tail of the list points to a job that
   is not on it, and no pulse runs again until a reset.

Seen while modelling and not kept as runs:

* Reports.  With `Control = "any"` in `HidReport`, a GET_REPORT that falls between the
  building of a report and the host's poll can swap two presses or swallow a
  release.  GET_REPORT is answered with the next report, whichever it names.
  `get_mouse_status` (C:166) hides the right button behind the left one, an effect of
  `?:` and `|`.  The comments at V:58 and V:71 put the key code in the high byte of a
  keypair, the macro (`VirtualSerialMouse.h`:76) the modifier.
* Keypad.  A mode change under a held arrow key, by the mode key or from the serial
  line, leaves the mouse moving after both keys are let go: the release is handled in
  a key mode, which does not stop it (C:273).  `MouseFollowsKeys` holds for every
  direction but those (`carried`).  In the key modes an arrow key sends its key on the
  press and again on the release (`Sent` does not look at the edge there).  With two hold
  keys the time of one is measured from the other's press, because there is one
  `last_hold` (C:235).  With `KeysUp = FALSE`, `rows` or `cols` made smaller while a key beyond
  them is down, its release is not seen, and `ScanFollowsHand` fails.  KA_PULSE looks at
  no edge, and the bytes that `press` reads as hold action are the pulse's multipliers
  for such a key (C:238).
* Pulse.  Count and multiplier as documented (H:347, H:349) can exceed 0xff; the count
  then passes through the endless mark on its way down and the pulse never ends.  With
  counts 2 and 9 and the mark at 7 in `MCWorkPool`, `PulseEnds` fails.
* Ticks.  A torn reading is ahead of the counter, never behind: a deadline set by it is
  late and one tested by it early, by up to 256, 65536 or 2^24 ticks.  A deadline whose
  sum wraps passes at once; one that is still waited for when the counter wraps is
  waited for until the counter comes round again.
* EEPROM.  `write` stores the version first: a first formatting cut short leaves a valid
  version over bytes of 0xff, and the device runs with 255 rows (`CutErased = TRUE` in
  `EepromConfig_cuts.cfg` breaks `RowsInArray`).  `validate_keymap` (C:684) refuses an index
  above the number of maps and accepts the number itself, which is one too many; with
  no maps, index 0.  The layout comment at H:234 puts
  the key maps at 64, `EEPROM_KEYMAP_START` (C:36) at 32.  Saving a key map is compiled
  out (C:1150).
* Serial line.  Commands sent ahead are whole as long as the ring has room for
  (`Ahead` - 1) * `CmdLen` + 1 bytes, which `serial_replies` has exactly; one byte less, or
  one command more, and bytes are lost in the middle of a command (`CommandsWhole` fails).
  A host that has the line open and does not read costs 100 ms for every full bank, and
  three of them in one round are longer than the watchdog's 250 ms: the device restarts.
  `DogNeedsAbsentHost` says that nothing else does this.
* Main menu.  `usage` on the freed object is harmless only because the next object
  takes its address.
* GPIO menu.  's' assigns the bit where the help text says `PORT | (1<<pos)`, and '^'
  always flips bit 0, whatever value is typed: these are the commands in `Divergent`.
  'A' does not look at its parameters and the result of 'a' is not written back.
* Editor.  `m_field_ptr` is set by "next field" alone: after another key is chosen, 'j'
  and 'k' change the field of the key before, while the new one is shown (C:1360).
  `UnselectedKept` says how far that can go.  Its prompt offers 'w' to write, which
  ends in an assertion.  A number typed
  for loading never reaches LOAD_KEYMAP, because `read_command` follows it.  `m_int_ix` is
  not reset between entries, so the digits of one follow those of the one before.
  "Next action" reaches KA_LAST_ACTION, an action without fields (C:1342).  The greatest
  hold time runs into the bits of the least one, and the hold action's shift of 8
  always stores 0 (H:323-325).

## 4. What is proved

`KeyRing_proofs` holds for every ring size N below 255, every set of keys and of
configuration words:

* `TypeCorrect`: `Spec => []TypeOK`, wherever the interrupt cuts in.  The indices'
  ranges (`IndexOK`) and the buffer's contents (`WordOK`) are shown separately.
* `CountsCorrect`: if no interrupt pops inside the main loop's `pop_key`, then
  `[]RingCountsKeys`.  `RingCountsKeys` alone is not inductive: a pop that has passed
  its test must still find the ring nonempty when it stores the tail, and the register
  it stores must be the successor of the tail as it still is.  `PopFacts` adds that,
  and `IInv` is `IndexOK`, `RingCountsKeys` and `PopFacts` together.
* `RingImplementsFifo`: if moreover slot N is written by others only while it holds no
  press, then `Spec => ImplementsFifo`.  On top of `IInv` this needs that the word in
  hand is the word in the slot (`WordFacts`).  Each step is then mapped: storing the head
  appends (`PushAppends`), storing the tail takes the oldest (`PopTakesHead`), filling the
  free slot (`SlotIsFree`) and a harmless configuration word (`ConfigIsApart`) change
  nothing, and the rest stutters.

The two assumptions are not idle: `ring_race` drops the first, and a configuration
word over a queued press breaks the queue.  The assumptions on the constants are those
of `KeyRing` (`RingAssumption`).

`Console_proofs` holds for every register width, base, set of ports, set of sequences,
actions and fields, and every set of characters that may be typed:

* `UsageIsSafe` (`[]UsageOnLiveObject`) and `MenuIsOne` (`[]OneMenuObject`).  Neither is
  inductive: that the new object takes the place of the freed one follows only from
  the menu always being at address 1 (`LifeInv`), which `ReplaceKeepsAddress` carries
  through `clear_menu` and `new`.
* `KeysAreKept` (`[]UnselectedKept`).  `EditInv` adds the type of the editor, that the
  sequence being edited is a selected one, and that the target of the field pointer is
  one as soon as there is a field: a store goes through the pointer (`StoreStep`), a
  change of the action to the selected sequence (`ActionStep`).
* `HelpIsRight` (`CommandsDoWhatHelpSays`), if `Divergent` holds at least 's' and '^'.
  The parser's variables must say what was typed at every poll (`Parsed` in `GpioInv`),
  a command is taken in only while its menu is up (`CommandInMenu`), and the step that
  runs it then does what the text says (`CallFuncHelps`).
* `ConsoleTypeCorrect` (`[]TypeOK`), from the three invariants; `ValueInRange` is the
  arithmetic of two digits.

They rest on the assumptions of `Octet`, `GpioMenu` and `KeymapEditor` on their constants:
a field's mask is an octet, an action has a field and no more than a byte can count,
the firmware's sequences have actions below KA_LAST_ACTION.

`HidReport_proofs` holds for every buffer size, set of keys and set of mouse states:

* `TypeCorrect` (`[]TypeOK`).
* `PressesStayInOrder` (`[]PressesInOrder`), if GET_REPORT comes only between two reports;
  otherwise it is false (section 3).  `TaskInv` says where the reports are: one made in
  state SEND_KEY follows a zero report, one made in CLEAR_KEY is one, and the bank is
  filled only by the task that found it empty.  `HostInv` adds that a key the host sees
  down has its release in the bank or in the next report, which therefore differs from
  the previous one and is not dropped; without it LUFA's comparison could swallow it.
* `ReleaseIsPending`, under the same condition: the release of the key the host sees down
  is at every moment in the bank, or is the report being made or the next, and differs
  from the previous one.  It is the safety half of `KeyReleased`.

`Navputter_proofs` holds for every size of the pad and of the key buffer, key map and hold
time.  About `Keypad` alone, from the assumptions of `Keypad`:

* `TypeCorrect` (`[]TypeOK`), whatever hand, timer and serial line do within a scan.
* `MouseStopsWithKeys` (`[]MouseFollowsKeys`), if no key with a hold action is itself an
  arrow or a button (`HoldKeysAreStill`): in the built-in key map the one such key zooms
  (H:190).  An event changes what is down by its own key only (`DownFacts`), and the
  sum of the motions and the buttons change by just that key's.
* `HoldMeasuresItsKey` (`HoldActionInTime`), if at most one key has a hold action, as there;
  with two the code measures the one from the other's press.  `HoldNeverTooEarly` is what
  is left for any number of them: a hold action never runs before its key was down for
  the minimum time.  `HoldInv` relates `last_hold` to the true times.

About the whole way to the host (`NavSpec`):

* Every step of the whole is one of `Keypad` or leaves it alone (`NavIsPad`), so the
  keypad's theorems carry over: `MouseStopsInLoop`, and from it `MouseRestsInLoop`: with
  every key reported up and nothing carried over a mode change, the mouse that the
  reports are made from (`MouseNow`) is at rest.
* `NoPressWithoutHand` (`[]NoPhantomPress`), for every key map, hold actions and a buffer
  that is full at any time included.  `due` alone is not inductive, because a press comes
  long after its closing.  `WarrantInv` says for each position how many presses may still
  come of it, from three facts: whether its switch is closed, whether it was last read
  closed (`Read`), whether it is reported down.  At most one more key-down
  can come (`DownsToCome`), and one key-up for it and for the key that is down
  (`UpsToCome`); `due` is never below what these send (`Owed`).  What a closing
  warrants covers what is owed after it; reading a column never raises it, although it changes
  all rows at once; an event lowers it by what it sends (`DueAfterEvent`), because a key
  that does not send on its release has no hold action that does (`SilentUp`).
* `MotionIsAlwaysStep`: each direction holds nothing or the mouse step, so the set of
  directions `HidReport` is given loses nothing.
* `NavImplementsHid`: the whole implements the initial states and steps of `HidReport`.  What a
  key event sends is one of its `Bursts`, also when the queue cuts it short
  (`WrittenFacts`, `AcceptedFacts`), the mouse it leaves is one of its `Moves` (`MotionInv`,
  `MouseInMoves`), and its assumptions on keys and motions follow from the key map's
  (`HidParameters`).  So `NavPressesInOrder` (`[]Hid!PressesInOrder`) follows from the invariant
  of `HidReport_proofs`, under the same condition on GET_REPORT.

`Ticks_proofs` holds for every number of bytes, number of values of a byte, step and hold
time:

* `TypeCorrect`, `ReadingNeverBehind` (`[]NeverBehind`).  `ReadInv` says of a reading under
  way that at most one tick has cut into it and what the bytes read so far and those to
  come amount to; a tick that carries into them only adds.
* `DeadlinesAreKept` (`DeadlineKept`) and `HoldIsMeasured` (`HoldMeasured`), the latter modulo
  the counter, so that its wrap is covered.  `DeadlineInv` and `HoldInv` date each deadline
  and each press by the counter's value when the reading for it began.

`WorkPool_proofs` holds for every even range of the half-cycle counter and all hold times:

* `TypeCorrect`, `PinEndsAtRest` (`[]PinAtRest`) and `HoldKept` (`HoldRespected`), for any
  number of jobs in any order on the list.  `PinInv` ties the level of the pin to the
  parity of the half-cycles still to do, `TimeInv` the time at a level to the time still to wait.
* `PoolListsItsJob` (`[]PoolHoldsActiveJobs`), for a pool of one job, which is what the
  firmware has: `ListInv` is that the list is the job alone or empty, whatever links the
  job has kept.

`EepromConfig_proofs` holds for every layout of the header and every set of values:

* `TypeCorrect`, and `BootRestoresSaved` (`BootRestores`): while `write` is busy the bytes it
  has stored are `CONFIG`'s, and unless it was cut short EEPROM holds the last complete save
  (`SaveInv`), wherever power fails.
* `RowsStayInArray` (`[]RowsInArray`) and `StepAlwaysMoves` (`[]StepMovesMouse`), if power does
  not fail in the first formatting; otherwise both are false (section 3).  `Kept` is the
  invariant of one guarded byte: sound in `CONFIG` whenever the device runs, sound or erased
  in EEPROM, and erased only under an erased version.

`SerialLine_proofs` holds for every size of ring and banks, every length of commands,
replies and reports and all times:

* `TypeCorrect`.  `RingImplementsFifo` (`RingIsFifo`): `RingPush` and `RingPop` say what `push` and
  `pop` do to the queue, and every step but a restart is one of `KeyFifo`'s or a stutter.
* `ListeningHostKeepsDogQuiet` (`[]DogNeedsAbsentHost`), if a reply and a report fill at most
  W banks, W + 1 waits for a host that listens are shorter than the watchdog's time and
  one is shorter than the timeout.  `DogInv` keeps accounts: with w waits to come the
  earlier ones took no more than their time, and what may still be printed before the
  next kick fits into the banks they will free.
* `CommandsArriveWhole` (`CommandsWhole`), if all but one of the commands sent ahead leave a
  place in the ring free.  `OrderInv`: what the menu has read, the ring, the OUT bank and what
  the host has still to send, one after the other, are the commands sent and not run.
  `SpaceInv` bounds the ring, which needs `AnswerInv`, that the host never counts a reply as
  seen before its command has run, since otherwise it would send more ahead.

Each hypothesis above is met by the run that checks the property, and the remarks in
section 3 say what happens without it.  The theorems rest on the assumptions on the
constants stated in each module, which TLC evaluates in the runs.

Only model-checked: all liveness (`PulseEnds`, `TickReturns`, `ScanFollowsHand`, `KeyReleased`,
`MouseArrives`, `InputIsRead`, `QuitLeavesMenus`, `JobGoesOn`, `EveryCommandAnswered`,
`HostFollowsHand`), which the proof system does not reach.  Every invariant and action
property of the passing runs is proved.

## 5. What is not modelled

* The text of menus and reports, and in `SerialLine` what a command means (`Console` has
  that, with a line that may lose any character).
* The converter's registers and what the GPIO menu writes back; the contents of the pin
  map in the editor; what lies behind `m_int_value` when more digits are typed than it
  holds (the ninth overwrites `m_int_ix` itself, H:1362-1363).
* The contents of key maps in EEPROM, which nothing in the firmware writes; the fields
  the firmware never acts on; positions without a key.
* Electrical effects: bounce within the settle time, ghost keys of the matrix.
* Suspend; `m_call_next` of the timer, whose callback is NULL; `SERIAL.peek`, which
  nothing calls.
* `navnmea`, `minmea`, `navkeys`, `uTFT_ST7735`, `mcp2515`, `myutil` and `glcdfont`, which are
  not built, `scancodes.h` and the descriptors, which are tables, and the vendored
  `coreduino`, which is most of the repository's lines.

## 6. Plan

What follows, most important first.

1. `KeymapEditor`: the pin map, and the bytes behind `m_int_value` (C:1250).
2. `Keypad`: the pulse's bytes read as hold times and action (C:238).
