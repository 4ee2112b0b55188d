# A formal model of the submarine monitoring system

The repository holds a distributed monitoring system: the firmware of a Local
Node Computer (LNC) on an STM32 board under FreeRTOS, the Central Computer that
talks to it over a serial line, a ground station that talks to the Central over
TCP, and a fleet management program. This directory holds TLA+ modules of the
parts whose correctness depends on order, interleaving, failure or history,
model-checked with TLC on small instances and, for the results that matter
most, proved with TLAPS for every value of the constants.

Paths below are relative to `src/`; `lnc/...` means
`stm32/Submarine/Core/Src/lnc/...`, the firmware that is built for the board
(`lnc/src/core` at the top of the repository is a host-tested copy of its pure
files).

## 1. Inventory

### The LNC firmware

Six tasks, three interrupt sources, three mutexes, four queues
(`lnc/lnc_app.c`):

| Task (priority) | Period | State it owns | What it does |
|---|---|---|---|
| Comm (above normal) | 5 ms | RX ring tail, console line, frame buffer | executes console lines or binary frames, drains the TX queues |
| Event (above normal) | queue | none | takes one event at a time: LED, buzzer, events file, frame or console line |
| Object (normal) | 50 ms | `s_present`, IR latch, `sub` | clears the button flag and silences the buzzer; every fourth pass decides about the object |
| Default (normal) | 250 ms | - | the supervised watchdog |
| Monitor (below normal) | 5 s | `s_prev`, `s_have_prev`, boot | mounts the card, loads the configuration, then samples and detects mode changes |
| KeepAlive (below normal) | 6 s | - | one frame with the latest measurement, in protocol mode |

Shared: `g_cfg`, `g_latest` (StateMutex), the SD card (StoreMutex), USART2
(UartMutex), `EventQueue` (8), `TxQ[3]` (6 each), `g_alive` (volatile, no
lock), `s_button` (set by the EXTI interrupt), the RX ring (filled by the UART
interrupt), `s_protocol`, `s_logging`.

Interactions: Monitor, Object and Comm post into `EventQueue` (`ev_post` never
waits and drops when it is full); Event, KeepAlive and Comm put frames into the
TX queues; Comm alone drains them. Comm (commands) and Monitor (boot) write
`g_cfg` and CONFIG.BIN. Event and Object both drive the buzzer's PWM channel;
Event and Comm (`led`) both drive the LED.

| Component | State | Correct if | Hard because |
|---|---|---|---|
| Event path | events, LED, buzzer, mode, object | no change lost, reordered or overlaid; the buzzer has a cause | preemption, shared timer, bounded queue, tasks waiting for the SD card |
| Configuration | `g_cfg`, CONFIG.BIN | accepted limits survive; never a stale or unmeetable configuration | resets and card faults between any two steps; boot runs beside commands |
| Watchdog | `g_alive`, IWDG | no refresh for a hung task, no reset without a hang | unprotected read-modify-write, starvation |
| Frames and TX queues | `TxQ[3]` | answers are whole or their oldest part; urgent classes go first | Comm fills the queue it drains, others fill theirs meanwhile |
| Reception | ring, line, frame assembly | every command executed once and in order, resynchronises | interrupt against task, two parsers for one stream, length byte wraps |
| Day logs | files on the card | at most seven days, oldest evicted | failed unlink, clock set back |
| Limits, sensors, clock | none to speak of | classification by worst reading | hardware |

### The programs on the hosts

| Component | State | Correct if | Hard because |
|---|---|---|---|
| Central `Communication`, menu | receive buffer | reports found again after lost bytes | no checksum, no start mark, a board that boots into console mode |
| Central `Database` | measurements, events, CSV files | a week is kept; the files hold one session, whole | time stamps from another clock, saves that fail or are read meanwhile |
| `GroundServer`, `GroundClient` | TCP connections | answers whole, nobody waits for ever | one client at a time, either end leaves in the middle |
| Fleet (`fleet/src`) | submarines, missions, partner lists, inboxes | partner lists agree with each other and with the missions | long sequences of legal operations |

`PROJECT.json` lists every component with its sources and status, and every
hazard at its line.

## 2. The modules

| Module | Models | Role |
|---|---|---|
| `LncRtos` | the scheduling of FreeRTOS tasks: priorities, inheritance, mutexes, delays | instantiated by every LNC module |
| `LncPanel` | what LED and buzzer promise, as one atomic machine | abstract specification |
| `LncEvents` | the event path: Monitor, Object, Event, Comm, button | refines `LncPanel` |
| `LncEvents_proofs` | theorems about `LncEvents` | |
| `LncConfig` | configuration, CONFIG.BIN, boot, resets, faults | |
| `LncConfig_proofs` | theorems about `LncConfig` | |
| `LncWatchdog` | `g_alive`, the default task, the IWDG | |
| `LncWatchdog_proofs` | theorems about `LncWatchdog` | |
| `LncLog` | the day logs, their eviction, the clock that names them | |
| `LncLog_proofs` | theorems about `LncLog` | |
| `LncComm` | RX ring, the two parsers, commands, TX queues | extended by `SerialLink` |
| `CommandChannel` | what the line promises to whoever sends commands | abstract specification |
| `SerialLink` | the Central's menu and the board of `LncComm` on one line | refines `CommandChannel` |
| `SerialLink_proofs` | theorems about `LncComm` and `SerialLink`, the refinement among them | |
| `CentralLink` | the reports' bytes and the Central's reassembly | |
| `CentralLink_proofs` | theorems about `CentralLink` | |
| `CentralDatabase` | the Central's database and its CSV files | extended by `GroundStation` |
| `GroundStation` | server and ground stations over TCP, beside a session that saves | |
| `GroundStation_proofs` | theorems about `CentralDatabase` and `GroundStation` | |
| `Fleet` | the fleet management program | |
| `Fleet_proofs` | theorems about `Fleet` | |
| `CentralReports` | reports and banner with their real bytes | instance of `CentralLink` |
| `MC*` | instances for TLC | |

Some definitions have a neighbour with a plausible fault, named for it
(`PostUnbounded`, `StepWithoutUnlock`, ...). Nothing uses these; each is the
change under which a property fails, and shows that the property says something.

### LncRtos

A task's `pc` is the name of the section or call it is about to execute.
`MutexOf` gives the mutex of every label that lies between a `LOCK` and its
`UNLOCK`; such a section is two steps, `Lock` and the `Step` that does the work
and unlocks. `Runs(t)` is the scheduler: `t` is ready and no ready task has a
higher effective priority, where a holder of a mutex runs at the priority of
whoever is blocked on it (`xTaskPriorityInherit`; `LOCK`s are not nested in this
firmware, so one level is enough). Equal priorities interleave freely, as time
slicing allows. A step of a task is atomic only between points at which another
task or an interrupt could see a difference.

### LncEvents and LncPanel

| Code | Action |
|---|---|
| `lnc_app_init`, `lnc_app_start` | `Init` |
| `MonitorTaskFn` boot, `monitor_once`, status line | `MonitorMount`, `MonitorStartup`, `MonitorEvaluate`, `MonitorSame`, `MonitorChanged`, `MonitorPost`, `MonitorTell` |
| `ObjectTaskFn`: `button_pressed_clear`, `alarm_set(false)`, `objectdet_once` | `ObjectReadButton`, `ObjectClearButton`, `ObjectStopBuzzer`, `ObjectStopDone`, `ObjectQuiet`, `ObjectChanged`, `ObjectPost` |
| `EventTaskFn`, `handle_one_event` | `EventGet`, `EventLed`, `EventAlarm`, `EventForward`, sections `append` and `say` |
| `CommTaskFn`, `process_binary_rx`, `exec_command`, `config_persist`, `tx_drain` | `CommWake`, `CommIdle`, `CommFrame`, `CommHandle`, `CommPersist`, `CommNotify`, `CommDrain`, sections `snap`, `query`, `send` |
| `console_exec` | `CommLine`, `CommLed`, `CommProto`, sections `apply`, `read`, `print`, `enter` |
| EXTI interrupt | `ButtonIsr` |

`button_pressed_clear` is two steps, because the interrupt may come between the
read and the clear. `HAL_TIM_PWM_Stop` is two steps (disable the channel, mark
it ready), because `HAL_TIM_PWM_Start` refuses a channel that is still marked
busy. Measurements are abstracted to their mode, commands to their effect on
this state; frames and TX queues only cost time here. KeepAlive and Default are
left out: they touch none of this state; KeepAlive only takes StateMutex for a
copy, at the lowest priority. `led_set` is one step, although Comm and Event
could mix the colours of its three pins.

`LncPanel` is the specification: mode, object, LED and buzzer in one state;
each reported change sets LED and buzzer at once, the button silences, the
`led` command drives the pins. The refinement mapping shows the mode and object
*as of the last posted signal* and LED and buzzer *as they will be when the
signal in flight has arrived*.

### LncConfig

`g_cfg`, the file on the card (absent, empty, or the bytes of a
configuration), the two serialisation buffers. The Monitor task boots
(`BootMount`, `BootLoad`, `BootDeserialize`, `BootCheck`, `BootDefaults`,
`BootSnap`, `BootSave`), the Comm task executes a command that sets a limit
(`Command`, `Apply`, `CommSnap`, `CommSave`, `Confirm`), `Reset` may happen at
any moment. `Faults` names what else may happen: a command before the boot is
done, a reset while the file is rewritten, no card, failed reads, opens and
writes. `trouble` remembers what of this has happened, and that a limit was set
which the boot rejects, until a command reaches the card again and the boot
will take what it wrote (`AllWell`); `allowed` says which configurations the
operator may find after a reset. The code has neither.

### LncWatchdog

`g_alive |= bit` as load and store, the test and clear of
`lnc_app_watchdog_step` as one step (it is a critical section), the refresh as
another. Time is counted in periods of 250 ms: a period ends when every task
that can run has run, or when the tasks above Object and Default have kept the
CPU throughout. These are Comm (a range query that reads the card), Event (a
burst of events that go to the card) and Monitor while one of them waits for a
mutex it holds and lends it its priority; whatever they divide among themselves,
Object and Default see one *stretch* of up to `BUSY_N` periods (`left`), which
Comm or Event begins and which goes on while one of the two works. The IWDG
(prescaler 32, reload 4095, 32 kHz) grants 16 periods.

`HadTurn` is what the model assumes of stretches: one begins only after Object
and Default have had their turn since the last one, and not within the two
instructions of Object's `|=`, where a short pass may come (`RACES_N`). Two
stretches without a gap are one, and are counted in `BUSY_N`.

### LncLog

One measurement is logged in three steps of the Monitor task: `Name`
(`rtc_datestr8`), `Evict` (`store_log_write` up to `f_unlink`) and `Append`. The
clock moves at `Midnight`, by `SetClock` (the Comm task, between any two of
these steps) and back to 2000-01-01 at every `Reset`. A file is its day; days
compare like file names. Which entries a listing of more than Keep + 1 files
returns is left open, since the order of a FatFs directory depends on its past.
`f_open` makes the file before its line is written (`Made`): a reset in between,
or a write that fails, leaves it empty, and it is a file like any other for the
eviction. `used` (the days whose file was made) and `trouble` are history. The
lines of a file, EVENTS.TXT (which is never evicted) and the range queries,
which read only, are left out.

### LncComm, SerialLink and CommandChannel

| Code | Action |
|---|---|
| `HAL_UART_RxCpltCallback` | `RxIsr` |
| `CommTaskFn`: the choice of the parser, the end of the ring, `osDelay` | `CommWake`, `CommDrained`, `CommDone` |
| `process_console_rx`, `console_exec` of `proto` | `ConsoleByte`, `EnterProtocol` |
| `process_binary_rx`, `command_handle`, `exec_command`, `run_query` | `BinaryByte` with `Execute` |
| `tx_drain`, `commq_next` | `Choose`, `Send` |
| `handle_one_event`, `keepalive_once` in protocol mode | `ForwardEvent`, `KeepAlive` |
| `cmd_connect`, the menu's Listen and its other choices | `SendProto`, `SendSync`, `SendCommand` |
| an overrun, the button or the watchdog | `Lose`, `ResetBoard` |

The line carries the bytes the programs really exchange, because what goes
wrong is a byte that means something else to another parser. `CommandChannel`
is what remains when the bytes are gone: commands sent, owed, executed. The
refinement mapping reads the commands owed from the bytes on the line, in the
ring and in the frame buffer (`Frames`). The two sides may be out of step; then
nothing is promised. `Hurt` names all that brings this about, and `Clean` what
ends it. `trouble`, `unsynced`, `executed`, `due`, `answered` and `overtaken`
are history. The ring has at least two places (`CommAssumption`; the code has
128), as one of them always stays free.

Steps that commute are put into one order (`Board`): the other tasks queue
frames while the queues are drained, the interrupt delivers before and while
the parsers run, and a pass begins when there is something to read or nothing
left to arrive.

### CentralLink

`Encode` builds the frames as `records.c` and `keepalive.c` do; `Poll` is a
read of some bytes followed by the extraction loop (`Extract`), which slides
by one byte where nothing fits. `Lose` takes a byte off the line, `Cut` ends a
frame at any byte and appends the banner of the console, as a reset does.
`Reports` may be any set of reports the fields of the board's structs can hold
(`Reportable`): sensor values and times of any size, any mode and any source of
an event, and zero where `record_event` sends nothing. Time stamps and counts
are not bounded by what TLC can represent, since the proofs do not enumerate
them.

The console's text is assumed to hold no byte that is a tag of a report, and to
be longer than any value the Central accepts (`TextAssumption`, which the banner
meets). Hence whatever a cut frame made the Central wait for ends in the text,
and it is in step behind it.

No bound is stated for what a *lost byte* costs, since there is none that holds
of every reading. A snapshot with a temperature of 2, a light of 3, mode 0 and a
time whose low byte is 200 that loses its tag byte is read as three reports
without children, `2 0`, `3 0` and `1 0`, all of 1970. A value that reads as tag
and length of a time frame swallows up to 48 bytes of the reports behind, and
in the next one this may happen again. What holds is `StepKept`: from the moment
what is on the line leaves nothing over, and from any reset on, all is well
until the next fault.

### CentralDatabase and GroundStation

| Code | Action |
|---|---|
| `addMeasurement`, `addEvent`, `prune` | `Add` |
| `saveCsv` | `SaveOpenMeas`, `SaveFails`, `SaveOpenEvents`, `SaveWrite`, `SaveCloseEvents`, `SaveCloseMeas` |
| the interactive program ends and is started again | `NewSession` |
| `runGroundServer`, `loadCsv` | `ServerStart`, `ServerLoad`, `ServerListen` |
| `serveForever`, `handleClient` | `Accept`, `Handle`, `Write`, `HangUp`, `WriteToLeft` |
| Ctrl-C | `ServerStop` |
| `GroundClient::connectTo`, `getLog`, `getEvents`, the end of the program | `Connect`, `Ask`, `ReadFrame`, `ReadEnd`, `Leave` |

`Only` is what `prune` and `inRange` have in common: the records whose times lie
in a set, in the order they came. A record is its time stamp. The session and
the server are two processes that share nothing but the two files: the server
may load them at any point of a save. A session begins with an empty database,
so its first save replaces what earlier ones have saved. TCP keeps frames whole
and in order; when one end goes away, what the other has not read may or may not
arrive. A write to a client that has left goes through, fails, or raises
SIGPIPE, which nobody catches and which ends the server (`WriteToLeft`).
`Session` waits while the server is up or clients are connected, since its steps
commute with theirs.

`saveCsv` looks at neither its writes nor its closes. A write that fails (a full
disk) leaves some of the lines or none (`Close`), and the save goes on. `saved`
is the last save that left both files whole, `intact` that none has begun since.

### Fleet

One action per menu operation that changes state. Serials are model values,
inboxes are sequences of senders, mission details are left out.

## 3. What is checked

| Run | Instance | Properties |
|---|---|---|
| `events` | EventQueue of 2, every poll decides, modes NORMAL and ERROR, all frames and console lines, `led` among them | `TypeOK`, `SignalNeverDropped`, `NoDeadlock`, `BuzzerChannelAgrees`, `BuzzerHasCause`, `ImplementsPanel` |
| `events_live` | EventQueue of 1, console lines that read the card under StoreMutex (`READ`), fairness | `SignalHandled`, `PressSilences` |
| `config` | two limits (one of them the boot compares with 4095), an ordinary and an unmeetable value, all faults | `TypeOK`, `SettingSurvives`, `CardNeverStale` |
| `watchdog` | 16 periods, stretches of up to 7, one lost check-in, Object may block or spin, Comm may spin, fairness | `TypeOK`, `ObjectVouched`, `NoFalseReset`, `HangResets` |
| `log` | three files to keep, six days, all faults | `TypeOK`, `AtMostKeep`, `WeekKept`, `ResetCostsADay`, `NeverEvictsOwnFile` |
| `fleet` | four combat and one research submarine, one message per inbox | `TypeOK`, `PartnersSymmetric`, `PartnersOnMission`, `AnswerPossible`, `MeshPreserved` |
| `link` | two choices of the Central's menu, one fault, ring of 13 bytes, TX queues of 2, a range of 3 records, fairness of the board | `TypeOK`, `AnswersAreOldest`, `InversionBounded`, `ImplementsChannel`, `Served` |
| `central` | five reports of every kind, of which one has readings that are tags; two sent, one lost byte, one cut; reads of 1 and 9 bytes | `TypeOK`, `InOrder`, `CutCostsNothing`, `StepKept` |
| `ground` | two ground stations, time stamps in and out of a week, fairness | `TypeOK`, `DbIsWindow`, `ServedIsSaved`, `AnswerWhole`, `Answered` |

What the passing runs show:

* **No signal is lost to a full queue** (`SignalNeverDropped`). `ev_post` drops
  silently, but only the Comm task can find the queue full: when Object or
  Monitor, of lower priority, run outside a section, the Event task is waiting
  on an empty queue. This rests on the priorities alone; with Event below the
  posters it fails.
* **LED and buzzer follow the changes in order** (`ImplementsPanel`): at most
  one signal is in flight, so queue, tasks and interrupt amount to the atomic
  panel. For the same reason the button's stop never overlaps a start
  (`BuzzerChannelAgrees`), although the code has no lock for the timer; with all
  tasks at one priority it would.
* **The buzzer has a cause** (`BuzzerHasCause`): it sounds only if the last
  mode reported is ERROR or an object is there. The converse does not hold.
* **Settings survive** (`SettingSurvives`), wherever a reset falls outside the
  writing of the file: from the start, and again from any command that reached
  the card, until a fault happens or a limit is set that the boot rejects.
  `CardNeverStale` says what is left after torn writes, failed reads and writes
  and rejected limits: the card holds what is in force or nothing readable. It
  does not speak of a change that missed the card, because the file did not
  open, there was no card or the boot was not done: then the card may be stale
  until the next command that is saved. Two of the violated runs below show what
  the code does where neither property speaks.
* **A signal is handled** (`SignalHandled`) and a press silences the buzzer
  (`PressSilences`) although Comm holds StoreMutex again and again, and Event,
  which writes its line to the card, has to wait for it.
* **The watchdog** resets after a hang, not without one, and never refreshes
  without a check-in of the Object task. `NoFalseReset` needs two stretches and
  one period to fit into 4.096 s: with stretches of 8 periods (2 s) it fails,
  and nothing in the code keeps them shorter, whether they come of a range query
  over a slow card or of a queue full of events that go to it. `HangResets`
  leaves out a Comm task that *blocks*: the Object task's store can bring its
  bit back, as often as the check falls between load and store.
* **Day logs**: without faults the last week is on the card (`WeekKept`);
  whatever happens to the clock, the number of files stays bounded
  (`AtMostKeep`, with failed appends and the empty files of resets; listings and
  unlinks that fail are left out) and the file in use stays
  (`NeverEvictsOwnFile`). Resets, clocks set back and failed unlinks together
  take at most one day of the last seven, however many there are
  (`ResetCostsADay`): the bogus file of 2000-01-01 is the first to go once the
  clock is right. That the oldest day goes although no new day has begun is
  against docs/architecture.html:617. Of the days on which the clock is not set
  after a reset, a full card keeps only the last, as each evicts the one before.
  A failed unlink is never made up for: from then on there is one file more.
* **The button** silences the buzzer, except for a press that falls between the
  read and the clear of `s_button`: that one is lost, although
  `lnc/lnc_app.c:370` says "button stops the alarm".
* **Commands** are executed once and in order (`ImplementsChannel`) while the
  Central and the board are in step. They get out of step by a lost byte, a
  reset, a `proto` that meets a board in protocol mode or a console line already
  begun, and a command that meets the console; they are in step again when
  nothing is on the way nor half assembled, and then the board keeps up
  (`Served`). Out of step, a frame may be executed that nobody sent. A length of
  254 or 255 makes the byte-wide `need` wrap, and the receiver is stuck until
  the next reset; no command has such a length, so it takes trouble to get
  there.
* **Answers**: of a range the Central gets the oldest records, as many as the
  data queue holds (`AnswersAreOldest`), six on the board, whatever its day
  files contain; a `GET_TIME` read in the same pass is then not answered at
  all. A keep-alive or an event waits for one frame of a lower class at most
  (`InversionBounded`).
* **Reports** arrive whole, once and in order however the reads divide them
  (`InOrder`). A reset in the middle of a frame costs no other report, whatever
  the readings (`CutCostsNothing`); of the cut frame itself the Central makes,
  in one place, at most half as many false reports as the frame has bytes, since
  there is no checksum: the banner may complete the frame with a wrong last
  value, and the readings behind a cut may read as reports without children.
  After that, and after any lost byte once what was received has been read to
  its end, it stays in step until the next fault (`StepKept`). What a lost byte
  costs until then has no bound that holds of all readings (see CentralLink
  above).
* **The database** is the last week of what the session heard, in order, by the
  latest time stamp heard (`DbIsWindow`): a record from the future takes all
  others with it.
* **The ground link**: a server that loaded a complete save, with no other save
  beside or behind it, has exactly that save (`ServedIsSaved`). Saves that are
  torn, that overlap the loading or whose writes fail are in the model, and the
  server may serve what they left: nothing is promised of it, and nothing in the
  code tells it from a whole save. An answer taken for complete is complete,
  whoever leaves when (`AnswerWhole`); and whoever asks gets an answer or learns
  that the server is gone (`Answered`), unless another client stays at its menu
  for ever: the server handles one connection at a time. A client that leaves in
  the middle of an answer may take the server with it, by SIGPIPE.
* **Fleet**: the two-sided lists are what makes `EndMission` clean, and a mesh
  is broken by one operation only, associating a second submarine that has a
  group of its own.

Violated runs, one property each, taken from the repository's words:

| Run | Property | What the code does |
|---|---|---|
| `config_huge` | `AcceptedPersists` | a bound above 4095 is accepted and saved, and makes the next boot restore every default (README.md:109-110) |
| `config_early` | `AcceptedPersists` | the Comm task executes commands while the Monitor task still boots: a `tn` that is confirmed as saved is overwritten, in RAM and on the card, when the boot finds no file and loads the defaults (`lnc/lnc_app.c:452`; README.md:90-91) |
| `link_sync` | `ClockSynced` | Listen sends `proto` to a board that is in protocol mode already; its first bytes are given up as a frame too long, its last ones swallow SET_RTC as their value, and the clock is not set ("re-sync clock", `central/src/main.cpp:122`) |

### Bounds and why they are enough

A queue of two fills with the config-changed events of one pass of Comm, which
is all that can fill it; the code's eight only make the burst longer. `led` is
the only command that touches the panel; the others keep the Comm task and the
mutexes busy. For the liveness properties one input that makes Event wait for
the card is enough, as the others end sooner. One poll per object
decision keeps every interleaving of polls with the rest; the other polls only
touch the button. Two modes give every kind of transition for the alarm;
WARNING differs from NORMAL in the colour. Two limits are enough for a
configuration that mixes fields of two others. Three files instead of seven,
on six days, fill the card, evict, and leave room for a clock that goes back
and for more files than the listing takes; the theorems are for any number.
Seven periods are the longest stretch for which the watchdog is right. Four
combat submarines allow two groups of two.

A ring of 13 bytes holds every text or command of the instance and overflows
with a text and a long command; a console line of 8 holds `proto` glued to a few
stray letters and overflows with more. TX queues of 2 overflow with a range of 3
and with a range and a `GET_TIME`. Two choices after connecting give a command
followed by a Listen, a Listen by a command, and two commands at once; one fault
at a time is what the properties speak of. One frame of another task per pass is
enough to be overtaken. For the Central, a read of one byte reaches every state
of the buffer, one of nine passes the end of a short report; the time stamps
contain bytes of printable characters, and one report (`ColdDark`) has readings
that are tags and a time whose bytes are no length, so that cuts and lost bytes
make false reports of it; a new frame starts when at most one byte (`UP_N`) is
on the line, so that reads and losses straddle reports. Two reports, one cut and
one lost byte, in any order, are what the properties speak of; the theorems are
for any number of each, and for any readings. A week of 3 with time stamps 2, 5
and 6 has a record at the boundary and one outside. `Budgets` divides the
bounds: four records alone; two records, two saves and two server starts; two
records with one save, one server start and two requests. A socket of one frame
makes the server block in the middle of every answer.

### Fairness

`LncEvents`: a task that is ready again and again gets to run (passes take far
less than their periods), delays end, and the received bytes and the TX queues
run out at times, so that a pass of Comm ends. `LncWatchdog`: time passes,
delays end, the Event task empties its queue, ready tasks run unless a more
urgent one spins. `SerialLink`: the board goes on. `GroundStation`: the server
goes on with a connection that gives it something to do, and a client reads what
has arrived; nobody is assumed to ask, to connect or to save. No fairness is
assumed of the button, of commands or of samples.

## 4. What is proved

For all constants that satisfy the named assumptions. Every safety property and
both refinements of the passing runs are proved; `NoFalseReset`, which speaks of
particular times, from a hypothesis about them that the run meets. Each proof
module states first the invariant that is inductive, then one lemma per action,
or one step per action of a single proof, then the theorems.

`LncEvents_proofs` (`EVQ_N`, `DetectEvery` positive; any modes and inputs):

* `TypeInvariant`: `Spec => []TypeOK`. `TypeOK` is inductive; its kernel part,
  `KernelOK`, says that a task owns a mutex only inside a section of it.
* `NeverDropped`: `Spec => []SignalNeverDropped`. It follows from `TypeOK`
  without further induction: a poster at `post` is outside every section, so it
  runs at its own priority; were the queue non-empty, Event would be awake and
  either ready, or blocked by a holder that inherits its priority and is ready.
* `DeadlockFree`: `Spec => []NoDeadlock`, from the same `KernelOK`: the owner of
  a mutex stands inside a section of that mutex and therefore is not blocked,
  nor asleep.
* `FlightInvariant`: `TypeOK` does not say that a detection cannot overtake a
  transition. `FlightInv` does: a signal in the queue is first and Event has
  nothing in hand, nothing is in flight while the button stops the buzzer, the
  channel's state and the buzzer agree, and what Monitor is about to post is a
  change. It is inductive because whoever posts a signal runs, and so finds
  every more urgent task asleep (`QuietPoster`, `ObjectSleeps`).
* `BuzzerChannelSafe` and `BuzzerCaused` follow from it, and `PanelImplemented`:
  `Spec => ImplementsPanel`. Every step is mapped to the one of `LncPanel` that
  sets or silences, or to a stutter; the signal in flight is the one the panel
  has already shown.

`LncConfig_proofs` (any limits, values and faults):

* `TypeInvariant`, and `CardInForce`: `Spec => []CardNeverStale`. `CardInv` says
  for every label of the two tasks what buffer, file and `g_cfg` have to do
  with each other, up to the first failed write.
* `SettingsKept`: `Spec => []SettingSurvives`. `KeepInv` says, while there is no
  trouble since all was well, that the file holds an allowed configuration,
  which the boot accepts; that defaults are loaded only when there never was a
  file; and that outside a command only the configuration in force is allowed.
* `NeverMixed`: while there is no such trouble, at most two configurations may
  be found after a reset, they differ in the one limit being set, and after the
  boot one of them is in force. `ConfirmedIsSaved`: when the operator reads
  "(saved)", CONFIG.BIN holds the configuration in force and the boot will take
  it; after trouble, unless a change missed the card, it holds it or nothing
  readable. Both follow from the two invariants.

`LncWatchdog_proofs` (any periods `IWDG_N`, stretches `BUSY_N`, lost check-ins
`RACES_N`, tasks that block or spin):

* `TypeInvariant`, and `RefreshVouched`: `Spec => []ObjectVouched`, from
  `AliveInv`: Comm cannot be interrupted between load and store by a task that
  writes `g_alive`, so the bit of Object it writes back is not an old one.
* `ResetOnlyOnHang`: `LongWait + LongStretch < IWDG_N` implies `Spec =>
  []NoFalseReset`. `LongStretch` is the longest stretch, `LongWait` the larger
  of it and the number of check-ins that may be lost. `TimeInv` accounts for the
  periods since the last refresh: a missing bit of Object means they are those
  of one stretch, a missing bit of Comm that a check-in was lost in every one of
  them. The hypothesis is met by the run, with 16, 7 and 1; with stretches of 8
  periods it is not, and TLC finds the reset.
* `HangIsFinal` and `SpinIsFinal`, the part of `HangResets` that is safety:
  while the Object task hangs, a bound on the periods left (`Grace`: what the
  IWDG has left, a refresh already decided, and one that its old bit still
  allows; at most three times `IWDG_N`) never grows and shrinks with every
  period; while Comm spins, the count of the IWDG itself does. That periods go
  by is fairness and stays with TLC.

`LncLog_proofs` (`Keep` positive, any number of days, any faults):

* `TypeInvariant`, and `RoomForAll`: `Spec => []AtMostKeep`. Inductive with the
  fact that there is room for a file about to be opened (`RoomInv`).
* `WeekStays`: `Spec => []WeekKept`. The strengthening, `WeekInv`, says that
  names are opened in their order and that a day no longer on the card has
  `Keep` later ones, or one less while the Monitor task is about to log a day
  that is new. That it is new follows from the same invariant: a day that was
  logged and is not on the card has later days, but nothing is later than the
  day being logged.
* `ResetsCostADay`: `Spec => []ResetCostsADay`. `ClockInv`: whatever the clock
  does, an evicted day has `Keep - 1` later ones, since what is evicted has the
  smallest name of `Keep` files at least.
* `OwnFileStays`: `Spec => NeverEvictsOwnFile`.

`Fleet_proofs` (any sets of submarines):

* `PartnersConsistent`: `Spec => [](TypeOK /\ PartnersSymmetric /\
  PartnersOnMission)`. The three are inductive together: that `EndMission`
  leaves nothing behind needs the lists to be two-sided. `TypeInvariant` and
  `PartnersServe` are parts of it.
* `MessagesAnswerable`: `Spec => AnswerPossible`, from symmetry.
* `MeshesStay`: `Spec => MeshPreserved`.

`SerialLink_proofs` (any ring of at least two places, line buffer, frame length
of 2 to 253, size of the queues, numbers of records found):

* `TypeInvariant`: ring, line, frame buffer and queues keep their bounds, in
  step or not.
* `OneOvertakes`: `Spec => []InversionBounded`. `WaitInv`: a class that was
  overtaken waits still, and while a frame is being sent nobody above it has
  been overtaken, since `tx_drain` found the queues above empty when it chose.
* `OldestAnswered`: `Spec => []AnswersAreOldest`. `AnswerInv`: what was sent and
  what is queued are together the first replies of the pass.
* `ChannelInvariant` and `ChannelImplemented`: `Spec => ImplementsChannel`.
  `ChannelInv` says that in step the bytes in the frame buffer, in the ring and
  on the line, put together, are whole commands (`Streams`, the smallest set
  that contains the empty sequence and is closed under putting a command in
  front). Hence the next byte taken continues the first of them, the frame is
  complete exactly when that command is (`NextByte`), and what is executed is
  the head of what is owed. `StreamMore` says that a command put at the end
  leaves a stream and is owed last. Out of step nothing is owed, and whatever
  the parsers do is a stutter or an execution the channel allows; `LabelInv` and
  `LeavingInv` say what the change of the parser finds. Every action is shown
  to be one of the steps of the channel or a stutter.
* `NothingHalfTaken`: in step and with ring and line empty, the frame buffer is
  empty and nothing is owed, since an incomplete command in the buffer is no
  stream. It is what `Served` needs beside fairness: the parser never waits for
  bytes nobody will send. `CommandsConserved`: each step in step adds as much to
  what was sent as to what was executed and what is owed.

`CentralLink_proofs` (any `Reports` among what the board's structs can hold, any
text of the console, any sizes of the reads that include 1, lengths of 21 to
253):

* `TypeInvariant`: the buffer is always the start of at most one frame.
  `LineInvariant` is the invariant behind it.
* `ReadsCostNothing`: a read changes neither what the handler will have got when
  all is read, nor what will be left over, whatever was lost. It rests on
  `TwoReads`: extracting from `b \o c` is extracting from `b`, and then from
  what was left of `b` with `c` behind it.
* `WholeAndInOrder`: `Spec => []InOrder`. `FrameRead` is the other half: for
  every report, parsing its frame gives the report back, and no more. Byte
  orders, the lengths of the children and their check (`Filled`, `Children`)
  are in it.
* `ResetsLoseNothing`: without lost bytes everything sent whole is handed over,
  in order, however often the board is reset, and the Central is in step. The
  text completes or breaks whatever began, since it is longer than any value and
  starts nothing itself (`TextSettles`).
* `CutsCostNothing`: `Spec => []CutCostsNothing`. `CutInv`: what was handed over
  is some reports, what the cut one made of itself, and the rest of the reports.
  The Central was in step before the cut frame (`OrderInv`) and is after its
  text (`ResetInv`), so what the frame makes stays in one place; `CutMakesFew`
  bounds it, since every report taken out begins in the frame and uses two of
  its bytes at least (`FewReports`).
* `StepStays`: `Spec => StepKept`, after any losses and resets before. By
  `TwoReads` and `FrameRead` a frame behind a stream that is read to its end
  adds its report, and by `TextSettles` a reset ends whatever was left.

`GroundStation_proofs` (any clients, requests, time stamps, length of the week,
sizes of the sockets):

* `TypeInvariant`, and `GroundInvariant`, the invariant of all that follows.
* `WeekInOrder`: `Spec => []DbIsWindow`. `WindowSlides`: pruning a window and
  then a later one is pruning once, as the latest time heard never decreases.
* `SavedIsServed`: `Spec => []ServedIsSaved`. `SaveInv` says that the files hold
  the last whole save unless one has begun since, and that pruning a saved
  database changes nothing; `LoadInv` that what the server has read so far is
  one complete save, unless a save came in between.
* `CompleteAnswers`: `Spec => AnswerWhole`. `ClientInv`: what a client has read,
  what is on its way and what the server has still to write make up the answer
  from the server's database, in this order; `ConnInv`: a connection is in one
  place.
* `SavesAreWeeks`: whatever becomes the saved database is the last week of what
  the session heard, and both files hold it. `AnswersAreSaved`: a complete
  answer is the range asked for of the save the server loaded. The two connect
  the ends: session, files, server and ground station.

**Recursive definitions.** `Extract`, `Filled`, `Children` and `Frames` (on
sequences) and `Only` (on positions) are recursive functions. The library's
induction theorems take an operator as a parameter, which no installed prover
can instantiate; the proofs use sets and functions instead: `SetInduction` takes
the set of numbers that have the property, `MeasureRecursion` the right side of
a recursive definition as a function of the function being defined, and each
`...Equation` lemma unfolds one of the definitions once. The general lemmas
stand in each module that needs them.

**Only model-checked.** Liveness (`SignalHandled`, `PressSilences`,
`HangResets`, `Served`, `Answered`), which is beyond the prover; of `HangResets`
and `Served` the safety part is proved. The violated runs are single
counterexamples and have no theorem.

## 5. What is not modelled

* Vendor code (HAL, CMSIS, FatFs, FreeRTOS, the generated initialisation) except
  for the behaviour the models rest on and name.
* An Event task that hangs. It has no bit of its own in `g_alive`: one that
  spins keeps the CPU from Object as a spinning Comm task does, one that blocks
  goes unnoticed.
* The limits (`lnc_limits.c`): a pure comparison; `LncEvents` takes its result
  as an input. Sensors and the clock's registers: hardware. That date and time
  are read while the second changes is therefore not covered.
* EVENTS.TXT and the lines of the logs: `LncComm` takes how many records a range
  query finds as an input.
* Of the Central, the averages of its report and its text log; the sign of a
  temperature. Of the ground link, the bytes of its frames, since both sides
  are built from one file and TCP loses nothing, and the limit of the kernel's
  listen queue (4), which two clients do not reach.
* The three pins of the LED one by one.
* The Python tools, and `lnc/src/core` at the top of the repository, a copy of
  the firmware's files.
* Mission details, names and texts of the fleet program. That a group joined to
  another is no mesh (against docs/2026-09-04-fleet-management-cpp.md:1424)
  shows in the premise of `MeshPreserved`.

## 6. Plan

All modules of the plan are written and all safety properties are proved. What
could follow:

1. What a lost byte costs, for sets of readings described by the bytes that must
   not occur in them.
2. The lines of the day logs and the range queries over the files, which
   `LncComm` takes as an input.
3. The pins of the LED one by one, and the two reads of the clock.
