# A TLA+ model of the well_lid firmware

The repository is the firmware of a manhole-cover sensor ("well lid") on a
Nationstech N32L40x, a Cortex-M4 part: the board's own code under
`src/projects/well_lid/src`, a logger (EasyLogger) that it carries, and vendor and
third-party code, the RT-Thread kernel among it.  This directory holds TLA+ modules that model the parts with state and
interleavings, TLC configurations that check them, and TLAPS proofs.

Line numbers below and in `PROJECT.json` refer to the files under `src/`.
`ER` stands for `projects/well_lid/src/com/easylogger`, `RT` for
`middlewares/rt-thread/src`.

## 1. Inventory

| Component | Source | State | Operations | Modelled by |
|---|---|---|---|---|
| Tick and blocking delay | `dri/dri_Systick.c`, `n32l40x_it.c` | `uwTick` (32 bits) | `SysTick_Handler`, `get_tick`, `dri_systick_delay_ms` | `SysTick` |
| Clock configuration | `dri/dri_ClockConfig.c`, `CMSIS/device/system_n32l40x.c` | the RCC and FLASH registers, `SystemCoreClock` | `SystemInit`, `SetSysClockToMSI/HSI/HSE/PLL`, `dri_ClockConfig_Init` | `ClockConfig`, `ClockBoot` |
| Output lock | `ER/src/elog.c` 378-400, 765-777 | `output_lock_enabled` and two "locked before" flags; the port's lock | `elog_output_lock`, `_unlock`, `_lock_enabled` | `ElogLock`, `ElogLockSwitch` |
| Output path | `elog.c` 191-300, 516-733, 876-946; `elog_buf.c` | the line buffer, the output buffer with `buf_write_size`, `is_enabled`, `output_enabled` | `elog_output`, `elog_raw_output`, `elog_hexdump`, `elog_flush`, `elog_start`, `elog_stop` | `ElogPipe`, `Elog` |
| Filters | `elog.c` 304-376, 402-509 | global level, tag and keyword; a table of levels per tag | `elog_set_filter*`, `elog_init`, `elog_deinit`, the tests in `elog_output` | `TagLevels`, `ElogTagTable`, `ElogFilter` |
| File plugin | `ER/plugins/file/elog_file.c` | `init_ok`, `fp`, `local_cfg`; the files themselves | `elog_file_init`, `_config`, `_deinit`, `_write`, `_rotate` | `ElogFile` |
| Line formatting | `elog.c` 524-541, 599-731, 786-946; `elog_utils.c` | the line buffer, `text_color_enabled`, `enabled_fmt_set` | `elog_strcpy`, `elog_set_fmt`, the pieces of a line and of a row, `elog_find_lvl`, `elog_find_tag` | `ElogLine` |
| Asynchronous output | `ER/src/elog_async.c` | none: the whole file is commented out | | no |
| Port | `ER/port/elog_port.c`, `elog_file_port.c` | none: stubs | lock, unlock, output | partly, by what the interface asks for |
| LPUART console | `dri/dri_usart.c` | peripheral registers | configuration, polled `fputc` | no |
| LED driver, `main` | `int/int_LED.c`, `main.c` | pins | | the endless loop of `main` is `SysTick`'s caller, the way to it `ClockBoot` |
| RT-Thread: scheduler, thread timeouts | `RT/scheduler.c`, `thread.c`, `clock.c`, `timer.c` | the ready table, the state, priority, error and timer of each thread | `rt_schedule`, `rt_thread_sleep`, `_yield`, `_suspend`, `_resume`, `_timeout`, `rt_tick_increase` | `RtKernel` |
| RT-Thread: mutexes, semaphores, events, mailboxes, message queues | `RT/ipc.c` 87-190, 204-513, 541-881, 916-1274, 1294-1831, 1975-2440 | value, owner, lent priority and nesting; value; the set of events and what each thread asks for; the ring with its offsets and count; the free list, the queue and the blocks; the lists of waiting threads | `rt_mutex_take`, `_release`; `rt_sem_take`, `_release`, `_control`; `rt_event_send`, `_recv`, `_control`; `rt_mb_send_wait`, `_send`, `_recv`, `_control`; `rt_mq_send_wait`, `_send`, `_urgent`, `_recv`, `_control` | `RtIpc`, `RtEvent`, `RtMailbox`, `RtMsgQueue`, `RtSystem` |
| RT-Thread: the rest | `RT/ipc.c` (detaching and deleting), soft timers, signals, memory, devices | | | no |
| zlog, StdPeriph and USB drivers | `com/zlog`, `src/firmware` | | | no, except the RCC and FLASH functions the clock code calls |

### How they interact

The reset handler calls `SystemInit`, which leaves the part on the PLL, and
then the C library's `__main`, which copies the initial values of the variables
from flash and calls `main`.  `main` programs SysTick from `SystemCoreClock`,
initialises the console, and loops printing and delaying; its call of
`dri_ClockConfig_Init` is commented out, so that the functions of
`dri_ClockConfig.c` are there for an application to call.  `uwTick` is not
declared volatile (`n32l40x_it.c:51`); what makes the delay's loop read it anew
is that it does so through a function pointer, of a function in another file.  The only asynchronous actor of
the board is the SysTick interrupt, which shares `uwTick` with the foreground.
The clock tree runs beside the code: oscillators become ready, the PLL locks,
and SYSCLK follows the switch some time after the code asked.

EasyLogger is written to be called by several contexts (threads of an RTOS,
interrupts, an exception handler).  Everything its contexts share is either
under the output lock (the line buffer, the output buffer, the tag table) or
not (`output_enabled`, `is_enabled`, the global filters and their strings, the
formats, the first test of `elog_flush`, the flags of the lock itself).  In this tree the
port's lock functions are empty, for the integrator to fill in, and the
firmware does not yet log from several contexts; the models give the port the
mutex its interface asks for and check what `elog.c` makes of it.  The same
holds for the file plugin, which has a lock of its own.

RT-Thread is in the tree for the integrator; the firmware's `main` does not
start it yet.  Its threads share one processor: what excludes them from each
other and from interrupts is disabling the interrupts, and what lies between
two such stretches is where others come in.  The scheduler, the lists of
waiting threads and the thread timers all move the one list node of a thread.

### What is hard, and what makes each part correct

* **Tick and delay.**  The counter wraps during a delay, the delay starts in
  the middle of a period, ticks arrive while the foreground prints, and the
  argument may be `UINT32_MAX`.  Correct: a delay is never short, never longer
  than what the foreground misses, and ends.
* **Clock.**  Four sources, each function with three or four waits that can
  time out, and a fixed order in which wait states and bus dividers have to
  change around the switch.  Correct: at *every instant* the wait states and
  dividers fit the frequency SYSCLK really has, SYSCLK never loses its source,
  success means the clock that was asked for, and every function returns.
* **Output lock.**  The flags are written outside the protection of the port
  lock, and anybody may switch the lock off and on, also an exception that has
  interrupted a context inside the logger.  Correct: contexts exclude each other
  and get through; switching the lock off and on does not wait for itself and
  leaves the port lock with the context that is inside.
* **Output path.**  Lines are split over a buffer, flushed by others and
  overtaken by direct output when the mode changes.  Correct: the device gets
  each accepted line whole, once, in order; a flush delivers; calls return.
* **Filters.**  A bounded table with reuse, tags compared to a fixed length,
  four tests made at four different times, and strings that are read while they
  are written byte by byte.  Correct: the table is a map,
  and a verdict is one the settings explain.
* **File plugin.**  Openings, removals and renames can fail, the system can
  restart between any two steps, the name, the size and the number of files can
  change between two lines, and shutdown races with a writer.  Correct: the files
  hold the last lines, in order, only the oldest are given up, and nothing is
  added to a file that is too large.

* **Line formatting.**  Some thirty copies into one buffer, each cut by its
  own arithmetic, `vsnprintf` with its several results, a colour switch read
  twice and a format read anew for every piece without the lock, and 16-bit counters of a dump.  Correct: nothing is
  written beyond the buffer, a line is cut in one place and ended whole,
  nothing stale is output, and a dump shows every byte once and ends.
* **RT-Thread.**  A timeout, a release and an interrupt compete for the same
  waiting thread; priorities are lent and given back; resumed threads find
  that others were faster; one send of events goes through a list of waiting
  threads and lets each take some of them out; a thread is on its way to `rt_schedule` when an
  interrupt comes.  Correct: mutual exclusion, no release or mail lost or
  counted twice, a call's result is the truth, nobody waits for what is
  there, a thread's node is in the list its state says, a lent priority is given
  back with the mutex, and timed waits end.

`PROJECT.json` lists the hazards one by one, at their lines, with the
properties that cover them.

## 2. Modules

Every module names in its comments the function an action stands for; an
action is as large as the code's atomicity allows: what lies between two
points at which another actor can be observed, or observe.

### SysTick

`SysTick_Handler` is the interrupt; `DelayCall`, `DelayStart`, `DelayArm` and
`DelayPoll` are the four points of `dri_systick_delay_ms` between which it can
arrive: entry (with its first `printf`), the read of `tickstart`, the
computation of `wait` after the second `printf`, one evaluation of the loop
condition.  Subtraction and increment wrap at `TickMod`.  How much an
interrupt can do between two foreground steps is bounded by `PrintTicks` and
`PollTicks`; `TickAssumption` says how small they must be against the width of
the counter, and is what the argument needs: a foreground that is stopped for
longer than the whole counter minus the delay could miss the end of it.
`edges` counts interrupts since `tickstart` was read and `lag` since the last
foreground step; both are history.

### ElogLock and ElogLockSwitch

`ElogLock` splits the two lock functions into test, port call and flag write,
since other contexts run between them.  The port's mutex does not know its
owner.  `ElogLockSwitch` adds `elog_output_lock_enabled` as the code has it: any
context calls it with either value, outside the logger or inside a log call of
its own, whatever the others are in the middle of.  `Switch` writes the switch,
`FlagTest` is one of the five tests of the call (the switch and the two flags,
each read anew), `Relock` and `Reunlock` are the calls of the port.  The comment
of the function (`elog.c:758-763`) only recommends to leave it to the logging of
exceptions; it states no condition.  What the property has to assume is therefore
kept in history variables and not in guards: `alone` is the context that turned
the lock off, as long as no other one has run since (while it waits at the port
the others may log, or it would wait for ever); `clean` remembers whether the
flags told the truth when it did, and `crossed` whether it locked or unlocked
since.  The others stay wherever they were interrupted, inside the logger and
between the release of the port and the clearing of the flag (`elog.c:394-395`)
included.  `ElogLockSwitch.cfg` and `ElogLockEnable.cfg` turn deadlock checking
off because the system really can stop: with stale flags a context locks a port
it already holds and waits for itself.  `CleanSwitchSyncs` says when it does not.

### ElogPipe and Elog

`ElogPipe` is the promise: one stream of lines, each appended whole, of which
the device has a prefix.  `Elog` composes `ElogLock` with the calls: a thread
goes through `check` (output enabled, filters), `level` (the tag's own level,
under the lock, which is released and taken a second time at
`elog.c:486-508`), `log` (formatting into the shared line), `put`, `copy` and
`reset` (`elog_buf_output`, one round of its loop at a time) and `leave`.
A dump repeats `log`...`put` for each row under one lock.  `elog_flush` is
`FlushCall`, the unlocked test, and two steps under the lock.  Lines are
sequences of cells that name their call, row and position, so that any loss,
repetition or exchange shows.  What the filters say is a free choice here;
`ElogFilter` models the decision.

The refinement maps `stream` to what is on the device, what is buffered and
not yet handed over, and the uncopied rest of the line in progress.  Every
step of `Elog` is an `Accept` (formatting a line that passes), a `Deliver`
(a device write) or a stutter.

`elog_start` and `elog_stop` are `SwitchOutput` (the output flag), then
`SwitchBuffered` (the buffered mode), then an ordinary log call with the
banner.  They take no lock, so a line can be output directly while earlier
ones are buffered; `ImplementsPipe` is then false by design and the weaker
`LinesInOrder` and `NothingLost` are checked instead.

### TagLevels, ElogTagTable, ElogFilter

`TagLevels` is a bounded map from tags to levels.  `ElogTagTable` is the array
of entries: search by truncated tag, change, add in the first free entry,
remove, nothing when full.  `asked` is history: the level last set for each
kept tag, except that `Dropped` leaves out a level for one tag more than there
are entries, by counting tags and not by looking at the table.  `Trunc` stands
for the comparison of `ELOG_FILTER_TAG_MAX_LEN` characters.

`ElogFilter` adds the global level, tag and keyword, and `elog_output`'s four
tests in the order of the code, with any settings call between two of them.  The
level is one byte.  The tag and the keyword are strings that `strncpy` writes
byte after byte without the lock: between `BeginSet` and `EndSet` of such a call
`SetTag` and `SetKeyword` put anything into the buffer that half-written strings
select, any number of times, and several contexts may be at it at once
(`setting`).  `strstr` reads the buffer byte after byte too, so the test of a
filter that is being written may answer either way (`Answers`).  `rejecting` and
`passing` remember which filters have not changed their mind since the call began
and were not being written at any time of it.

### ElogFile

Writers append; the controller initialises, reconfigures and shuts down.  A
write is the unlocked test of `init_ok` and `fp`, the port lock, the seek (which
writes the stdio buffer to the file) with the test of the size, the rotation
file by file (remove, rename, each of which can be the last before a restart),
the reopening, the write, the unlock.  `build` is what the plugin was compiled
with, which `elog_file_init` configures and whose `max_rotate` decides whether
there is a rotation at all (`elog_file.c:128`); `local_cfg` is what the last call
of `elog_file_config` copied, a name, a size and a number of files, or nothing
(`ConfigOpen`, `ConfigNull`).  `disk` has the files of every name, so a
configuration can come back to files it left.

Everything that the file system is asked for can fail: opening the log file
(`fp` is NULL from then on), removing, renaming, and the opening of `oldpath` that
`elog_file_rotate` takes for a test of its existence (`elog_file.c:93`).  The last
one skips the rename of a file that is there, without an error, and the next
round removes it: `mistaken` remembers these files.  `fault` is a stdio call on a
NULL file: the writer stops there with the lock held.  `Restart` loses what is
not on disk.

Lines are numbers in the order of writing to a name.  A removal of a file that is
not the oldest one on disk, because it was taken for missing or because the
number of files was made smaller, leaves a gap; `whole` is how many of the newest
files are still without one between them.

### ElogLine

What is written into `log_buf` inside the lock, for one call of `elog_output`,
`elog_raw_output` or `elog_hexdump` after the other.  A character is a cell
that names its string, so a line that is torn, shows an old character or an end
sign is told from a good one.  `elog_output` asks for the format before each
piece, as `AskLevelAndTag`, `AskInfo` and `AskPlace` do in the order of the code:
`Take` is one such question, with the strings it has copied next and the
question it goes on with, `point` the next one.  `Package` is one `elog_strcpy`.
`enabled_fmt` is the format of the line's level; `SetFmt` (`elog_set_fmt`, which
takes no lock) may change it between any two questions, so the pieces of one line
may follow several formats.  `chosen` and `fmts` are history: the strings the line
has got and the formats its questions met.  `FormatText` is `vsnprintf` with its
result (`Fail` is -1), `ReserveEnd` the room kept for the colour end and the
newline, `FilterKeyword`, `AppendEnd` and `AppendNewline` the rest of
`elog_output`; `StartRow`, `ReserveRow` and `NextRow` are one round of the loop
of `elog_hexdump`, whose `i` wraps at `Wrap`.  `elog_set_text_color_enabled`
may come between any two of them.  `ElogFindLvl` and `ElogFindTag` read a
finished line.

`HeadStrings` is no part of the model but what the properties compare it with:
what a format has between the colour and the text, written down without the
order of the questions.

### RtKernel, RtIpc, RtMailbox, RtMsgQueue, RtEvent, RtSystem

`RtKernel` is what the IPC objects stand on: the table of ready lists, the
running thread, and for every thread its state, current priority, error, timer
and place in the kernel (`pc`, with the object it takes in `want`).  A stretch
with the interrupts disabled is one step, since only one processor runs.
`SuspendOn` is the waiting half of every taking call, and `Schedule` a step of
its own, because all of them enable the interrupts before they call
`rt_schedule`: a timeout or a release by an interrupt can come in between.
`Queued` is `rt_ipc_list_suspend` with both flags, `Reprioritised` the change
of a priority, which moves only a ready thread's node, `Timeout` the expiry of
a thread's timer at the tick, and `Slice` the end of a time slice.  Ticks are
not counted: a timer may expire at any tick after its start.  The control call
that resets an object resumes everybody one by one with the interrupts disabled
(`ResetBegin`, `ResetNext`, `ResetEnd`), for every kind of object but the mutex.

`RtIpc` has the paths of `rt_mutex_take` and `rt_mutex_release` as actions
(taken again, free, busy, waiting; foreign, nested, free, handed over), those
of the semaphore, and `TakeReturn`, which reads `thread->error`.  `holds` and
`credit` are history: what the calls have told the threads.  `RtMailbox` is the
ring with its two offsets and two lists; a resumed thread tries again
(`MbSendWoken`, `MbRecvWoken`), waits again or, when its time is used up, gives
up (`MbLate`).  A reset resumes the receivers and then the senders (`ResetOne`).

`RtMsgQueue` waits and resets as `RtMailbox` does and takes those actions from
it.  Its messages are in blocks, linked from a free list or from the queue, and
what is new is that `rt_memcpy` runs with the interrupts enabled: a send is
`MqAlloc`, which takes a free block, and `MqLink`; a receive is `MqRecv`, which
takes the block from the queue, and `MqFree`.  In between the thread is at
`"copy"`, `msg` has its block, and anybody else may send, receive, time out or
reset.  The text of a block is set when the copy begins, which is as early as
it can destroy what another thread has there.  `posted` is history: the messages
linked and not received.  From interrupts there is `rt_mq_send` only, and
no interrupt nests in it.

`RtEvent` has the set of events of every object and what each thread waits for.
`rt_event_send` keeps the interrupts disabled while it goes through the list;
it is `EvSend` or `EvSendIsr`, an `EvResume` for each thread it resumes and
`EvSendEnd`, and `sending` keeps every other step out until it ends.  The next
thread to be resumed is the first in the list that has what it asked for: those
before it had not, and the set only shrinks while the list is gone through.

`RtSystem` composes all of them for a program that uses some of the objects,
with the interrupts that release and send.

### ClockConfig

Each function is the sequence of register operations it makes, in order; one
action interprets each kind of operation, and the hardware is `HwReady` and
`HwSwitch`.  `mode`, chosen from `Modes` once for a behaviour, says who calls:
`dri_ClockConfig_Init` with its three functions in a row, or an application
that makes any request at any time and may turn off the MSI; and how long
SYSCLK takes to follow `SCLKSW`: `"none"`, it is done before the next
operation; `"short"`, operations can come in between but no wait times out
because of it; `"long"`, the wait for it can time out although the source is
ready.  An oscillator may stay unready for ever under each of them, so every
timeout of a start-up is explored.  `chip` is the outcome of the UCID test of
`SetSysClockToHSI` and `SetSysClockToHSE`, which on the older parts go through
the PLL.  A PLL that is configured while it is on may take the new settings or
ignore them.  The multiplier is kept as the code in the register: `PllMulCode`
encodes it, `RCC_GetClocksFreqValue` decodes it as the driver does, and
`PllMul` as the chip does.  `IsRequest` is what the functions can be asked for: an
oscillator, or any frequency from the PLL with any of its sources and dividers;
`RangeAssumption` keeps the requests to the 64 MHz the part is made for, since
`SetSysClockToPLL` accepts more and no wait state or divider would be enough.

`ClockBoot` is the way from reset to the tick: `ClockConfig`'s `SystemInit` with
the HSE free to fail, then `DataInit`, the start-up code that copies the initial
value of `SystemCoreClock` over what `SystemInit` wrote there, then `main`'s
programming of SysTick.

## 3. Runs

Passing runs:

| Run | Question and answer | Instance |
|---|---|---|
| `systick` | Is a delay exact enough, from any start value, for any argument? Yes, and it ends. | tick of 8 values, requests 0, 1, 3, 6, 7 (the largest is `UINT32_MAX`), up to 3 ticks in the printf, 1 between polls |
| `lock_switch` | Does disabling and enabling keep the port lock in step, wherever the other contexts are? Yes, and without waiting for itself, if the flags were true at the time, the context crossed the lock in between and no other one ran before the flags were tested. | 2 contexts |
| `output` | Do contexts exclude each other, does the device get whole lines, once, in order, does a flush deliver, and does every call return? Yes. | 2 threads of 2 calls, a buffer of 2 cells, lines of 3 |
| `output_switch` | With `elog_start` and `elog_stop` racing, is a line torn or lost? No: lines may overtake each other, but none is lost and no part comes before an earlier part. | 2 threads of 2 calls, dumps of up to 2 rows, a buffer of 3 cells, lines of 2 |
| `filter` | Is the table a bounded map under any order of sets and removals, is the level in effect the one last set, and is a verdict explained by settings that held during the call, also when a filter is read while it is written? Yes; only a full table drops a level. | 4 tags of which two compare equal, 2 entries, one text, levels 0, 3, 5, one context at a time writing each string |
| `file` | Do the files hold the last lines in order, without a gap but where a file was removed, through failures, reconfigurations and restarts? Yes. Is a line only given up from the oldest file, and never added to a file that is too large? Yes, but for a file that a failing opening made the rotation take for missing, and for a rotating build configured to keep no rotated file. | 2 writers, 2 names, up to 3 rotated files, builds with and without rotation, 5 configurations, 5 and 2 lines, `max_size` 0 and 1 |
| `line` | Is the buffer ever overrun, a line torn at a second place, anything old output, a keyword seen that is not output, a byte of a dump left out, a level or tag not found again? No. | a buffer of 16 characters, 3 formats of which a line meets up to 2, texts of up to 17, 4 keywords, dumps with 16 as the width of the counters |
| `clock` | On the firmware's own start, and for any order of requests: can SYSCLK lose its source, or a function hang? No.  Are wait states and dividers sufficient at every instant, does success mean the clock asked for, is the frequency reported the real one? Yes, the first two where SYSCLK follows in time. | 9 requests, both chips, firmware with lag short, any with lag none and long |
| `rt_ipc` | Do threads exclude each other, does every call tell the truth, is a release, event, mail, message, block or wakeup ever lost or used twice, do the lists, timers and priorities stay right, do timed waits end? They do; the one step that leaves a more urgent thread waiting is named by `OnlyPlainReleaseDefers`. | 3 threads of priorities 1 to 3 on one mutex or semaphore with either flag, one mailbox, one message queue, or one event object with two events |

Runs whose property is what a comment says, and which TLC refutes.  Each is a
finding in `PROJECT.json` with the quotation.

| Run | What the code does |
|---|---|
| `lock_enable` | Enabling the lock releases a port lock that is held, from flags that are older than the disabling; a single context suffices. |
| `clock_boot` | When the HSE does not start, `SystemInit` leaves the core on the MSI and sets `SystemCoreClock` to 4 MHz; the start-up code then copies the initial 64 MHz over it, and `main` programs SysTick for 64 MHz on a core at 4. |
| `rt_timed_take` | `rt_mutex_release` gives back a lent priority without `rt_schedule` when nobody waits any more: the thread that lent it, timed out and ready, is left behind, and its timed take does not return while the owner runs on. |

Disagreements between code and text that are visible in the models and are
not stated by any run:

* `elog_output_unlock` clears `output_is_locked_before_disable` after it has
  released the port (`elog.c:394-395`): the next holder may find its flag
  cleared.  It is why `CleanSwitchSyncs` needs `clean`.
* An exception that logs with the lock turned off has interrupted a context that
  may be inside the logger with the port lock held.  The flags do not say whose
  lock it is: `locked_before_disable` is the interrupted context's, and the
  enabling call of the exception then releases that lock (`elog.c:772-774`), or
  takes it although it is held when the flag has been cleared meanwhile.  The
  flags are not true of the exception then, and `clean` is false.
* A tag or keyword filter that is read while it is written can reject a line that
  the old and the new value pass, and accept one that both reject
  (`elog.c:365`, `374`, `591`, `704`): why the two verdict properties leave the
  filters being written out of account.
* A line whose format is set while it is made can be a line of no format, such as
  one with the bracket of one and nothing of it (`elog.c:327-331`, `608-672`):
  the premise `fmts = {f}` in `OutputWhole`.
* A level set for one tag more than the table has entries is dropped without
  a report (`elog.c:465`): the disjunct `TableFull`.
* A tag in silent mode still logs at assert level (`elog.c:589`): the silent
  level equals it and the test is `>`.
* A file grows beyond `max_size` by the line that fills it
  (`elog_file.c:127`), and a smaller `max_size` leaves larger files as they are;
  with a `max_rotate` of 0 configured in a build that rotates, it grows without a
  bound (`elog_file.c:84`): `SizeBounded` says what does hold.
* A rotated file that cannot be opened is taken for missing and removed by the
  next round, and a log file that cannot be opened is written on
  (`elog_file.c:93`): `mistaken` in `OnlyOldestRemoved` and `SizeBounded`.
* Fewer rotated files and then more again bring old files back behind a gap
  (`elog_file.c:172`): `whole` in `LastLinesInOrder`.
* `elog_file_deinit` between a writer's test of `fp` and its write leaves it
  with a NULL file (`elog_file.c:118`): the state `fault` of `ElogFile`.
* `SetSysClockToPLL` computes two wait states at 64 MHz where one is stated
  (`dri_ClockConfig.c:522`): safe, and slower.
* It configures the PLL without waiting for SYSCLK to have left it
  (`dri_ClockConfig.c:574-590`): why `ClockLimits` and `SuccessMeansClock` are
  stated as they are.
* On the older parts `SetSysClockToHSE` runs the PLL at 8 MHz, where
  `n32l40x_rcc.c:535` asks for 32.
* A PLL that fails leaves the MSI selected, not the HSE as the comment says
  (`dri_ClockConfig.c:76`, `600`).
* `elog_stop` turns the output off before it logs its banner
  (`elog.c:274-275`), which is then dropped.
* A dump of a size within `width` of 65536, or of width 0, never ends and keeps
  the output lock (`elog.c:896`): the premise `Ends` leaves it out of `DumpExact`
  and `LineReturns`, and no property covers it.
* A raw text longer than the buffer is output with the NUL that `vsnprintf`
  ended it with (`elog.c:539`): why `OutputWhole` says what it says of raw output.  When `vsnprintf` fails, a whole
  buffer of old characters is output: `fmt_result # Fail` in `OutFresh`.
* A line number is cut to four digits (`elog.c:660`).
* `elog_find_lvl` and `elog_find_tag` only work on lines that began with a
  colour, and a colour switched in the middle of a line leaves it without its
  end sign: the premises of `FoundAgain` and `OutputWhole`.
* The stubs of `elog_port.c:101-116` return NULL for the time and for the
  process and thread names, which `elog_strcpy` asserts against.
* A thread that owns two mutexes and releases them in the order it took them
  can keep a lent priority, and one that releases the second loses what was lent
  to it for the first meanwhile (`RT/ipc.c:832-840`): `PriorityInheritance` is
  stated for one mutex.  A priority lent by a thread that has timed out stays
  with the owner until it releases the mutex (`RT/thread.c:788-810` does not take
  it back).  A boost is not passed on along a chain
  of owners, and a boosted thread keeps its place in the list it waits in.
* `hold` is 8 bits wide and not tested (`RT/ipc.c:684`).
* A sender whose time is used up by waits in vain returns `-RT_EFULL`
  and not a timeout (`RT/ipc.c:1479-1484`): `MbLate`.
* All threads of a program may wait for room in one full mailbox or queue;
  `Consumers` are those that never do.

### Bounds, and why they are enough

* *SysTick*: the counter's width enters only through the wrap, which every
  start value of an 8-valued counter puts at each place in a delay.  The proofs
  cover every width.
* *ElogLockSwitch*: two contexts, each of which may switch.  The proofs, of the
  lock and of the switch, cover any number of contexts.
* *Elog*: in `output` a line is longer than the buffer, so that the copy loop
  goes round more than once and lines are split at every place; in
  `output_switch` it is shorter and two lines do not fit.  Two threads of two
  calls have a line in progress, one buffered and a flush at once.  `MaxCalls`
  bounds what would otherwise be an endless log; the runs stop when the calls
  are used up, which is why they do not check deadlock (`LogReturns` checks
  that calls return).  For steady mode the proofs cover every instance.
* *ElogFilter* and *ElogTagTable*: one tag more than entries after truncation,
  so the table fills, drops, frees and reuses; the filters do not interact, and
  two values of each setting tell accepted from rejected.  No filter tells the two
  short tags apart, so they are symmetric (`ShortTags`).  `TagFilters` and
  `Keywords` bound what half-written strings select, and `Setters` the calls that
  write the same string at once; more of them leave it as unsettled as one.
* *ElogLine*: strings of one or two characters and a buffer of 16 that the
  short formats fit and the long ones do not, so that the cut falls into every
  piece, the text and the end; sizes of dumps up to one below the width of the
  counters, so that the wrap is reached.  `MaxFmts` 2 lets a line change over from
  any format to any other and back; one short format, one that leaves pieces out
  in the middle and one with all pieces take every way through the questions.
* *Rt*: three threads have an owner, a waiter and a third between or above
  them, which is what inversion, handover and stealing need; `MaxHold` 2 has a
  nested take, `MaxCount` 2 a release that counts on top of another, `BoxSize` 2
  a ring that wraps and fills, and two blocks a queue in which one message can
  overtake another and the two ends of it be copied at once.  A program uses one
  object: threads meet the kernel's lists and timers at every point of one
  object's calls, and two objects would mostly add products.  The mutex and the
  semaphore are checked with both flags; the mailbox with `RT_IPC_FLAG_FIFO` and
  the message queue with `RT_IPC_FLAG_PRIO`, since they wait by the same code.
  `t2` never waits for room (`Consumers`), so that somebody is always there to
  free it.  Of the threads on the mailbox, the queue and the events only `t2`
  sleeps (`Sleepers`): the others wait there with and without a timeout, and one
  that is neither in a list nor ready is all that a sleep adds.  On the event
  object one thread asks for both events and takes them, one for either and takes
  it, one for one and leaves it (`Asks`), which is what competing for one send
  needs.  The proofs have none of these bounds.
* *ElogFile*: a file is full with its first line (`max_size` 0) or its second
  (1), so that five lines (`MaxWrites`) shift three rotated files and force the
  oldest to be given up, with a smaller number of files, another name and no file
  at all configured in between; `MaxFiles` bounds what a configuration may ask for.
* *ClockConfig*: requests on both sides of each threshold of dividers and wait
  states (16, 32, 36, 48, 64 MHz), through all sources, with multipliers of 16
  and 17, where the code of the multiplier changes halves, and requests for
  which no multiplier exists (36 MHz from 8/1, 16 MHz from 16/1).  The state
  space is finite without further bounds.

### Fairness

* `SysTick.FairSpec`: the interrupt keeps firing (free-running hardware) and
  the foreground keeps running (nothing else uses the processor).
* `Elog.FairSteadySpec`: a function once called keeps running (weak fairness of
  its steps, which nobody else disables) and the port's mutex is fair (strong
  fairness of `PortLock`: a waiter is not passed over for ever).  Calling is
  not assumed.
* `ElogLine.LineSpec`: a call once begun runs on.
* `ClockConfig.Spec`: the processor runs, and so does the switch of SYSCLK
  unless `lag` is `"long"`, which is what the other values mean.  Nothing else
  is assumed of the hardware; that functions return is owed to their timeouts.
* `RtSystem.RtTickSpec`: the tick comes and a running timer expires.
  `TimedWaitEnds` assumes, as a premise, that the system is idle again and
  again, since a strictly preemptive scheduler promises nothing to a thread
  below a busy one; a tick that comes while a reset or a send keeps the
  interrupts disabled waits for its end, which `TickFairness` asks no more than,
  since those sections are finite.  `RtFairSpec`, for `UrgentTimedWaitEnds`, adds that the
  processor runs and that time slices end.

The boot waits of `SetSysClock` for the PLL and for the switch have no timeout
(`system_n32l40x.c:666`, `680`), so `ConfigReturns` leaves the boot out.

## 4. Proofs

The proofs hold for every value of the constants that satisfies the named
assumptions (`TickAssumption`, `LockAssumption`, `ElogAssumption`,
`TableAssumption`, `FilterAssumption`, `FileAssumption`, `LineAssumption`, and `KernelAssumption`,
`IpcAssumption`, `BoxAssumption`, `QueueAssumption` and `SystemAssumption` for
RT-Thread; `ClockAssumption` and, where limits are concerned, `RangeAssumption`
for the clock).  Type
correctness is part of every invariant below; the runs list only what says
more.

**SysTickProofs.**  `DelayIsNotLong`, `DelayIsNeverShort` and `ElapsedIsExact`
state the three safety properties of the delay for every width of the counter,
every set of requests and every bound on what the foreground misses.  None of
them is inductive: that the unsigned difference equals the number of
interrupts is only preserved while that number is below the width, which needs
the bound on the length of the delay, which in turn needs the difference to be
exact where the loop tests it.  The invariant `TickInv` ties the two together
with the lag of the current step (the edges seen at the last poll were below
the wait, so that now they are below the wait plus the lag), and is proved
inductive action by action (`Invariance`).  The arithmetic of the wrap is in
lemmas of its own.

**ElogProofs** is about the lock, the output path and its refinement.

*The lock.*  `LockInvariance` proves `LockIInv`: types, the lock being
enabled, and `OwnerExact`, the port's owner is exactly the context between
`elog_port_output_lock` and `elog_port_output_unlock`.  Mutual exclusion
(`LockExcludes`) is not inductive by itself, since it does not say who owns
the port; it follows from `OwnerExact` at once, as two contexts inside would
both be the owner.

*The output path.*  For any threads, any buffer size, any line lengths and any
filters, `ElogSwitchInvariance` proves `ElogIInv`, with `elog_start` and
`elog_stop` (`SwitchSpec`) as without (`SteadySpec`).  The lock's own invariant is
not enough: the steps of the
output path are enabled by `pc`, the lock's by `lpc`, and `Coupled` says which
pairs go together, so that only the owner can be in `log`, `put`, `copy`,
`reset` or a flush.  `IndexOK` bounds what has been copied by the length of the
line, and `CallsCounted` says that a thread only formats lines of calls it has
counted; with
them the type invariant, the bound on the buffer included, is inductive, and
`ElogTypeCorrect` and `ElogExcludes` follow.  While the mode stays as it is,
`BufferedOK` (the buffer is used in buffered mode only) is invariant too
(`ElogInvariance`).

*The pipe.*  `ElogImplementsPipe`: every step of `Elog` maps to
`Accept`, `Deliver` or a stutter of `ElogPipe`.  The mapping takes the rest of
the line in progress from the one thread that is past formatting; that there
is at most one, and that other threads' steps leave it alone, is `OwnerExact`
and `Coupled` again.  `FlushIsComplete` shows by the same argument that what a
flush was asked to deliver is on the device or in the buffer until it writes
the buffer (`GoalOK`), also when its unlocked test of `buf_write_size` makes it
return at once.

*Switching the mode.*  Under `SwitchSpec` there is no pipe to implement: a line
output directly overtakes what is buffered.  `StreamStep` says what a step can do
to `Stream` all the same: nothing, a row appended by a thread that formats, or
the line in progress moved in front of the buffer (`Overtakes`).  No part of a line is lost by any of these (`NothingIsLost`).  That
none is twice or too early (`LinesKeepOrder`) needs two more facts.  A line
that is appended is new, since everything in the stream was printed by an earlier
call of its thread or is an earlier row of the one in progress (`Printed`; the
histories of threads move on only, `StepAges`).  And a line that overtakes is
whole, so that no earlier part of it can be in the buffer it overtakes.

**ElogLockSwitchProofs.**  `CleanSwitchInStep` is about one step, the end of the
enabling call; `SwitchIInv` follows the flags to it, for any number of contexts
and wherever they were when the lock was turned off.  It speaks of a context `t`
from there on for as long as no other has run (`alone = t`, `Window`).  The
others stay where they were, inside or outside, and hold the port accordingly
(`OthersExact`); `locked_before_disable` says whether `t` holds it,
`locked_before_enable` where `t` is once it has crossed the lock, and each test
of the enabling call adds what it has read to the next (`FlagsOK`).  While the call
waits for the port the others run on and take and release it as they always do,
which changes none of this.  Nothing is said of a window in which another context
runs: what the code then does is what `lock_enable` shows.

**ElogFileProofs.**  `LastLinesInOrder` speaks of all the files of a name put
together; the invariant that proves it says what each of them holds.  For every
name there are bounds `lo` and `hi` such that file `i` holds exactly the lines
`lo[i] + 1` to `hi[i]`, older files older ones, and the stdio buffer those after
`hi[0]` (`CutAt`, `InOrder`, `LogOK`, `Unbroken`).  In the first `whole[name]`
rotated files the intervals meet, `hi[i] = lo[i - 1]`; beyond, where a changed
`max_rotate` or a rotation that took a file for missing has left a gap, they are
only in order.  A write adds to the buffer, a flush moves `hi[0]`, a rename moves
an interval to the next file, a removal empties one; a reconfiguration changes
which name is written and touches no file.  A rename loses no line that should
be kept because the invariant also says what it renames over (`Rotating`, `At`):
the oldest file configured, an empty one, or one that an `fopen` has failed on
(`Spare`).  From it follow `FilesHoldLastLines` and `OnlyOldestIsRemoved`.
`FilesAreBounded` needs that there is room where a line is about to be written
(`Room`), after a rotation and after a change of `max_size`, in particular after
a rotation that failed, when nothing is written.

**ElogFilterProofs.**  First the table of tag levels, for any number of tags and
entries.  `TableIInv` adds to the types and to `NoDuplicateTag`
that the table agrees with what was asked for: an entry in use holds a tag that
was given a level, and that level, and every such tag has an entry.  The
entries in use and the tags with a level are then in bijection (`GivenCount`),
which is what relates a full table to the number of tags, and hence the
disjunct `TableFull` to a dropped level.  From it follow that no tag has two
entries, that the lookup returns what was last set (`LevelIsInEffect`), and the
refinement (`TableImplementsLevels`), in which the map is simply that of the
levels asked for.

Then the verdicts.  The two statements about them need to know which
filters a call has been through (`TestedAt`) and that the histories agree with
what the filters say now (`HistoryOK`): a filter that has never wavered since the
call began says now what it said then, and is not being written, so that its
test can only answer that.  The table below is that of
`ElogTagTable`: every step of `ElogFilter` is one of its steps or leaves it
alone, so its invariant carries over.

**ElogLineProofs.**  All six safety properties of the line buffer, for any sizes
of the buffer and of the tag, any strings, texts and dumps, and any formats set while a line is put together,
in three stages.

*Where it ends.*  `LineIsBounded` (the length never exceeds the line buffer) and
`OutputIsFresh` (what goes to the port was written by this call) follow from
`LineIInv`.  It
adds to the bound, which keeps room for the end wherever the end is still to
come, which kind of call is at which place (`LinePlaces`), that the bytes below
`log_len` are ones this call wrote (`InUse`), up to the last one while room has
not been reserved, since `vsnprintf` may have ended the text there with a NUL,
the same of what has been output (`OutInv`), and that `vsnprintf` has not failed
before it is called (`LineBegun`).  What is output is fresh only because the part
of the buffer it is taken from is, and that part is cut before it is used.

*What it says.*  `LineOutputWhole`, `KeywordIsExact`, `DumpIsExact` and
`LevelAndTagFound` follow from `TextIInv` (`TextInvariance`).  None of the four
is inductive: they speak of `out`, which is set by one step at the end of the
call.  `TextIInv` says at each place before it what the buffer holds:

* `PiecesInv`: while pieces are copied, some number of them has been written and
  `todo` is the rest of them, for a line as for a row of a dump (`Pieces`).
  `Written` allows for the cut: of a string longer than the buffer the beginning
  is there, and the last place may be the NUL of `vsnprintf`, which is why the
  reserve is cut off before anything is read.
* `TextInv`, `KeptInv`, `EndedInv`, `DoneInv`: then it holds the ideal line, the
  part of it that is kept, that part with the end of the colour, and all this
  with the newline is what is output.
* `PlacesInv`, `PassedInv`: whether the end of the colour was written is decided
  once, at the end; a line beyond the keyword filter has its keyword.
* `RowsInv`: the offset of a row is the bytes of the rows before it.

The strings of a line are joined by `FlattenSeq`, which is recursive.  What the
proofs need of it, that it gives a string and that it distributes over
concatenation, is not assumed: each such fact is proved from the least number
of strings for which it would be wrong, which the library's theorem about
minima of well-founded relations supplies without a parameter (`Induction`).  On
it rest the lemmas that say which cells of a row are of its bytes (`Only`),
hence `DumpIsExact`, and at which place of a line its level and tag begin, hence
`LevelAndTagFound`: what stands behind the CSI start is the colour of one level
only, and the first space behind the level is the one after the tag, or the
first with which a short tag was filled up.

*Which strings it is made of.*  The format is read anew for each of them, so the
ideal line is the concatenation of those that were `chosen`, and what is left to
show is what these are (`ChoiceInvariance`).  `FmtInv`: as long as one format only
has been read, the strings chosen so far and those which that format still adds
from this question on (`Rest`, one case per question of `elog_output`) are together
the line of the format (`HeadStrings`); at the end `Rest` is empty, which is the
second half of `LineOutputWhole`.  `BeginsInv`: the line begins with the colour
and, when every format read had them, with the level and the tag, whatever else
changed; `LevelAndTagFound` rests on that.

`LineAssumption` asks of the strings what the code's own have: the newline and the
colours of the levels are not empty.

**RtSystemProofs.**  For any finite set of threads, any objects, priorities,
flags, mailbox size, finite set of blocks and events, `RtInvariant` proves `RtInv`,
`QueueInv` and `EventInv`, and from them all the safety properties of `rt_ipc`:
`MutexesExclude`, `TakesAreTold`, `NodesInOneList`, `TimersOfSuspended`,
`SemsConserve`, `NobodyIsStranded`, `MailsAreInOrder`, `OneReleaseDefers` and, when
no program uses two mutexes, `PrioritiesAreLent`.
Its parts:

* `KernelInv`: types; `Tables`, each list holds, once, just the threads whose
  state says so; the idle thread is ready at the lowest priority, so that
  `rt_schedule` finds a thread (`ElectedReady`); and `Place`, which states of a
  thread go together (suspended only in a wait or a sleep, waiting with
  `thread->error` at `RT_EOK`, its timer running only meanwhile).
* `OnProcessor`: the running thread is ready or on its way to `rt_schedule`.
  Without it a call could suspend a thread twice.
* `MutexInv`, `SemInv`: the value, owner, hold or count of an object agree with
  what threads have been told and with what they have been handed and not been
  told yet (`Handed`).  That only a resumed thread owns what it is taking makes
  the handover inductive.
* `RingInv`, `BoxWaitInv`: the places from `out_offset` on hold the mails sent,
  `in_offset` is as many places on as there are entries, and a waiting receiver
  or sender is outnumbered by those on their way to what is there.
* `QueueWaitInv`: the same of the messages and the free blocks of a queue.
* `QueueInv`: `BlocksInOnePlace` and `TextsKept`.  Neither is inductive alone:
  that a write or a free leaves the queued texts alone needs the block to be in
  nobody else's hands, and that it is rests on `MsgInv`, a thread has a block just
  while it is at `"copy"`.
* `EventInv`: outside a send nobody in the list of an event object has what it
  asked for, a thread that is in the middle of one is at `"run"`.  It is kept
  because whatever else happens to the list or the set, each only gets smaller, a
  thread that joins has just been refused, and a send ends only when nobody is left
  that it could resume.  `RtInv` and `QueueInv` are shown of each step first, since
  that a list gets smaller follows from its lists being right.

The proof goes along these lines.  Lemmas about lists (append, insert, remove, tail
of a sequence in which nothing is twice) give lemmas about the ready table and
the wait lists.  A few lemmas then cover all shapes of a step of the kernel:
nobody suspended or resumed (`QuietKeeps`), the caller suspended
(`SuspendOnKeeps`), the first waiter resumed (`ResumeKeeps`), a timeout
(`TimeoutKeeps`); each says what it does to `Handed` of every object.  An object
that nobody comes to wait for, is resumed for or returns with is `Untouched`,
and its invariant carries over, so every call has to be shown right for its own
object only, one lemma per action.

`OneReleaseDefers` is about single steps: `ElectedLeast`, no ready thread is more
urgent than the one `rt_schedule` finds, settles the steps that call it, and every
other call either leaves all states and priorities alone or ends on its way to
`rt_schedule` (`Defers`), apart from the one release the property names.  It holds
of programs that use any objects together, which is why `Preemptive` asks of an
`rt_event_send` under way that it has resumed a thread: with any send excepted, one
that resumes nobody would seem to defer what a release before it has deferred.

`PrioritiesAreLent` needs an invariant of its own, `LentInv`: what a mutex keeps as
`original_priority` is its owner's own priority, and the list of a mutex with
`RT_IPC_FLAG_PRIO` is in order of the waiting threads' own priorities, so that who
gets the mutex next is as urgent as the rest.  Both rest on the fact that a waiting
thread owns nothing and so runs at its own priority, which is where one mutex is
needed (`OneMutexEach`); with two, neither half of the property holds.

**ClockConfigProofs.**  The four safety properties of the clock
configuration for all requests, every frequency from every source included, in
any order.  The functions are straight sequences, so the invariants have to say
what is known at which place of which of them.  `Code` writes the sequences out,
five in number (`Shape`): the boot, an oscillator selected directly, the same
through the PLL on an old chip, the PLL, and a PLL frequency no multiplier makes;
`BodyIsCode` shows them to be what the model computes.  `point` is the place in
the sequence, `stage` the same place counted so that what three of them have in
common has one number, and `Table` says where each operation can be.  `Moves`,
`Fails`, `Succeeds`, `HardwareStays` and `Calling` reduce every action to what it
does to the place.  Then, each resting on the one before:

* `ClockIInv`, in every mode: what a function has waited for is still ready and
  what it selected still selected (`WaitedReady`, `Selected`), and `Alive`, which
  says of the PLL's source more than `ClockAlive`: it is ready whenever the PLL is,
  in use or not, since SYSCLK may move to the PLL later.  The end of the PLL functions
  may turn off the MSI because they have waited for SYSCLK to have left it; a timeout
  in between leaves it on.
* `LateToMsi`, while no wait for the switch times out: between calls and until a
  call selects its source, SYSCLK is where it was asked to be or on its way to the
  MSI; and a call that began on the MSI has not left it until it waits for the new
  source, which gives `HseFailureKeepsMsi`.
* `FirmwareOK`: in `dri_ClockConfig_Init` the first call cannot fail, since the MSI
  runs from reset and nothing there stops it, so the second begins on the MSI.
* `PromptInv`: while SYSCLK follows before the next operation (`Prompt`) it is late
  only right after a selection (`InStep`); therefore the PLL is really off when it
  is set up and takes its settings (`PllSet`), and wait states and dividers change
  only while SYSCLK is on an oscillator, for which any are enough, or once it is on
  the PLL they were set for (`DividersSet`, `Limits`).  This is so of any requests
  when SYSCLK follows at once, and of the first two calls of `dri_ClockConfig_Init`
  when it is late within the timeouts, since the MSI the second one selects is in
  use already.
* `LastCall`: its third call goes on while SYSCLK may still be on a PLL that runs
  at 8 MHz (the old chips' HSE function), and may then find the PLL on; taken or
  ignored, the new settings come after wait states and dividers are set for them.

Only model-checked: all liveness properties (fairness is out of the prover's
reach), `ConfigReturns` and `LineReturns` among them.  Every safety invariant a
passing run checks is the statement of a theorem.

## 5. Not modelled, and why

* `elog_async.c`: commented out as a whole.
* The port stubs: empty.  Their locks are modelled as the mutexes their
  interface asks for, and their output as a sequence.
* `dri_usart.c`, `int_LED.c`: register and pin writes, and the busy wait of
  `fputc` for the transmit flag, which ends when the hardware says so.
* `RCC_EnableClockSecuritySystem`, `NVIC_Configuration`, the voltage range, and
  the builds of `SystemInit` with another `SYSCLK_SRC`.  The clock security
  system raises an NMI when the HSE fails, and `NMI_Handler` is empty: nothing in
  the code reacts to it.
* The rest of RT-Thread: the detaching and deleting of objects, signals,
  `rt_enter_critical`, the start and end of threads, the timer lists and soft timers of `timer.c`,
  memory, and its components.  What is modelled is started threads that use
  initialised objects.
* zlog, the USB and peripheral drivers apart from RCC and FLASH: third-party and
  vendor code; the application does not call the first two.

## 6. Plan

1. *Done*: `SysTick`, the EasyLogger modules (lock, output path, filters,
   file plugin, line), `ClockConfig`, the tick as `main` programs it (`ClockBoot`), the
   RT-Thread scheduler, mutexes, semaphores, events, mailboxes and message
   queues; the proofs of section 4.
2. *Extend the model*: the detaching of objects, which resumes as a reset does;
   the order of the timer list.
3. *Prove more*: that a thread that releases several mutexes in the reverse order
   has its own priority back.
