# TLA+ models of the BeagleBone driver collection

The repository is a collection of about fifty small Linux kernel modules, each
in its own directory under `src/all_beegle_bone`, with a few user programs. No
driver calls another. What they share is the environment: the module loader,
the driver core, interrupts, softirqs and tasklets, workqueues, timers, wait
queues, and tasks that hold device files open. What goes wrong in them goes
wrong between two of these actors. The models therefore take one driver each,
with the actors around it, and one more takes the init and exit functions of
all of them.

Paths below are relative to `src/all_beegle_bone`.

## Inventory

| Component | State it keeps | Operations | Hard behaviour | What makes it correct |
|---|---|---|---|---|
| `ALL_IN_1/010/io.c`, message device | ring of 10 slots, two indices, a counter, a mutex | open, release, read, write, init, exit | tasks inside the mutex sleep and fail half way; init publishes the device before `mutex_init`; file offsets outlive messages | a bounded first-in first-out queue |
| `bottom_half/tasklet_app`, double-press detector | `prev_key`, `prev_time`, `proc_buf` under a spinlock | interrupt, tasklet, /proc read, polling program | interrupt, tasklet and thread on one or several CPUs; the length is read after the unlock | a mailbox of one message: no torn text, no key forgotten, reads return |
| `bottom_half/threaded_irq/long.c`, long-press alert | `pressed[]` | top half, irq thread, init, exit | the thread sleeps for seconds and wake-ups are merged | every long hold answered, nothing else |
| `ALL_IN_1/027`, blinking LED | a timer, `led_state`, `suspended` | timer callback, probe, suspend, resume, remove | the callback re-arms its own timer and runs while the core stops it | dark and quiet when asleep or removed, blinking otherwise |
| `ALL_IN_1/025`, button with poll | `press_count`, `data_ready`, a wait queue | read, write, poll | no lock at all | no lost wake-up, no lost press |
| `ALL_IN_1/026`, debounced button | `last_press`, `press_count` | read, write | jiffies wrap; no lock | exactly the bounces are ignored |
| `ALL_IN_1/19_20_21 gpio`, GPIO platform driver | two descriptors, one static cdev | probe, remove, open, release, read, write | unbind and bind under open files; failing probes | nothing left behind, no released line touched, device can be opened |
| `ALL_IN_1/17`, `18`, platform drivers that create their own devices | per-device buffer, LED state | probe, remove, read, write, init, exit | nested acquisition, probe inside init | as above |
| `ALL_IN_1/008`, `009`, `011` to `014`, `17`, `18`, `own_work_queue/qw.c`, devices that keep a text | a buffer; here and there a mutex, a wait queue, a counter, a length, a LED | read, write, ioctl | most without a lock; copies sleep and fail half way; the wait is tested outside the mutex | a read is of one text, a text reaches one reader, the LED is what its state says |
| `bottom_half/workq/app_workqueue.c`, long press by workqueue | `press_time`, `key_pressed` | interrupt, work, init, exit | handler and worker on two CPUs; works merge; jiffies wrap | a report means what it says |
| the other character, proc, interrupt and deferred-work drivers, I2C and SPI drivers | little or nothing | init, exit, a handler or two | partial failure of init; handlers running during init and exit | init is undone where it fails, exit undoes it, no handler outlives what it uses |
| user programs, `*.mod.c`, device trees | nothing | straight-line clients; generated | - | not modelled |

`PROJECT.json` lists every component with its files, and under `hazards` the
places where each is hard to test.

## Modules

`EnhChardev` is `010/io.c`. `pc[t]` is the place of a task in a call: waiting
for the mutex, then check, copy and commit inside it (`copy_from_user` may
sleep, so the copy is a step of its own, and `WriteFault` is its half-way
failure). `Register` and `MutexInit` split the init function where a call can
come between; `clobbered` records that `mutex_init` took the mutex from
somebody. `MsgQueue` is what the device promises: calls that take effect at one
instant on a queue. `QueueSpec` is the refinement: the queue is the ring from
`read_index` on, a call takes effect when it unlocks.

`KbdTasklet` is `keyboard_tasklet.c` with its user program. The handler's two
assignments are two steps (`Latch`, `Stamp`); text is copied in halves, so that
it could be torn; `TaskletCanRun` and `ReaderCanRun` say who preempts whom on a
CPU. The two messages differ in length, and `proc_len` is a variable of its own:
a reader loads it under the lock for the copy (`copied`), and twice more after the
unlock, for its position (`SetOffset`) and for its result (`Return`), when a tasklet
may have stored another message. `CopyFails` is the way out with `-EFAULT`.
`Mailbox` is what the driver promises, without CPUs, lock and halves: a key is
latched, posted once and then forgotten; the bytes of a read are those of the
message that is in the box at one moment, its position and its result the length
of what is in the box at two later ones. It does not promise that the length
belongs to the bytes, because it need not. `MailboxSpec` is the refinement: the
box is the second half of `proc_buf`, a key has been posted from there to its
clear, and a reader takes when it unlocks.

`LongPress` is `long.c` with time in ticks. A runnable thread runs within
`LATENCY` ticks. `held`, `answered` and `repressed` are history. `MCLongPress` gives
it names of its own, so that one module can hold the theorems about both keyboard
drivers.

`BlinkLedPm` is `blink_led_pm.c`: two actors, the driver core (`core`) and the
timer callback (`cb`), one step per access to the shared structure.
`Blinker` is what the owner of the LED sees, and `BlinkerSpec` the refinement.

`PressNotify` is `gpiobtn_led_char_poll.c`: `Join`, `Sleep` and `Ready` are the
kernel's wait loop, `Store` and `Announce` the parts of a press.
`Debounce` is the write of `tiny_gpiobtn.c`, with `press_count++` as a load and a
store, and with a word of `WORD` values that starts any of `Boot` ticks before its
wrap: less than half a word with a 32-bit `long`, more with a 64-bit one, where
`INITIAL_JIFFIES` has no sign to extend. `WorkqPress` is `app_workqueue.c`: the three
stores of the interrupt handler, and a worker that reads the two times in either
order. `MCPressTime` puts the two on one clock, with one of them loaded.

`TextDevice` is read and write of the drivers that keep a text. They are one
program with features added or left out, and `TextTables` says which driver has
which: `"write lock"` and `"read lock"` (a mutex around the handler), `"waits"`
(014's wait queue), `"blind"` (a result of `copy_from_user` nobody looks at),
`"counts"` (011's counter and ioctl), `"greets"` (a text from probe), `"length"`
(17 stores the length), `"status"` (18 returns a report of the buffer), `"led"`
(18 on a device-tree node obeys the text). A text is copied cell by cell; a fault
fills the rest with zeros on the way in. `spoilt`, `overlap`, `disturbed`,
`taken`, `hasty` and `together` are history.

`BbbGpio` is `gpio_driver.c`: `core` is the driver core's place in probe, its
error labels or remove; `held` is what has been requested or registered; `old`
are the users whose file has outlived a `cdev_del`; `refs` counts references to
the static `gpio_cdev`, which every probe initialises again.

`DriverLifecycle` is the machine that runs one driver's init, failure paths and
exit, one acquisition or release at a time, with files opened and closed,
interrupts and deferred work in between; `DriverTables` holds the 41 drivers,
each read off its init and exit; `MCDriverLifecycle` puts the two together. In a
table `Need` is an acquisition whose failure ends init after the releases
listed, `Try` one nobody checks, `Else` one whose failure is skipped, `Never` one
that cannot succeed. Five
minors are two, 256 interrupts are two. `LifecycleRules` says when such a table is
in order without running it: every failure path releases what init has by then
(`Complete`) and nothing else (`Precise`), what a handler uses is set up before
the first way to the handler and given back after the last is closed (`Ready`,
`Guarded`, `Outlived`), deferred work is waited for with nothing left to put off
more (`Finished`). `Resource` is all that the tables name.

The `MC` modules give constants that need a function; the other configurations
instantiate their module directly. Operators named in comments as a plausible
slip (for instance `FullTooLate` before `Full`) are the mutants of the code that
each property is shown to refute; the specification never uses them.

## Runs

| Run | Instance | Shows |
|---|---|---|
| `EnhChardev` | 2 tasks, 2 slots of 3 bytes, one message that fits and one that is cut, reads of one byte | type, mutual exclusion, consistent ring, linearisable queue, every call returns |
| `KbdTasklet` | 2 interrupted CPUs, a reader on a third, 2 keys, 2 ticks | bytes of one message, a mailbox (but for the length a read returns), only published keys forgotten, every batch closed |
| `KbdDouble` (violation) | same | one press is reported as DOUBLE PRESS |
| `KbdPoll` (violation) | reader on an interrupted CPU | `spin_lock` against the own tasklet: the read never returns |
| `LongPress` | threshold 3, latency 1 | long holds answered, early alerts only after a re-press, unload ends |
| `LongPressEarly` (violation) | same | an alert for a key that was not held |
| `BlinkLedPm` | period 10 | quiet and dark, refinement, keeps blinking, suspend and remove return |
| `PressNotify` | 3 tasks, 2 presses | no lost wake-up; when a press is lost; the count |
| `PressTime` | 2 writers, words of 12, boot 4 (32-bit) and 9 (64-bit) before the wrap, window 2, stalls of 2, counts of 2; or an interrupt and a worker up to 4 late for a threshold of 1 | debounce over the wrap, and its limits; a long press is reported only by a late worker |
| `TextDevice` | 2 users of each device, 3 of 014; 3 cells, texts of 1 and 2 | one read, one text; one text, one reader; no sleeper forgotten; counter and LED in step |
| `DriverLifecycle` | 41 drivers, every failure | no leaks, double releases, unchecked uses, gaps and late work but those listed in `DriverTables`, each entry of which is needed; each table keeps the rules that the theorems ask for |
| `BbbGpio` | 2 users | nothing left, released lines untouched, LED dark, references counted |

**What the properties leave out, and why it is said there.** Several hold only
up to something the code really does wrong, and name it: `clobbered` (the second
`mutex_init`), `crossed` and `raced` (presses that meet in unlocked code), `old`
and `stray` (files that outlive a binding), `reused` (a cdev initialised under an
open file), `repressed`. The tables `KnownLeaks`, `KnownDoubles`, `KnownUnchecked`, `KnownGaps` and
`KnownLate` do the same for `DriverLifecycle`; taking any one entry out makes the
run fail, so they are also the list of what is wrong:
`kbd_tasklet` leaks its proc entry when `request_irq` fails and kills its tasklet
before freeing the interrupt; `005.c` leaks its first interrupt; the softirq
button leaks its gpio and softirq and does not wait for it; `myled` leaks class
and device; `013` and `001.c` delete cdevs that were not added; `task_dy`, `qw`
and `011` can be called before their tasklet, workqueue or mutex exists;
`tasklet_static` and `task_dy` can end a failed init with the tasklet scheduled;
`17` and `18` free their data under an open file when the second device fails;
`18` with a device-tree node loses its LED and deletes its cdev twice; the key
logger `002/001` closes its log before it frees the interrupt.
`KnownUnchecked` is what a driver fails to acquire, does not look at, and uses or
releases all the same: `app_workqueue` queues on, flushes and destroys a workqueue
it may not have, and frees an interrupt it may not have; `tasklet_static` deletes a
cdev whose `cdev_add` failed; `014` and the ADC driver of the BeagleBone Blue do so
with their cdev and destroy a class they may not have, the latter also frees its
device numbers unseen; `kbd_tasklet`, `007`, `008` and `023` remove a proc entry
they may not have created. Where exit does look first, as `17`, `18` and
`002/002.c` do, the table says so (`careful`) and nothing is excepted.

What is excepted is recorded, not caught: a property that excepts `clobbered`,
`crossed`, `raced`, `disturbed`, `hasty`, `together`, `old`, `stray` or `reused`,
or a `Known` list, says that the code is right everywhere else, and that these are
the conditions under which it is not. It would not notice the excepted hazard
being repaired, nor its being made worse under the same condition.

`TextDevice` has no table of exceptions but conditions. `OneText` asks nothing of
a reader whose device lacks one of the two locks and who was `disturbed`: a write
began during the read, or the buffer was `spoilt` before it by writes that met or
failed. `FreshText` excepts the `hasty`: those that a signal took out of the wait
of 014, or that had passed it before another reader emptied the device.
`NothingDropped` names the reads with which 014 drops a text: of fewer bytes, at a
spent offset, or with a fault. `LedAgrees` excepts the time from two writers
meeting at the LED (`together`) to the next that is alone at it. Without these
conditions each is violated.

`ReportsOnlyWhenLate` says what `app_workqueue.c` measures: its worker's delay,
not the hold of a key. A report for a key held long is impossible with a worker
in time, because every interrupt stamps `press_time` before it queues the work.
`DeafAtBoot` is the other surprise of time, and it depends on the build.
`last_press` is 0 before the first press, as if one had come in at `jiffies = 0`.
With a 32-bit `long` (the boards the directory names) `jiffies` starts five minutes
behind 0, so `tiny_gpiobtn.c` ignores every press of the first five minutes after
boot and one window more. With a 64-bit one, which is what the object files in the
directory were built for (`026/.tiny_gpiobtn.o.cmd`, `-m64`), `jiffies` starts at
`2^32 - 300*HZ`, ahead of 0: the first press is accepted at once, and the deaf
time comes only after nearly half a word of uptime, which nobody waits for. The
property states both: as long as no press was accepted, presses are ignored from
half a word before to a window after the wrap, as far as that lies after boot, and
half a word later again, and not at other times.

**Bounds.** `MAX_MSGS = 2` has an empty, a partly filled and a full ring and both
wraps; two tasks are enough for every pair of interleaved calls, and the theorems
cover any number. `CountSlack` bounds how far the counter is followed once the
mutex has been clobbered. `MaxTime = 2` with a window of 1 puts the tasklet
inside and outside the window. `LATENCY = 1` and a threshold of 3 let two holds
and a release fit in one sleep. Three tasks in `PressNotify` are a presser and
two sleepers, or two pressers and a reader; two presses are the fewest of which
one can be lost. `Boot = {4, 9}` with words of 12 and a window of 2 has one start
of either build: 4 keeps the order window < boot < half a word of a 32-bit `long`
(50 ms, 300 s, 2^31 ticks), 9 the order half a word < boot < word of a 64-bit one.
`COUNTS = 2` is the least counter that shows a press. `STALL` is how
long a writer may be held up between reading jiffies and storing it. `LATENCY` of
`WorkqPress` exceeds the threshold, so that there are reports, and with it stays
below half a word. Three cells in `TextDevice` are the fewest in which a longer
text can leave a tail behind a shorter one; the texts are 18's commands, which the
other devices do not tell from any others. An empty write is left out. Of four
drivers with the same features one is run. Three users meet in 014 only (a writer,
and two readers of whom one is hasty); `Crowd` keeps the third out of the others.
`MAX_COUNT` is how far 011's counter is followed.
`BLINK_DELAY` is arbitrary. Two users in `BbbGpio` are one file from before an
unbind and one from after.

**Fairness.** A thread inside a system call is scheduled (weak fairness of its
steps). `Lock` is strongly fair because the kernel's mutex hands itself over to
a waiter that was passed over; a spinlock is a ticket or queued lock, hence
strong fairness of the spinners in `KbdTasklet`. Pending softirqs run, and an
interrupt handler runs to its end. Timers expire and callbacks finish;
`del_timer_sync` in remove retries against a timer that re-arms itself half a
second ahead, which needs strong fairness: it finds the callback between two
runs infinitely often. No user is assumed ever to call, press or close.

## Proofs

TLAPS proves these for every value of the constants, from the assumptions named
in each module (sizes positive, names distinct). `FeatureAssumption` of
`TextDevice` says which features come together in the sources: who waits also
locks both sides (`014`), who counts locks its writes, checks its copies and
begins empty (`011`), who stores a length has none of these (`17`).
`MessageAssumption` and `KbdAssumption` of `KbdTasklet` keep "no message" and
the tasklet apart from messages and readers. `WordAssumption` of `Debounce` asks
that the window be at most half a word, beyond which signed differences mean
nothing, and that `jiffies` not start within a window of 0: 300 s before it with a
32-bit `long`, `2^32 - 300*HZ` after it with a 64-bit one, against 50 ms. On which
side of half a word it starts is left open. `TimeAssumption` of `WorkqPress` keeps a
worker's delay below half a word. TLC evaluates them on every run.

- `EnhChardevProofs`: `TypeCorrect`, `MutexExcludes`, `RingStaysConsistent`,
  `ImplementsQueue`. The ring's consistency is not inductive alone: between a
  task's check and its commit it relies on room (or a message) that was seen
  earlier, which `CallConsistent` states, and on nobody else being inside, which
  is `OneInside`; `FirstMutexIntact` says when `mutex_init` can have broken
  either. The four together with the types are the inductive invariant.
  Arithmetic modulo the ring size is isolated in lemmas. The refinement adds
  `PieceHeld`: what a reader past its copy holds is a piece of the message at the
  head of the queue, which nobody can have removed since. A commit is then a step
  of the queue, and every other step leaves the queue alone.
- `KeyboardProofs`, on the double-press detector: `TypeCorrect`, `MessagesAreWhole`,
  `NoKeyForgottenUnseen` and `IsMailbox`. `Locked` gives the spinlock one holder, `Whole` confines
  a difference between the halves of `proc_buf` to the holder's own steps, and
  `Carried` ties the tasklet's message to `prev_key` from the check to the clear:
  the handler leaves a latched key alone, so that nothing can change it in
  between. `proc_len` is the size of the second half whoever holds the lock, so that
  as many bytes are copied as the message has. The same invariant carries the
  refinement, one lemma for each actor: an
  interrupt is a press or a stutter, the tasklet posts and forgets, and a reader's
  copy of the second half is its take, because a box that is locked by a reader
  is whole; what it loads of `proc_len` later is the size of the box at that moment. On the long-press alert (the instance `L` of `MCLongPress`): `LongPressTypeCorrect`, `NoLongPressMissed` and
  `EarlyAlertsAreOfSecondPresses`. A hold that is not answered has a run to come,
  and `HoldOwed` bounds `held` by the time that run can still take: by the thread's
  place, what is left of its sleep and how long it has waited for a CPU. `SleptOn`
  is its counterpart from below: a hold that was not begun during the sleep has
  lasted for all of the sleep that is over.
- `BlinkLedPmProofs`: `TypeCorrect`; `StaysQuietAndDark`, from an invariant that
  says at which places of the driver core the timer may be armed and the callback
  under way; and `ImplementsBlinker`, each step a step of the blinker or none.
- `PressNotifyProofs`: `TypeCorrect`, `NoWakeupIsLost`, `PressesStayReadable`, `CountIsExact`.
  For the wake-up: sleepers are on the queue (`Queued`), and from the store of
  `data_ready` to the wake-up that empties the queue a task owes it (`Owed`).
  For the count: without a race at most one press is in the middle of its
  increment, and what it loaded is still the count (`Apart`).
- `PressTimeProofs`, on the run's composition of both press timers: `TypeCorrect`,
  `PressesApart`, `IgnoredOnlyWhenClose`, `DeafAroundTheWrap` and
  `LatenessIsReported`. Words wrap,
  so that neither driver's test says by itself what it means. `Timed` says that
  `jiffies - last_press` and the true time since the last accepted press are the
  same word (less the time from boot to the wrap while there was none), likewise
  what each writer has read of jiffies and how long it has been in the handler,
  and that these follow one another while no two have met; lemmas on equality
  modulo the word and on signed differences do the rest. `StampFresh` bounds the
  age of `press_time`, wherever a work that reads it may be, by the time since the
  interrupt that queued it.
- `BbbGpioProofs`: `TypeCorrect`, `EverythingGivenBack`, `LinesAreHeld`,
  `ReleasedIsDark`, `ReferencesMatch`. `HeldByPlace` says for every place of probe,
  of its error labels and of remove what the driver has there; `Current` what a
  handler's descriptors are as long as its file has not outlived the device; the
  reference count is the cardinality of the open files (`Counted`).
- `TextDeviceProofs`: `TypeCorrect`, `ReadsOneText`, `TextsAreFresh`,
  `TextsAreNotDropped`, `CountAgrees`, `SleepersAreWoken`, `LedStatusIsRight`, for
  any number of users and texts and for any set of drivers that satisfies
  `FeatureAssumption`. A writer that met no other has its text in the buffer as far
  as it has come (`Progress`); a buffer at rest is one text and a terminator
  (`AtRest`); a reader beside whom nobody writes (`Undisturbed`) has copied cells
  of that text and has only such cells ahead (`Copied`). `Handed` says that a
  waiting device whose text was taken is empty and that whoever is past its wait
  came there in haste. For the dropped texts, `Owed` adds what a reader in the
  mutex has still to copy: together with what it has, it is the text there. For
  the types, `Room` keeps a writer inside the buffer and a reader inside what it
  measured, the length of a string being a least index and so a matter of
  well-founded order.
- `DriverLifecycleProofs`: `TypeCorrect`, `NothingIsLeft`, `ReleasesAreOfWhatIsHeld`,
  `HandlersAreSafe`, `EndsAreFinal`, for any set of drivers whose tables keep
  `Rules`, which are a hypothesis of each of them; the table of a new driver could
  be checked alone, without its interleavings. For the 41 drivers of the
  repository the hypothesis is discharged: `TablesInOrder` shows table by table that
  they keep the rules but for what the `Known` lists name, `RulesAreKept` is the
  property of the run, and `RepositoryIsSafe` states the results without it. Most
  tables are in order for one reason, that every list releases backwards what has
  been acquired (`MirrorUndoes`, `PlainRules`, `MirroredInOrder`); what the others do
  instead is spelled out in a lemma each. The invariant
  follows both lists of a table: until a release begins, the driver has, or has
  ignored the lack of, all that the table is sure of up to init's place
  (`Loading`); from then on that less what the list has released so far
  (`Releasing`). `Users` says how far init has come when a file is open or work
  is due. `Noted` asks that, of what init may go on without (`Skipped`),
  `KnownUnchecked` name all that a handler uses or a list releases without a look;
  `Overlooked` is the matching part of the invariant. What the rules allow beyond
  that is what the other `Known` lists name.

Each of these modules proves that its invariant (`IInv`, `HoldInv`) holds
initially, that every action preserves it, one lemma for a conjunct or an actor,
and reads the properties off it. The invariants were checked on the runs' instances
before they were proved.

Only model-checked: the liveness properties (`CallsReturn`, `BatchIsClosed`,
`UnloadEnds`, `KeepsBlinking`, `CallbacksReturn`, `SleepersWake`); fairness and
`ENABLED` are out of the prover's reach. Every safety property and every refinement
that a passing run checks is a theorem.

## Not modelled

The texts the drivers print, device numbers, user programs that only consume
what they read, single register accesses of the board drivers, I2C and SPI
transfers, build products. The handlers of `024` set a flag and print two
counters that nothing else changes; those of `007`, `023` and `3_4_5_char_driver`
print constants or nothing; the counters of the interrupt demonstrations are not
followed, nor are the keys of the key logger, whose log has no bound to check
(`002/001/001.c:62` says so). Two toggles of `gpio_driver.c:94` that meet can
cancel out; it keeps no state that could then be wrong. Use of freed memory within
one expression (`17/platform_driver.c:261`, `18/mydt_driver.c:316`) has no state
to be seen in. `seek` and reads at a given offset are left out, and empty writes.
Kernel services are modelled by what the drivers rely on: mutex, spinlock,
tasklet, irq thread, workqueue, timer, wait queue, cdev reference counts, module
references.

## Plan

Done: `EnhChardev` (the most state under a lock), `KbdTasklet`, `LongPress`,
`BlinkLedPm`, `DriverLifecycle`, `PressNotify`, `Debounce`, `BbbGpio`; then
`TextDevice`, `WorkqPress`, and the tables of every driver that has an init.

Proved: what the section above lists.

Open: the violations are shown by their runs and not delimited further (a single
press is reported as double exactly when its tasklet runs within the window of the
time stored last, which is what `Verdict` says), and the liveness properties rest
on the small instances of their runs.
