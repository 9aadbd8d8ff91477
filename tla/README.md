# Verification of the macallan device code

This directory holds TLA+ models of the code the Kobo Arc 10HD tablet ("macallan") adds to
Android, the TLC configurations that check them on small instances, and TLAPS proofs of the results
that matter most. The repository is a device tree: most of its 290 files are configuration, media and
binaries. The program in it is the **power HAL** under `power/`, with the small lights HAL, the USB
gadget triggers of init and a few start-up scripts around it. Paths below are relative to the
repository.

## The system

### Power HAL on Tegra (`power/`, built as `power.macallan`)

Android calls the power HAL with *hints* (the user touches the screen, an application starts, the
audio path opens). The HAL turns each hint into *constraints* on CPU and EMC frequencies and on the
number of cores. A constraint is in force exactly as long as a device node (`/dev/cpu_freq_min`, ...)
is held open with the request written to it: **closing the descriptor is what ends the constraint**.

| component | state | operations | who calls it |
|---|---|---|---|
| `TimeoutPoker` (`timeoutpoker.cpp/.h`) | `mKey` and `mQueuedEvents` of the inner `PokeHandler`; the Looper's message queue and watched descriptors; open descriptors | `requestPmQosTimed`, `requestPmQos`, `createPmQosHandle`; three kinds of event run by `handleMessage`; `pipeCloseCb` | any thread of the process; the Looper thread |
| `Barrier` (`barrier.h`) | a mutex, a condition variable, `mOpened` | `open`, `close`, `wait` | the caller of `createPmQosHandle` and the Looper thread; the constructor of `PokeHandler` |
| power hints (`nvpowerhal.cpp`, `powerhal.h`) | `hint_time[]`, `hint_interval[]` in `powerhal_info` | `common_power_hint`, `check_hint` | Binder threads, no lock |
| start-up of the HAL (`nvpowerhal.cpp`, `power.cpp`, the constructors of `timeoutpoker.cpp`) | `pInfo`, the frequency table, `input_devs[]`, the Looper thread that is being started | `shield_power_init`, `shield_power_open`, `common_power_init`, `common_power_open`, `find_input_device_ids`, `readyToRun` | the framework: `init`, and `open` before it if it opens the device first |
| interactive mode (`power.cpp`, `nvpowerhal.cpp`) | sysfs nodes of input devices, the governor, cores and clusters | `shield_power_set_interactive`, `common_power_set_interactive` | the framework at screen on and off |
| SATA standby (`tegra_sata_hal.cpp`) | one descriptor at a time; the disk's power nodes | `hdd_set_standby_timer`, `hdd_disable_standby_timer` | `shield_power_set_interactive`, on devices with a disk only |
| CM power HAL (`power.c`) | `boostpulse_fd`, `boostpulse_warned` under a mutex, the governor name | `boostpulse_open`, `cm_power_hint`, `cm_power_set_interactive` | not in the macallan build (`Android.mk` lists `power.cpp`) |

How they interact: `common_power_hint` makes one to five calls of `requestPmQosTimed` per hint. Each
call puts an event into the queue of the Looper thread and returns. The Looper thread opens the node
and sends itself a second event with the delay, which closes it. `createPmQosHandle` puts the event in
and waits at a barrier until the Looper thread has opened the node, made a pipe, put its write end into
the Looper's watch set and stored its read end in the caller's stack frame. When the caller closes
its end, the Looper calls `pipeCloseCb`, which closes the other end and the node. `init` and `open`
construct the poker, and wait at another barrier until its Looper thread is ready.

### The rest

* **Lights HAL** (`liblights/lights.c`): the backlight level computed from a colour and written to
  sysfs under a global mutex which `open_lights` initialises each time.
* **USB gadget** (`init/init.macallan.usb.rc`): triggers that switch the gadget's function when
  `sys.usb.config` changes and report it in `sys.usb.state`.
* **Wi-Fi loader** (`system/bin/wifi_loader.sh`): finds the chip and links its firmware.
* Other scripts set properties once. Makefiles, overlays, key layouts, audio and Bluetooth
  tables are configuration without state.

### What is hard here, and what makes each component correct

* *TimeoutPoker.* Three parties (callers, the Looper thread, the kernel) share descriptor numbers, an
  event map with an int key, and, for handles, a stack frame. Events wait for seconds; meanwhile
  numbers are closed and given out again. Any of open, pipe and addFd may fail. Correct means: the
  key of each pending message finds its event; each pending close owns the number it will close; no
  descriptor is left open that nobody will close; the caller's frame is written only while the caller
  waits; requests are served in the order they were made; a constraint is held for its whole time and
  then released; a blocked caller gets an answer; closing a handle releases its constraint.
* *Barrier.* Correct means: no wakeup is lost; `wait` returns only if the barrier is open at that
  moment, although the condition variable may wake anyone at any time; the barrier, which lives in the
  waiter's frame, is not touched by `open` after the waiter may return.
* *Power hints.* The throttle in `check_hint` reads an array that is written at the end of the hint,
  without a lock; time is computed in a 32-bit long. Correct means: a bounded number of constraints in
  force at once, and no hint dropped unless one of its kind was sent shortly before.
* *Start-up.* `init` and `open` fill in the same `pInfo`, the second of them while hints use what the
  first has left there. The list of frequencies is read twice, and counted from -1 on its ending in a
  separator. A call waits for a thread that may not start. Correct means: no hint meets a poker
  without a Looper; hints ask for frequencies the device has; the boot is boosted to the greatest one;
  the calls return; each input device is found however often it is looked for.
* *Interactive mode and SATA.* Twenty writes or so, each of which may fail and is ignored, while the
  kernel hotplugs cores; a disk whose three settings depend on each other, with one error path for
  open and closed descriptors. Correct means: a call that gets through decides every setting; after
  screen off the cores stay off; no descriptor leaks and none of another thread is closed.
* *CM power HAL.* A descriptor is opened and closed under a lock and written to outside it, while the
  governor it belongs to may be switched off. Correct means: one descriptor at most and none leaked, no
  close of anybody else's, `configure_governor` complete for the governor that is boosted (its writes may
  still have failed), a dead descriptor replaced.
* *Lights.* Any thread sets the backlight under a mutex that `open_lights` initialises again and again;
  each system call may fail. Correct means: one writer at a time; the level is that of one of the
  callers; a call that failed says so, and leaves the mutex free; the failure is logged once.
* *USB.* Commands of a trigger read properties when they run, not when they were triggered.

`PROJECT.json` lists each hazard with its line and the properties aimed at it.

## The modules

| module | models | role |
|---|---|---|
| `LooperQueue`, `KeyedVector` | `android::Looper`'s message queue and `android::KeyedVector`, as far as the poker uses them (external) | helpers |
| `TimeoutPoker` | `timeoutpoker.cpp/.h` | the detailed specification of the service |
| `PmQosService` | what the service promises, without threads, events or descriptors | abstract |
| `TimeoutPokerRefines` | the refinement mapping from the first to the second | composition |
| `EventQueue` | the event queue of `PokeHandler`, statement by statement under `mEvLock` | detailed |
| `DelayQueue` | a queue of events with delays | abstract |
| `Barrier` | `barrier.h` at its mutex and condition variable | detailed |
| `Latch` | what a barrier promises | abstract |
| `PowerHint` | `check_hint` and `common_power_hint` | algorithm run by several threads |
| `Boostpulse` | `power.c` | detailed |
| `PowerModule` | `init`, `open` and what they call, with hints on other threads | detailed; composes `power.cpp`, `nvpowerhal.cpp` and the constructors of `timeoutpoker.cpp` |
| `SataStandby` | `tegra_sata_hal.cpp` | detailed, a part of the next |
| `InteractiveMode` | `setInteractive`: the writes, then the disk | composes `power.cpp`, `nvpowerhal.cpp` and `SataStandby` |
| `Lights` | `lights.c`, one system call at a time | detailed |
| `Backlight` | what the lights HAL promises | abstract |
| `MC*` | small instances for TLC | |
| `TimeoutPokerProofs`, `EventQueueProofs`, `BarrierProofs`, `PowerHintProofs`, `BoostpulseProofs`, `PowerModuleProofs`, `InteractiveModeProofs`, `LightsProofs` | theorems and proofs about the modules they are named for | |

### How they correspond to the code

**`TimeoutPoker`.** `mKey`, `mQueuedEvents`, `mMessages`, `mRequests` are the fields of `PokeHandler`
and of the Looper; `looper` is the Looper thread's place with its live locals; `files` says what each
descriptor number refers to; `call`, `done` and `ret` are the callers, their barriers and the `int ret`
in their frames. A caller's step is a call up to the point where it sends its event
(`RequestPmQosTimed`, `CreatePmQosHandle`), `WaitReturns` is the way back out of the barrier, and
`RequestPmQos` is the direct call. One delivery by the Looper thread is cut into the steps between
which others can act: `Receive` (Looper takes a message), `RemoveEventByKey` (the critical section in
which the event is looked up), then per event `OpenPmQosNode`, `ArmTimeout`, `TimeoutRequest`,
`MakePipe`, `ListenForHandleToCloseFd`, `Reply`, `Signal`, and for a hang-up `PipeCloseCb`,
`CloseHandle`, `CloseFd`. The file, the value written and the difference between the two interfaces
are left out: the control is the same. `LowestUnused` is the kernel's rule for descriptor numbers,
which is what makes the reuse of a number likely rather than rare. A `Tick` is a unit of uptime.

**`EventQueue`** repeats the part of this that `TimeoutPoker` takes in one action (everything under
`mEvLock`) with one action per statement, the load and the store of `mKey++` apart. Its refinement of
`DelayQueue` is the licence for the coarse actions of `TimeoutPoker`.

**`Barrier`** has one thread per call; every method is lock, steps, unlock, and `Condition::wait` is
`Sleep` and `Relock` with `SpuriousWakeup` between. In `TimeoutPoker` a barrier is a flag: `Latch` and
`OpenIsOver` are what justifies that, the second because the barrier lives in the frame that its
waiter leaves.

**`PowerHint`** has one action each for reading the clock, the test, each request and the store of
`hint_time`. `TimeOf` keeps the widths: the product is taken modulo `Narrow` (2^32 in the code) with a
sign and then widened to `Wide` (2^64). `RequestsOf` lists the requests of each hint in the code's order.
`inForce` is the table of descriptors and the request each is held for: `PmQosService` with a prompt Looper
thread. `latest` is a history variable, and so is the clock reading that each request carries.

**`Boostpulse`** has one action per statement of `boostpulse_open` and `cm_power_hint` that another
thread can notice, including the second read of `boostpulse_fd` as argument of `write` and the two
statements `close(fd)` and `fd = -1`. The governor of the kernel and files of other threads are
external. Each switch of the governor makes a new node, so that a descriptor of the node before is
dead. Any write to the node may fail. `configure_governor` is `Configure` and then one `Tune` for each
tunable: each is a `SysfsWrite` that goes through or fails, and fails without a trace if the governor has been
replaced. `tunable` holds the values; that a default could not be replaced (`"failed"`) is history.

**`PowerModule`.** `main` is the framework's thread inside `init` or `open`, with its locals; `pInfo` has
the fields of `powerhal_info` that somebody reads later, or is `NULL`; `hint` is what each hint thread
has loaded from it, `request` the latest request. Each step of `common_power_open` that a hint can
notice, or that may fail, is an action: a round of the search for input devices, the
constructor (`NewPoker`, `Prepare` and `OpenReady` of the thread, `StorePoker`), each reading of a file,
the two stores of the boost frequencies. `malloc` leaves `Garbage` in the fields, `calloc` 0. A text is
the sequence of the numbers of its words: what `strtok` and `atoi` make of it, the last word of the
kernel's list being its newline. A failed read leaves an error message, whose words are zeros. A hint
loads the poker and a frequency in any order, and its thread stands for all its requests. `failed` is
a history variable.

**`InteractiveMode`** takes the nodes in the order in which the code writes them (`Writes`), one
`SysfsWrite` each; `SkipDevice` is the `continue` of an input device that was not found; `knob` is what
the settings say. A node that cannot be written costs a fault,
`MaxFaults` per call. Of the kernel it has what the order of the writes is for: `Hotplug` brings any
secondary core online or offline as long as autosmp is not off, the LP cluster is active only without
secondary cores. The branch is that for Tegra K1, with neither legacy flag. `SetDisk` then does what
`access()` of the disk says. **`SataStandby`** has an action per system call, with every failure and the
label `done`; other threads open and close files in between.

**`Lights`** has an action per system call of `write_int` under `g_lock`, with the failures of
open and write; `OpenBacklight` initialises the mutex, `OpenOther` is a name that is refused.
`Backlight` knows calls and levels only.

## The plan

Modules were written in the order of what matters most on this device:

1. *Done.* `TimeoutPoker` with `LooperQueue`, `KeyedVector`, `PmQosService`; `EventQueue` and
   `DelayQueue`; `Barrier` and `Latch`; `PowerHint`; `Boostpulse`.
2. *Done.* `PowerModule`: the entry points, hints that arrive meanwhile, a second poker, a Looper thread
   that does not start, the parsing of the list of frequencies and the search for input devices.
3. *Done.* `InteractiveMode` with `SataStandby`; `Lights` with `Backlight`.

4. *Done.* A theorem for each safety property of a passing run, for each refinement, and for the safety half
   of those liveness properties that have one worth stating.

The USB triggers and the Wi-Fi loader stay out, see "What is not modelled". What is left to TLC is listed at
the end of "What is proved".

## What the runs show

Type invariants are checked by a run where they are part of an inductive invariant; `TypeOK` and `WarnedOnce` of
`Lights` are proved only. Every property of a passing run has a mutant: a plausible bug in one action or helper with which TLC
finds the property violated under the same configuration.

| run | instance | shows |
|---|---|---|
| `poker_safety` | 2 timed requests (timeouts 2 and 1), 2 handles, 1 direct, 5 descriptors; open and pipe may fail | the look-up of an event never fails (`EventForEveryMessage`); no `close` hits a descriptor that was opened for something else (`ClaimsHold`); nothing leaks (`NothingLeaks`); the caller's frame is alive when it is written (`FrameIsAlive`); the uninitialised `ret` is not returned (`ReturnIsWritten`); requests are served in the order they were made (`RequestsInOrder`) |
| `poker_service` | the same with 1 handle, `addFd` may fail | `ServiceSpec`: no timed constraint ends early, no constraint is dropped under its owner; `HandleCallReturns`, `TimedRequestExpires`, `ClosedHandleReleases`: callers return, timed constraints end, and so do those of handles that are watched and closed |
| `poker_listen_fails` | 2 timed requests, 1 handle, 1 direct, `addFd` may fail | violation, see below |
| `event_queue` | 4 senders with delays 0, 0, 1, 2 | `ChannelSpec`, `SentEventsRun` |
| `barrier` | 3 waits, 1 open, 1 close | `NoLostWakeup`, `OpenIsOver`, `LatchSpec`, `EveryoneGetsThrough` |
| `hint_throttle` | 1 caller, CPU boost, a clock that goes through both signs, any initial `hint_time` | of each request of a hint few descriptors are held at once (`HeldIsBounded`); no command is cut off (`CommandFits`) |
| `hint_drops` | 2 callers, any initial `hint_time` | `DroppedIsCovered` |
| `hint_wrap` | 1 caller, hints take no time (`PromptSpec`), a clock that repeats | violation of `BoostIsMaintained`, see below |
| `boostpulse` | 3 callers, 3 descriptors, 2 governors, 2 tunables, 2 switches, 1 foreign file at a time, any write may fail | `FieldIsDescriptor`, `ForeignStaysOpen`, `PulseIsConfigured`, `StalePulseIsClosed` |
| `power_start` | 2 calls of `init` and `open`, 1 hint thread, every list of up to 3 input devices, 4 frequencies, error messages of 2 and 5 words | a hint reaches a poker with a Looper (`PokersAreLive`), for a frequency that is high enough and exists (`HintFreqAvailable`); the boot gets the greatest one (`BootBoostIsMax`); the search finds the first device of each name (`DevicesFound`); `StartReturns` |
| `screen` | 3 entries of `input_devs`, 1 of them without a device, 1 failed write per call, 2 descriptors, a disk that may be there | `LastCallDecides`, `DarkIsQuiet`; of the disk `NothingLeftOpen`, `HostWaitsForDelay`, `ForeignStaysOpen` |
| `lights` | 3 threads, 2 colours | two threads never write at once (`OneWriter`); a call takes effect at one moment or says that it failed (`BacklightSpec`, which is about the failures: the level is written in one system call and would be so without the mutex); `SetReturns` |

### Bounds and why they are enough

* *Requests.* Each is made once; a repeated call is another request. Two timed requests with different
  timeouts let the later one expire first; two handles let one be answered while the other's number
  is reused; the direct one takes a number away at any moment.
* *Descriptors.* `MaxFd = 5` is less than the eight that all requests would need, so that descriptors
  run out between the open of a node and its pipe, and every number is reused.
* *Timeouts* of 1 and 2 units: only their order matters. The Looper's `due` counts down to 0 and stays.
* *Clock.* `Narrow = 8` with an interval of 2 lets the narrow product change sign half-way; `MaxUptime = 7` is the
  last value before it repeats (`hint_throttle`, `hint_drops`), 12 goes beyond (`hint_wrap`). A CPU boost
  lasts two intervals, so that requests of several hints overlap; an audio request lasts one unit in `hint_drops`, which
  is not about the time. `MaxUptime` bounds the clock, `MaxInForce` the requests of a hint with interval
  0, which nothing in the code bounds.
* *Switches.* `MaxSwitches = 2` lets a governor go and come back while a hint is between its write and
  its close. Three callers let one close a descriptor that a second has just opened, while the third is
  still about to write.
* *Calls.* `MaxCalls = 2` has each of `init` and `open` come first, and a second call while hints run; more
  calls repeat the second. Error messages of 2 and of 5 words are shorter and as long as the text of the
  4 frequencies, which lie below, between and above the two thresholds of the code.
* *Faults.* One failed write in each call of `setInteractive` already leaves any setting as an earlier call
  left it; the disk's failures are not bounded. Two descriptors let another thread take the number
  that has just been closed.
* *Colours.* One grey and one colour with an alpha byte; three threads let one hold the mutex and two wait.
* *Deadlock* is not checked where each thread makes a finite number of calls (`barrier`, `poker_*`,
  `event_queue`) or the clock ends (`hint_*`), or calls are bounded and the process may crash (`power_start`). It is checked
  in `boostpulse`, `screen` and `lights`.

### Fairness

* `TimeoutPoker`: time passes (`Tick`), the Looper thread runs (it is a thread of normal priority that
  blocks only in `pollAll` and on `mEvLock`, which is held for a few statements), and a waiter whose barrier
  is open runs. Nobody is obliged to make a request or to close a handle.
* `EventQueue`: a sender that holds `mEvLock` goes on; the Looper thread is not starved of it, because
  there are finitely many senders.
* `Barrier`: weak fairness for each thread. The mutex is free for ever or is asked for again only finitely
  often, so that no stronger assumption is needed.
* `Boostpulse`: a thread goes on with the hint it has begun.
* `PowerModule`: the framework's thread and the Looper threads that have been started are scheduled. Nobody
  has to call.
* `Lights`: a thread goes on with its call. A thread that waits for the mutex gets it if it is free again
  and again (strong fairness): a futex wakes its waiters, and the others leave the mutex between calls.
* `InteractiveMode` is a sequence of writes that do not wait for anybody; it has no liveness property.
* `PowerHint` has no liveness property: hints end because their requests are finitely many.

## What is proved

TLAPS checks the following for every value of the constants that satisfies the named assumptions of
each module: the sets of callers do not overlap, the values for "nothing" are not members of the sets they
stand outside of, bounds are naturals. TLC evaluates these assumptions in every run.

* **`TimeoutPokerProofs`**, in six steps.
  * `TypeCorrect`, `EventsMatchMessages`. The second is inductive together with the type invariant: a key is
    generated, put into the map and put into a message in one critical section, and leaves both in
    that order. Lemmas say what the operators of `LooperQueue` keep of a queue.
  * `ServedInOrder`: requests that were made first are served first. The invariant `Ordered` says why: the
    queue is sorted by due time, requests are due at once, and among them the keys ascend. A timeout that
    has become due stands between requests, but cannot change their order.
  * `EveryCloseIsOwned`, `FramesStayAlive`, `EveryReturnIsWritten`. `ClaimsHold` alone is not inductive:
    nothing in it says that two parties do not claim the same number, so that the close of one could break
    the claim of the other. The invariant is `TypeOK /\ EventForEveryMessage /\ Tokens /\ Frames /\ Owned`.
    `Tokens` says that each request is in one place at a time (one event, or the Looper thread, or a
    watched pipe), `Frames` ties that place to the caller's frame and to what is written there, and `Owned`
    is the claims of each place. A file names its request and its kind, hence two places with different
    requests cannot claim the same number.
  * `NoDescriptorLeaks` and `HandlesAreWatched` assume `ListenMayFail = FALSE`: the code breaks both
    otherwise, and `poker_listen_fails` refutes the second. For that one the invariant follows a handle from its pipe to the close: the pipe is watched
    before its read end is handed out, and its write end does not hang up while somebody has the read end,
    so that `pipeCloseCb` never runs for a handle that is in use.
  * `NobodyWaitsInVain`, the safety half of `HandleCallReturns`: a caller at its barrier has its event in the
    queue, or the Looper thread is on its way to answer it, or the barrier is open. Together with `Tokens`
    this makes a wakeup that is lost impossible, not only unlikely to be met on a small instance.
  * `ImplementsService`: `TimedSpec` implements `PmQosService` under the mapping of `TimeoutPokerRefines`, with
    failures of open, pipe and addFd. There is a lemma for each action, which says which action of the
    service it maps to or why it maps to none. The steps that do not depend on a descriptor follow from
    the invariant above. The rest needs three more facts: a request has one open node at most, and
    none while it is still pending (`Nodes`); a caller that has a handle has the constraint, from the
    moment the reply is on its way (`Backed`); and the Looper thread closes a node only after the caller
    has given up its handle (`Closing`). Without the last one the mapped step would drop a constraint under
    its owner.
* **`EventQueueProofs`**: `QueueIsDelayQueue`, that the statements under `mEvLock` implement `DelayQueue`, for
  any number of senders. The invariant adds `Turns` (who is in the critical section holds the lock), `Keys`
  and `NewKeys` (keys are distinct, stand for an event and lie below `mKey`, and the key that a sender is about to use
  has not been used), `InOrder` and `Sent`. The step that puts the message into the queue is the one that sends; the
  step that takes a message off is the one that receives, long before the event is looked up. `NoEventIsLost` and
  `NoEventRunsTwice`, the safety half of `SentEventsRun`, follow from one more invariant, `Places`: an event that was stored is
  under one key, or with the Looper thread, or has run, and in one of these places only (`OnePlace`, `SomePlace`);
  and each key has a message to come that will look it up (`Messages`).
* **`BarrierProofs`**: `MutexIsExclusive`, `WakeupsArrive`, `OpenEndsFirst`, and `BarrierIsLatch`, that
  every step of `Barrier` is a step of `Latch` or none. The invariant adds `Roles` (a waiter that leaves still
  sees the barrier open) and `Order` (with a single `open()`, a waiter leaves only after it has returned).
* **`PowerHintProofs`**: `DropsAreCovered`. For any number of threads, as long as the 32 bits of the clock do
  not repeat (`ClockFits`; the change of sign after half of them is included), a dropped hint had a predecessor
  within its interval, or met an uninitialised `hint_time`. The invariant says that `hint_time` may be older than the latest hint but never newer,
  which holds although a slow thread may overwrite a newer time by an older one. `InteractionIsMaintained`: under
  `ClockFits`, with `hint_time` zeroed and an interval no longer than the boost (90 and 100 ms in the code), a dropped interaction finds the boost of an
  earlier one in force; `hint_wrap` shows that `ClockFits` is needed. The invariant (`Boosts`) adds that the boost of an interaction that was sent is in force for its time after the
  clock was read. `FewAreHeld`: under `ClockFits`
  and with a single caller, `HeldIsBounded`, for any intervals and any times. The invariant (`OneCaller`) adds that `hint_time` is the
  latest reading, and that of two requests of the same number the later was read after the earlier was made, an interval
  apart or on the other side of the change of sign. The readings within the time of a request, divided by the
  interval, are then different numbers below the quotient of the bound, or one more after the change of
  sign; and at most one request was read earlier, by a caller slow to make it. A single caller is what the property needs: with two, both may pass the test before either stores its
  time. `CommandsAreWhole`: no command is cut off by `COMMAND_SIZE`, for any frequency and any clock; what is yet to be
  sent is always made of the requests that `RequestsOf` lists, and a number has ten digits at most.
* **`BoostpulseProofs`**: `TypeCorrect`, `OneDescriptor`, `ForeignFilesStay`, `PulsesAreConfigured`. The invariant adds to
  `FieldIsDescriptor` the phases under the lock: the field is -1 while the node is about to be opened and
  names no node while it is about to be reset. For `PulsesAreConfigured` it adds `Tuning`: between the open of a node
  and the last write to a tunable the governor's name is the one that was read before, unless the governor
  has been switched and the node is dead; and the tunables that `configure_governor` has been through are
  written or have failed. That all of them are written is not claimed, because it is not so.
* **`PowerModuleProofs`**: `TypeCorrect`, `HintsReachLivePokers`, `HintsAskAvailable`, `BootAsksMax`,
  `InitFindsDevices`, for any number of calls and hint threads, any ascending list of frequencies and any input
  devices. They are not inductive by themselves. The invariant adds `Started` (from the first return on, and in
  each call once it has stored its poker, `pInfo` has one that runs; hints are there only then), `Table` (the table has
  `num_available_frequencies` entries and is the list unless a read failed) and `Boosts` (the frequencies that
  hints may load are fine at every moment at which they may, and so are those they have loaded). `InitFindsDevices` has an
  invariant of its own, `Search`: an entry that was found, by whichever call, is the first of its name; one
  that was not is none of those looked at; and the count that ends the search is at most the number of entries
  found. The last part is why a second search, which counts from 0 over entries that are already set, still ends
  with all of them. `BootReadsTable` says that the lookup for the boost stays in the table, whichever reads fail;
  `NobodyWaitsForAnother`, the safety half of `StartReturns`, that a call waits for a thread that has yet to open the
  barrier or has opened it, if it is not dead. Its invariant numbers the pokers by the calls that made them, which
  also shows that `MaxCalls` pokers are enough for the model.
* **`InteractiveModeProofs`**: `LastCallWins`, `DarkStaysQuiet`, for any entries of `input_devs` and any number of
  failures, and of the disk `DiskCallsLeaveNothingOpen`, `HostHasDelay`, `ForeignFilesStay`, for any number of
  descriptors. The first two speak of the end of a call, so the invariant speaks of its middle: what a
  call without a fault has written so far says what its argument says (`Written`), and for screen off each core
  that has been passed is offline, which autosmp cannot undo because it was switched off before
  (`Dark`). For the disk `OneNode` says that exactly the descriptor of the call in progress refers to a node, also at the
  label `done`, and `DelayFirst` that the delay has been written once the host's control is reached.
* **`LightsProofs`**: `TypeCorrect`, `WritersExclude`, `LoggedOnce`, and `LightsIsBacklight`, the refinement, for any
  number of threads; `BrightnessIsByte` and `GreyKeepsLevel` about `rgb_to_brightness`. The invariant adds `Phases`:
  what a call knows of its error at each place, and that a warning is there only if the flag is set or about
  to be. That the backlight is opened only while nobody is inside comes out of it, from the assumption that
  the framework closes a device it no longer uses.

Only model-checked:

* the liveness properties `HandleCallReturns`, `TimedRequestExpires`, `ClosedHandleReleases`, `EveryoneGetsThrough`,
  `SentEventsRun`, `StalePulseIsClosed`, `StartReturns` and `SetReturns`: liveness under fairness is out of the
  prover's reach. For `HandleCallReturns`, `ClosedHandleReleases`, `EveryoneGetsThrough`, `SentEventsRun` and `StartReturns` what a
  step could break is proved (`NobodyWaitsInVain`, `HandlesAreWatched`, `WakeupsArrive`, `NoEventIsLost`,
  `NobodyWaitsForAnother`); that the threads get there is left to TLC;
* the two violations below.

Every safety property of a passing run has a theorem. The condition of each is part of its statement: `ListenMayFail` where
the code needs `addFd` to work, `ClockFits` for the hints, one caller for `FewAreHeld`.

## Where the code and its comments disagree

* **`poker_listen_fails`** (`timeoutpoker.cpp:42`): `createHandleForFd` calls `listenForHandleToCloseFd` and
  drops its result; the test after it looks at what `pipe` returned. Line 285 says "Reverse arity of
  result to match call-site usage". When `addFd` fails, the client gets a handle nobody watches. The trace
  ends there; that closing the handle releases nothing is inferred from it, since only the Looper's callback closes the node.
* **`hint_wrap`** (`nvpowerhal.cpp:110`): the product in a 32-bit long repeats every 71.6 minutes. An
  interaction at just that distance from the last one, whose requests were sent at once and are long over, is
  dropped although nothing is in force. Lines 205-207 say that the interval is "slightly shorter than the
  duration of the interaction boost so that we can maintain is constantly during interaction". In the
  trace time passes only between hints, so that no late send or store plays a part: the interaction at 1 is sent
  and stored at 1, its requests are over at 5, the one at 9 is dropped.

Observed and not worth a run of their own: the request for the EMC clock of an interaction is sent last,
the comment at `nvpowerhal.cpp:405-407` wants it first; `hint_time` may go back (see above), while
`powerhal.h:103` calls it the time of the last hint; a reading of exactly 0 means "never"; a write to
`boostpulse_fd` may reach a number that another thread has got since; `boostpulse_open` configures the
governor only if the descriptor is above 0 (168) but uses it from 0 on (192); a write to a tunable that fails is
only logged (71-90), the pulse is used all the same, and nothing repeats the write until the node is opened again, so that a
governor may be boosted that is not tuned or only in part; configuring the governor
sets `notify_on_migrate` to 1 even if the screen is off.

Further, from the later modules: the low power hint (`nvpowerhal.cpp:464`) uses the interface with a priority for
nodes that `timeoutpoker.h:46-55` lists under the other one, and passes its caps as minimum; if the second
reading of the frequencies has fewer words than the first, `atoi` gets a null pointer and the process ends (the
state `crashed`); if the first fails, the words of the error message are counted, and an empty text
makes the count -1 or 0, an index before the table; the result of `Thread::run` is ignored, and if the thread or its
`Looper::prepare` fails `init` waits for ever; `init` after `open` loses the first poker, whose thread and
pending requests go on; `init` without `open` leaves `hint_time` and `hint_interval[VSYNC]` as `malloc` found
them; opening the backlight a second time while `set_light` runs would free the mutex under it.

## What is not modelled

* The USB triggers (`init.macallan.usb.rc`): what they do is decided by the trigger queue of init and by the
  kernel's gadget driver. Neither is in this repository, and no code here shows their semantics.
* `wifi_loader.sh` and the other scripts: they work from top to bottom on kernel modules, firmware links and
  properties that lie outside the repository. `wifiloader` has no `oneshot` (`init.macallan.rc:368`), so that init
  starts it again whenever it ends; what a second pass finds is decided by those links and modules. Other init files are lists of commands; makefiles,
  overlays and tables are configuration.
* `POWER_MODE_SET_INTERACTIVE`, the legacy flags and the branches for Tegra X1 and Tegra 4: code this
  device does not build or run.
* Functions without a caller: `hdd_get_temperature`, `set_light_notifications`, `write_string`, `read_string`. `setFeature`
  only logs. The property helpers are single calls of the property library.
* What the framework is taken to do: hints and `setInteractive` come after the first call of `init` or `open` has
  returned, `setInteractive` one call at a time, the backlight is opened once until it is closed. The
  kernel's cores, clusters and governors are external too.
* Memory: reference counts of the events and the poker (`sp<>`), and allocation failure. The wrap of the
  int `mKey` after 2^32 events: the models let keys grow.
* The 256 bytes to which `sysfs_read` cuts the list of frequencies (`nvpowerhal.cpp:136`): the list of this device
  fits.
