# Verification of the EmbeddedLinuxDrive drivers

TLA+ models of the Linux drivers in this repository, the model-checking runs
over them, and proofs checked by TLAPS. Paths below are relative to `src/`.

The drivers are small; what is hard about them is *when* their functions run.
Interrupts, timers and tasklets preempt them; probe fails half-way; processes
keep files open while a module is unloaded or a driver is unbound; several
processes share one device structure or one buffer without a lock. The models
keep all of that control and abstract the data: a written byte is "on" or
"off", a byte of a sensor is the number of the measurement it stems from, a byte
of a disk is the name of the process that wrote it. Where a conversion is what
can go wrong, in the IIO drivers, values keep their true widths.

## 1. Inventory

| Component | Source | State it keeps | Operations | Module |
|---|---|---|---|---|
| Timer_Tasklet LED | `platform_driver/Timer_Tasklet/timer_tasklet_platform.c` | pin, `led_status`, timer, tasklet, acquired resources | probe, remove, `led_write`, `timer_callback`, tasklet function | `TimerTasklet`; with the other LED drivers: `LedDrivers` |
| key_input | `InputSubsystem/key_input/key_input_platform.c` | pin, interrupt, debounce timer, input device | probe, remove, `key_irq_handler`, `key_timer_function` | `KeyInput` |
| evtest | `InputSubsystem/key_input/evtest.c` | a descriptor of the input device | open, read loop | `KeyInput` (`Client...`) |
| gpioled | `platform_driver/Toggle_GPIO/gpioled_platform.c` | pin, acquired resources | probe, remove, open, write, release | `LedDrivers` |
| led_misc | `platform_driver/led_misc/misc_platform.c` | pin, misc device | probe, remove, open, write | `LedDrivers` |
| ledApp | `platform_driver/Toggle_GPIO/ledApp.c` | a descriptor | open, one write, close | `LedDrivers` (its processes) |
| ramdisk without queue | `block/ramdisk/ramdisk_noreq.c` | buffer, block device | init, exit, open, `make_request` | `RamdiskNoreq` |
| ramdisk with queue | `block/ramdisk/ramdisk_wreq.c` | buffer, block device, queue, lock | init, exit, open, `request_fn`, transfer | `RamdiskWreq` |
| ap3216c_demo | `miscdevice/ap3216c_i2c_sensor/ap3216c_demo.c` | `private_data`, one structure of values | probe, remove, open, read, release | `MiscSensors` (`kind = "demo"`) |
| ap3216c regmap | `regmap/ap3216c/ap3216c_regmap.c` | regmap, one structure of values | the same | `MiscSensors` (`kind = "regmap"`) |
| icm20608 regmap | `regmap/icm20608/icm20608_regmap.c` | regmap, one structure of values | the same, `reginit` | `MiscSensors` (`kind = "icm"`) |
| sensor applications | `ap3216cApp.c` (two), `icm20608App.c` | a descriptor, the values of a read | open, endless read | `MiscSensors` (`App`) |
| IIO ap3216c | `iio/ap3216c/ap3216c.c` | regmap, IIO device | probe, remove, `read_raw` | `IioSensors` (`kind = "ap"`) |
| IIO icm20608 | `iio/icm20608/icm20608.c` | regmap, IIO device, one structure of values per device | the same | `IioSensors` (`kind = "icm"`) |
| ADC notes, build files | `iio/adc/README.md`, `*/Makefile` | none | none | none |

### How the parts interact

- **Driver core and module loader.** `insmod` registers a driver, and the core
  calls `probe` when the device is free. `rmmod` is refused while a file whose
  `fops->owner` is the module is open; otherwise the core calls `remove`. The
  `bind` and `unbind` files of sysfs call the same functions *without* looking
  at the use count, which is how a file outlives the driver it belongs to.
- **gpioled, led_misc and the Timer_Tasklet driver** match the same node,
  `atkalpha-gpioled` of `final.dts`: one of them is bound at a time, and they
  share the pin.
- **Timer, tasklet and process.** `timer_callback` schedules the tasklet and
  re-arms itself; the tasklet flips `led_status` and drives the pin; `led_write`
  drives the pin, stores `led_status` and calls `del_timer`. No lock is taken.
- **Interrupt and timer.** `key_irq_handler` only re-arms a timer;
  `key_timer_function` samples the pin and reports. The input core keeps the
  state of the key and repeats one that is down (EV_REP). A descriptor has a
  buffer of events, which drops what it holds when it is full, and keeps the
  input device in memory.
- **Block layer.** It hands bios to `make_request` in the process that submits
  them, or merges them into requests and calls `request_fn` under the queue lock.
- **IIO core.** It creates sysfs files whose handlers call `read_raw`. No file
  of sysfs holds the module, and nothing orders `read_raw` against `remove`
  except `iio_device_unregister`, which neither driver reaches.
- **Sensor bus.** Registers are read one at a time; transfers may fail;
  `misc_open`, `misc_register` and `misc_deregister` exclude each other through
  `misc_mtx`.

### What is hard, and what makes each component correct

| Component | Hard behaviour | Correct when |
|---|---|---|
| Timer_Tasklet | softirqs in the middle of `led_write`; a tasklet left over after `del_timer`; `remove` against a timer that re-arms itself; six failing steps | an undisturbed write stays in force; nothing runs after `tasklet_kill`; the chain never breaks by itself; the pin is driven only while it is requested; nothing leaks |
| key_input | edges at any moment, also inside probe, remove and the timer function | reports are debounced and settle to the state of the key; bad memory is used only from two known windows; nothing is left after unbinding |
| evtest | reading late, one event at a time, from a buffer that may overflow or whose device is gone | having read everything it shows the state of the key, unless the last event was dropped |
| LED drivers | three drivers for one pin, stale descriptors, failing probes | no leak; no node without its pin, as an output (but for led_misc); exclusive unless sysfs is used; off after `rmmod` |
| RAM disks | unlocked copies of several processes; partial completions of merged requests; failing init | a byte store (or one with atomic requests); buffer and queue outlive the bios; every bio ends |
| sensors | readers sharing one structure, `open` resetting a chip others read, nodes registered too early, failed transfers, unbinding under an open file | values not older than the overlapping reads; other bytes only after a failed transfer; the chip enabled for whoever uses it; bad pointers only in two known ways |
| IIO drivers | readers sharing one structure, failing transfers, files that outlive the device, conversions at the ends of the range | a read returns what the chip holds or an error; bad pointers only in two known ways |

`PROJECT.json` lists each hazard at its line with the properties that watch it.

## 2. Modules

    Ladder        acquire / fail / release: the init and cleanup of a driver
    Driver        Ladder with the module loader and the bind and unbind files
    BlockStore    abstract: a store of bytes and requests on it
    Bvecs         the segments of a bio, and theorems about their sum
    SensorBytes   the sensors' register bytes and how the drivers decode them
    TimerTasklet  KeyInput  LedDrivers  RamdiskNoreq  RamdiskWreq
    MiscSensors  IioSensors
    MCMiscSensors  MCIioSensors                    symmetry and values for TLC
    TimerTaskletProofs  KeyInputProofs  LedDriversProofs
    RamdiskNoreqProofs  RamdiskWreqProofs
    MiscSensorsProofs  IioSensorsProofs            theorems, proved by TLAPS

`Driver` extends `Ladder`. `MiscSensors` and `IioSensors` instantiate `Driver`
for the driver at hand (`Core(k)`), `LedDrivers` instantiates `Ladder` once per
driver (`Life(d)`), because its three drivers compete for one device, and the
RAM disks, which have no device to probe, once each (`Life`). `IioSensors`
extends `SensorBytes`, both RAM disks extend `Bvecs`. `RamdiskNoreq` implements
`BlockStore` with `Whole <- FALSE` and `RamdiskWreq` implements it with
`Whole <- TRUE` (`Store`, the refinement mapping). A configuration file has the name of its module, with a
suffix when it belongs to a single property.

Conventions. An action is one stretch of code between two points at which
another context can observe or change the shared state; its guard is the
program counter plus the conditions of the code. A *history variable* is read
by no guard and serves the properties only; each module marks its own.
(`MiscSensors` has one exception: `fault = "open"` is also the reference and
the mutex that a process killed in `open` keeps.) An
operator `X_Slip` beside an operator `X` reads `X` as a plausible programming
slip would have left it. Nothing refers to it; with it in place of `X` the
property named in `PROJECT.json` fails, which shows that the property says
something about that line of code.

### TimerTasklet

- `core` is the program counter of probe and remove, `held` what they have
  acquired, `modstate` the module loader's state. One `ProbeStep`/`ProbeFails`
  pair covers probe (lines 158-232) through the tables `Acquires` and `UndoneBy` (the
  `goto` labels); `StartTimer` is lines 212-221; the `Remove...` actions follow
  lines 239-255 in order.
- `timer`, `tasklet` and `softirq` are the timer wheel, the tasklet list and the
  handler that is running. `TimerCallback` and `TimerRearm` split
  `timer_callback` at the re-arming, `TaskletToggle` and `TaskletSetGpio` split
  the tasklet function at the store to `led_status`.
- `WriteGpio`, `WriteStatus` and `WriteDelTimer` are `led_write` (lines 118-138).
- On the single-core i.MX6ULL a process does not run while a softirq handler
  does: `Ready`. `Smp = TRUE` drops that.
- `manual`, `writer`, `shown` and `byHand` are history.

### KeyInput

- `core` is the program counter of probe and remove. `timer` counts the jiffies
  to expiry; `handler` is the value that the timer function has sampled but not
  yet reported; `timerfn` says whether `init_timer` has run.
- `Edge` is the key moving *and* `key_irq_handler`: the handler preempts
  everything on one core. `TimerSample` and `TimerReport` split
  `key_timer_function` between `gpio_get_value` and `input_report_key`.
- The input core is external: it keeps the state of KEY_0, releases the key when
  the device is unregistered, and frees the device with the last reference.
  `fault` records the first illegal use of memory.
- `queue` is the event buffer of evtest's descriptor: a report puts a key event
  and a sync into it (`Packet`), and an event that fills it replaces all others
  by SYN_DROPPED (`Queued`, as evdev does). `ClientRead` is one turn of evtest's
  loop (lines 28-42), one event each, including the turn whose `read` fails:
  `ev` keeps what it held, or was never set. `shown` is the EV_KEY line it
  printed last.
- `since`, `seen`, `window` and `news` are history.

### LedDrivers and Ladder

- `at` and `held` come from `Ladder`. `Acquired`, `UndoneBy` and `Released` are
  the order of probe, the labels, and the order of remove of each driver;
  `"led"` stands for `gpio_direction_output` and for the `gpio_set_value` that
  turns the LED off. The Timer_Tasklet driver takes part with its own tables and with
  `Blink`, its tasklet at any time while it is bound; the details of its timer
  are in `TimerTasklet`. led_misc ignores the result of `gpio_direction_output` (line 82), so
  its `"led"` step goes on either way, and after a failure the pin stays what it
  was.
- The device is handled under the device's lock, so there is a single binding.
- `output` is the direction of the pin, anything at first. `GpioSet` is
  `gpio_set_value`, which moves nothing on an input; `Drive` is the same by the
  driver that holds the pin, and notes the level in `set`. `gpio_free` does not
  change the direction.
- `LedWrite` gives the pin one of `Levels`. A byte that a driver ignores, and a
  copy that fails, is one of these or no step at all.
- `set` and `byHand` are history.

### RamdiskNoreq, RamdiskWreq and BlockStore

- A bio has a direction, a first sector and a list of segment lengths; its data
  says which process wrote it. `CopyByte` is one byte of the `memcpy` of
  `make_request` (nothing orders it against other processes); `Transfer` is one
  whole `ramdisk_transfer`, because it runs under the queue lock.
- In `RamdiskWreq` the elevator is external: a bio becomes a request of its own
  or joins one it adjoins, at the front or at the back (`Placed`), and
  `blk_fetch_request` may return any waiting request. `EndCur` is
  `__blk_end_request_cur`: it completes a segment, the loop stays with the
  request until it says that nothing is left.
- `BlockStore` says what users rely on: each byte of a request is moved exactly
  once, from or to its own place, before the request ends with success, and a
  fresh disk reads as zeros. With `Whole` all bytes of a request move in one
  instant. The mapping of `RamdiskWreq` puts that instant at the copy of the
  bio's first segment: from there on the remaining bytes count as moved.

### Driver and MiscSensors

- `Driver`: `mod` is the module loader's state, `at` and `held` are `Ladder`'s.
  `Acquires(r)`, `Does(r)`, `Fails(r)` and `Releases(r)` are the steps of probe
  and remove by name, so that a sensor module says what else each step changes.
- `kind` picks the driver, fixed at the start of a behaviour; `Acquired`,
  `UndoneBy` and `Released` have a row for each. Every access goes through
  `private_data` (`client`) or through the regmap (`HasChip`).
- `reg` is the number of the measurement that the data registers hold. A read
  goes register by register (`FetchReg`), then stores each channel in the shared
  structure (`StoreChannel`), then copies the channels out (`LoadChannel`).
- `OpenDemo`/`EnableDemo` and `OpenRegmap`/`EnableRegmap` are the two halves of
  `open`, 50 ms apart; `OpenIcm` does nothing to the chip.
- Any transfer may fail, up to `Failures`. What each driver does then is as in
  the code: the demo driver ignores it, the regmap AP3216C driver gives up in
  `open` and ignores it in `read`; an unread byte is `Bad`.
- `App` is the loop of the three applications: they take every read that returns
  `sizeof(data)` for data.

### SensorBytes and IioSensors

- `SensorBytes` has two halves. `IrBytes`, `AlsBytes`, `PsBytes` and `AxisBytes`
  are the chips (external, from the data sheets as the drivers use them):
  values of 10 or 16 bits and flags in two registers. `IrValue`, `AlsValue`,
  `PsValue` and `AxisValue` are the shifts, masks and casts of the drivers.
- `IioSensors`: `meas` is the measurement the registers hold, with all values at
  full width. A read fetches every data register (`FetchReg`), and an error ends
  it (`FetchFails`); the AP3216C driver then decodes the channel asked for out
  of its own buffer (`ConvertAp`), the ICM20608 driver stores all channels in
  the structure of the device (`StoreAxis`) and returns one (`LoadAxis`).
- `made`, `oldest` and `rd[p].dev` follow IIO devices beyond the binding that
  made them: the files of a device stay, its regmap goes with the binding
  (`HasRegmap`), its code with the module (`HasCode`). Until a new binding
  has registered its device, its regmap serves no file (`Unregistered`).
- `RemoveAp` is line 214 of the AP3216C driver: the driver data is null, the
  process dies, and whoever unloads the module next waits for ever. `RemoveIcm`
  does nothing but let devres free the regmap.
- `own` and `moved` in a read (has the chip's data changed during it, or during
  a read it overlaps?) and `failed` are history.

## 3. Runs

| Run | Instance | Checks |
|---|---|---|
| `TimerTasklet` | 2 processes, one core; 17 096 states | `TypeOK`, `Ladder`, `Quiesced`, `FilePinsDriver`, `AutoChain`, `WriteSticks`, `DrivesOwnedPin`; fair: `Blinks`, `CoreReturns` |
| `KeyInput` | delay of 2 jiffies, buffer of 8 events; 139 008 states | `TypeOK`, `Settled`, `NoFault`, `NothingLeft`, `CaughtUp`, `Debounced`; fair: `StableKeyShown` |
| `LedDrivers` | 3 drivers, 2 processes; 8 595 states | `TypeOK`, `NothingLeaked`, `NodeHasPin`, `ExclusiveUnlessByHand`, `OffWhenUnbound` |
| `RamdiskNoreq` | 2 processes, 2 sectors of 2 bytes; 46 602 states | `TypeOK`, `NothingLeaked`, `BufferOutlivesBios`, `StoresBytes` (refinement); fair: `BiosEnd` |
| `RamdiskWreq` | the same; 8 135 states | `TypeOK`, `NothingLeaked`, `BufferOutlivesBios`, `InOneRequest`, `StoresRequests` (refinement); fair: `BiosEnd` |
| `MCMiscSensors` | 2 processes, 1 channel, 2 measurements, 1 failed transfer; 5.8 million states | `TypeOK`, `NoFault`, `SensorOn`, `NotStale` |
| `MCIioSensors` | 2 processes, 2 devices, 1 further measurement, values at the ends of their ranges; 4.6 million states | `TypeOK`, `NoFault`, `ReadExact` |

Five more runs each show that the code does not do what one of its comments or
READMEs says (section 6). Deadlock is checked in every run: the systems never
have to stop. A process that was killed inside `open` (an oops) leaves `misc_mtx`
locked; `Hung` makes that end state explicit. In `IioSensors` the process that
dies in `RemoveAp` is what goes on for ever.

### Bounds, and why they are enough

- **Two processes** (`Procs`, `Clients`): every property is about a process and
  one other that interferes; the model has no object that counts processes.
  `TimerTasklet_WriteTurnsLed` and `_WriteStopsTimer` need only one.
- **Delay = 2** jiffies: bounces that push the expiry back and an expiry that is
  one jiffy old are distinct. On the board `msecs_to_jiffies(10)` is 1 at HZ=100;
  the theorems cover every delay.
- **Buffer = 8** events: four packets, so that a reader lags behind by several
  reports and repeats, and the overflow comes at a key event or at its sync
  depending on where the reader stands. The kernel's is 64; the theorem about
  `CaughtUp` covers every size.
- **Two sectors of two bytes**: the smallest disk on which two bios can overlap,
  adjoin (front and back merge), have an offset other than zero, and consist of
  two segments; a sector of one byte would hide a forgotten `<< 9`.
- **Channels = 1, Conversions = 2, Failures = 1**: a channel has two registers,
  so a value can be torn, and it can be stale by one or two measurements. One
  failed transfer reaches every error return.
- **Devices = 2, Changes = 1** in `MCIioSensors`: a file of an earlier binding
  next to one of the current, and a measurement that replaces another in the
  middle of a read. `MCLight` and `MCMotion` are the ends of the ranges and
  values that use each part of both bytes, with and without the overflow flag;
  what lies in between is covered by the theorems of `IioSensorsProofs`. One axis
  (`MCAxes`): the loops over the axes do not differ, and two readers of one axis
  already overwrite each other's value.
- `Segments` lists the bvecs considered: one sector, two, and two in two pieces.
  The theorems cover every size of a sector and of the disk, for these shapes.

## 4. Fairness

- `TimerTasklet`: weak fairness of the timer callback and of a running handler
  (interrupt hardware). Strong fairness of the tasklet and of processes inside
  probe, remove and `led_write`: the timer fires every ten seconds only, so each
  gets the processor between two expiries although a handler interrupts it again
  and again. The exception is `tasklet_kill`: its return is weakly fair, for
  nothing makes it look at the tasklet between two expiries, and a timer that
  schedules the tasklet again and again may keep it waiting for ever. That
  `CoreReturns` holds is due to the `del_timer` before it (line 243), and fails
  without. Opening, writing and loading are never obliged to happen.
- `KeyInput`: time passes, an expired timer runs, probe and remove go on, and so
  does an evtest that has something to read. Nobody has to open the device, and
  the key is not obliged to move or to rest: `StableKeyShown` assumes a key that
  does rest.
- `RamdiskNoreq`: a process inside `make_request` goes on; the function never
  waits. `RamdiskWreq`: the block layer runs a queue that holds requests, and
  `request_fn` goes on. Nothing is assumed about the order the elevator picks.
- `LedDrivers`, `MiscSensors` and `IioSensors` have safety properties only and
  assume no fairness, which is also why symmetry is sound in `MCMiscSensors` and
  `MCIioSensors`.

## 5. Proofs

TLAPS proves every safety property that a run checks for *every* value of the
constants: any number of processes, any delay, buffer, disk and sector size, any
measurement within the range of its registers, any bound on the events. What is
assumed of the constants is named in the modules: the sentinel values differ from
the data (`ConstantsAssumption`, `NoneAssumption`, ...), delays and sizes are
positive naturals (`KeyAssumption`, `RamdiskAssumption`, `SectorAssumption`),
bounds are naturals (`SensorAssumption`, `BoundAssumption`), no axis of the
ICM20608 has the name of a channel of the AP3216C (`AxesAssumption`), and a
measurement fits the registers that hold it (`MeasureAssumption`). TLC evaluates
all of them. `~Smp` is a hypothesis where it is needed.

Each proof module defines one inductive invariant `IInv` as a conjunction of
named parts, proves that `Init` and every action keep it, and takes the
theorems from it. TLC has checked the inductive invariants first, on the instances
of section 3 (that of `IioSensors` on two smaller ones: two processes and one
device, one process and two devices).

| Theorem | Property | Argument |
|---|---|---|
| `TypeCorrect` | `TypeOK` | needs `Commands`: a process inside `led_write` has a command, else `led_status'` could be `None` |
| `NothingLeaks` | `Ladder` | `held` is a function of `core`; `Loaded`: without a module nothing is bound, so loading starts from an empty ladder |
| `ChainUnbroken` | `AutoChain` | `Mirror`: until the first write `led_status` is the level of the pin whenever no tasklet is half-way; `Chain`: the timer is pending or about to be re-armed |
| `TeardownIsQuiet` (`~Smp`) | `Quiesced` | `TimerDeleted`: between `del_timer` and the return of `tasklet_kill` the timer is not pending and no callback is about to re-arm it. This is where one core matters: `del_timer` does not wait for a running callback |
| `ManualControl` (`~Smp`) | `WriteSticks` | `WriteInProgress` says what an undisturbed writer has done so far. `LeftoverHarmless`: `led_status` records the complement of the level that the write drove, so a tasklet left over from before it flips it back and drives that level once more |
| `FilesPinTheDriver` | `FilePinsDriver` | `ModuleState` and `FileBound`: a file can be opened only while the node exists, and the module cannot go while it is open |
| `PinIsOwned` (`~Smp`) | `DrivesOwnedPin` | each action that drives the pin happens at a step at which `Ladder` holds the pin, the tasklet by `Quiesced` |
| `KeyTypeCorrect` | `TypeOK` | inductive as it is |
| `DebounceHolds` | `Debounced` | `CountsDown`: while the timer is pending, `since = Delay - timer` |
| `ReportsSettle` | `Settled` | `Wired`: from `request_irq` to `remove` the interrupt is on and its input device exists. `Tracks`: once an edge was handled, the timer is pending, or what is reported (or about to be) is the level of the pin |
| `WindowsAreAll` | `NoFault` | `Contained`: unless an edge fell into a window, the timer is pending or running only between `init_timer` and the end of its `del_timer`; `Devices`: where the interrupt is on, and the state of the input device, at each step |
| `UnboundIsQuiet` | `NothingLeft` | the same invariant |
| `ReaderCatchesUp` | `CaughtUp` | `Following`: the buffer ends in a packet that agrees with the input core, or is down to that packet's sync, or is empty and what is shown agrees. `PacketEnds`: a packet is whole in a buffer of any size, unless its sync was what filled it |
| `LedTypes`, `LedLeaksNothing` | `TypeOK`, `NothingLeaked` | `Turns`: the driver that is bound is on one `Rung` of its ladder. `ProbeOrder` and `RemoveOrder` say once, for the three tables, that a label undoes what came before it and remove releases everything |
| `LedNodeHasPin` | `NodeHasPin` | on every rung, of probe and remove, the node implies the pin; `Pin`: the drivers other than led_misc make it an output before the node, and it stays one |
| `LedPinObeysDriver`, `LedOffWhenUnbound` | `ExclusiveUnlessByHand`, `OffWhenUnbound` | `Files`: while the use count decides, an open file is the bound driver's and keeps it from `exit`. `Dark`: from the step that turns the LED off, or until the node is there, nobody can turn it on. `Pin`: what a driver has driven is an output, so that remove does turn it off |
| `NoreqLeaksNothing` | `NothingLeaked` | `Rungs`: what is held at each step of init and exit |
| `NoreqKeepsBuffer` | `BufferOutlivesBios` | `Users`: a bio needs an open file, and an open file needs `ramdisk_init` to have ended and keeps `ramdisk_exit` from starting |
| `NoreqTypes` | `TypeOK` | offset, index and segments of a bio add up to its size, so that it never points behind the disk |
| `NoreqStoresBytes` | `StoresBytes` | refinement of `BlockStore`: what is left of the bio is what the store has left to move; `CopyByte` is the move of one byte, and each other action is a step of its own or a stutter |
| `WreqLeaksNothing`, `WreqKeepsBuffer` | as for `Noreq` | `Rungs`, `Users`, and `Locked`: one process at a time has a request |
| `WreqInOneRequest`, `WreqTypes` | `InOneRequest`, `TypeOK` | `QueueInv`: the bios of a request form a `Chain`, without repetition, each starting where the one before ends, so that a front or back merge makes a chain again; no bio is in two requests (`Apart`) and each is in one (`Covered`); only the head of the request that is served has been begun (`BegunOK`). That a bio's end lies on a sector boundary is where sizes and positions of requests meet |
| `WreqStoresRequests` | `StoresRequests` | refinement of `BlockStore` with `Whole`: the transfer of a bio's *first* segment is the instant at which all its bytes move; further transfers, fetching, and the end of a segment that is not the last are stutters; the last end is the store's end. `BufferInv`: a write's bytes copied so far are on the disk, and since the queue lock keeps everybody else out until the request is done, the rest will be |
| `MiscTypes`, `MiscNoFault` | `TypeOK`, `NoFault` | `Files`: a file keeps the module, with it `private_data`, and, unless somebody unbinds by hand, all that probe acquired |
| `MiscSensorOn` | `SensorOn` | `Chip`: a chip that is not enabled has a process half-way through `open`, or no user |
| `MiscNotStale` | `NotStale` | `Buffers`, `Shared` and `Returned` relate every *pair* of reads: what one has fetched or stored is fresh enough for each other that overlaps it. A read that begins starts from the oldest `floor` among those in progress, which exists for any number of them (`WFMin`) |
| `IrRoundTrip`, `AlsRoundTrip`, `PsRoundTrip`, `AxisRoundTrip` | the decoding in `ReadExact` | arithmetic on the two bytes: for every value of 10 or 16 bits and all flags the driver gets back what the chip holds |
| `IioTypes` | `TypeOK` | any two bytes decode into the range of the channel (`ValueOf`) |
| `IioNoFault` | `NoFault` | `Made`: with the first module and nobody unbinding by hand there is one IIO device, it belongs to the binding, and the regmap is held; the AP3216C's driver never gets beyond it, for its remove does not return |
| `IioReadExact` | `ReadExact` | `Fetches`: while nothing moved during a read, its buffer holds the registers. `Overlaps`: whoever overlaps a read that saw a register move knows it. `Stores`: hence what any reader stores in the shared structure is what each reader that knows of no move expects there |

Lemmas that several proofs use stand beside them: the sum over the segments of a
bio (`Bvecs`), one step of probe or remove of a driver by name (`Tables`,
`DoesIio`, `Begins`, `Quits`, ...), what two consecutive registers decode to.

**Only model-checked.** Liveness (`Blinks`, `CoreReturns`, `StableKeyShown`,
`BiosEnd` of both RAM disks) is out of the prover's reach. No safety property
and neither refinement is left to TLC alone.

## 6. Where the code and its documentation disagree

Each run below finds a behaviour that violates what the quoted line says.

- **`TimerTasklet_WriteTurnsLed`.** `timer_tasklet_platform.c:115`: "Writing '0'
  turns the LED off and stops the timer." `led_write` drives the pin (line 133)
  and then records `led_status` (line 134). The tasklet that runs in between
  drives the pin with the complement of the old `led_status`, which is 1 after
  probe (line 179): '0' has been written, and the write returns with the LED on.
  Line 114 and the branch for '1' (lines 129-130) are the mirror image.
  `WriteSticks` states the guarantee that does hold: for a write during which no
  tasklet and no other write ran.
- **`TimerTasklet_WriteStopsTimer`.** Lines 114-115 again. The node exists (line
  204) before the timer is started (line 221); a write in between finds no timer
  to delete, and the LED goes on blinking.
- **`KeyInput_IrqArmsTimer`.** `InputSubsystem/key_input/README.md:38-41` draws
  the interrupt as leading to the timer function. `request_irq` (line 97) comes
  before `init_timer` (line 106): an edge in between arms a timer that has no
  function.
- **`KeyInput_NoReportAfterFree`.** The comment at `key_input_platform.c:135`
  says that the device is freed. `remove` deletes the timer (line 132) before it
  frees the interrupt (line 133): an edge in between re-arms the timer, which
  reports to the freed device. The error path of probe has the right order.
- **`LedDrivers_ExclusiveAccess`.** `gpioled_platform.c:103`: "requesting ensures
  exclusive resource access". A file opened before an unbind through sysfs keeps
  driving the pin after another driver has requested it: in the trace a file of
  led_misc (`misc_platform.c:46`) against gpioled.
  `ExclusiveUnlessByHand` is what does hold.

Further faults are stated as exceptions of the properties that hold:

- `NodeHasPin`: `led_misc/README.md:34-40` leads from `gpio_direction_output` to
  the node, and from there to "write(0/1) -> LED off/on". `led_probe` ignores a
  failure (`misc_platform.c:82`) and makes the node on a pin that may be an input:
  writes do nothing, and `led_remove` (line 97) leaves the LED as it was, lit
  perhaps. The other two drivers give up instead. For the same reason
  `OffWhenUnbound` speaks of a pin that some driver has been able to drive.
- `NoFault` of `MiscSensors`: the node of ap3216c_demo is registered before
  `private_data` is set (line 206 against 212), and the regmap drivers leave
  their open files with a freed regmap after an unbind.
- `NoFault` of `IioSensors`: every `remove` of `iio/ap3216c/ap3216c.c` goes
  through driver data that probe never set (line 214); that of
  `iio/icm20608/icm20608.c` unregisters nothing (lines 297-300), so its files
  reach a freed regmap and, after `rmmod`, freed code.
- `NotStale`: after a failed transfer a read returns bytes that no one set.
- `CaughtUp`: evtest takes SYN_DROPPED for a sync (line 36).

And some observations that no property is about. The comment at
`key_input_platform.c:14` gives 1 and 0 as the values of an event, while EV_REP
(line 80) adds 2. The temperature file of the ICM20608's IIO driver always
answers -EINVAL, for `read_raw` goes by a modifier that the channel lacks,
although the header of `icm20608.c` (line 9) shows it in use; lines 281-282 of
that file call `icm20608_read_reg` with two arguments and would not compile as
they stand. Nothing in the AP3216C's IIO driver enables the chip. Its two
intensity channels (`iio/ap3216c/ap3216c.c:131-157`) set `channel2` but not
`modified`; as far as we know the IIO core of Linux 4.1, both then ask for the
same attribute, and `iio_device_register` refuses them. That core is not in this
repository, so the model lets the registration succeed or fail; if it always
fails, what is said of that driver's reads is true of nothing.

## 7. What is not modelled, and why

- **Physical units** in the applications, the constants of the SCALE and OFFSET
  files (the AP3216C's SCALE is one register read), the disk's geometry
  (`getgeo`), kernel messages. They touch no state. `write_raw` does nothing, and
  `read_regs` and `write_regs` of the regmap drivers are never called.
- **Lengths that user space gives.** `led_write` copies `cnt` bytes into a buffer
  of one (`timer_tasklet_platform.c:125`, `gpioled_platform.c:49`,
  `misc_platform.c:42`) without a check; the models write one byte, as `ledApp`
  does. A sensor's `read` copies out `sizeof(data)` whatever `cnt` is; the
  applications ask for just that. A failing `copy_to_user` ends a read like any
  other (`ReadEnd`).
- **The configuration of the ICM20608** beyond reset and wake-up: the eight
  writes of rates and ranges (`icm20608_regmap.c:117-124`) change nothing that a
  property sees, and `SensorOn` is about reset and wake-up alone. What a read
  returns before probe has got there, or after another process failed to enable
  the AP3216C again (`ap3216c_regmap.c:109`), is left open: the code promises
  nothing.
- **How bits make up a value in the misc drivers**: `MiscSensors` keeps the two
  bytes of a channel apart; the same shifts in the IIO drivers are in
  `SensorBytes`.
- **Other readers of one binding** of the input device, and readers that survive
  into the next binding: one descriptor at a time is followed.
- **Length of a jiffy, device numbers**: `Delay` counts whole jiffies;
  `taskletled.major` is one resource.
- **Kernel services** (driver core, timer wheel, input core, elevator, `misc`,
  regmap) are modelled from how the drivers use them and marked external.
- **ADC notes and build files** hold no code that runs.

## 8. Plan

Done, in this order: `TimerTasklet`, `KeyInput`, `LedDrivers`, `Ladder`,
`BlockStore`, `RamdiskNoreq`, `RamdiskWreq`, `Driver`, `MiscSensors`,
`SensorBytes`, `IioSensors`, evtest's loop in `KeyInput`, the third driver in
`LedDrivers`, and the proofs listed above, the two refinements included. Every
component that runs is modelled.

Next, the proofs:

1. `Driver` and `Ladder` state their step lemmas once per sensor module; a proof
   over arbitrary tables would serve `LedDrivers`, `MiscSensors` and `IioSensors`.
2. The safety half of the liveness properties: that a bio in flight always has a
   process that can go on with it, and a queued one a queue that runs.
3. With `Smp`, what still holds of the Timer_Tasklet driver on several cores.

## 9. Running it

    tlc -config KeyInput.cfg KeyInput
    tlc -workers 2 -config MCIioSensors.cfg MCIioSensors
    tlapm IioSensorsProofs.tla
