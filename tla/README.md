# Verification of the BeagleBone drivers

The repository holds a driver for the BMP280 temperature sensor on the
BeagleBone (`bmp280_driver/`), with an I2C master of its own, and 24 example
modules for the Linux kernel (`kernel/`). This project models the parts of them
that can go wrong in ways a test would hardly show, checks the models with TLC
and proves the most important properties with TLAPS. Paths below are relative to
the repository, line numbers are those of the modelled commit.

1. Inventory
2. Plan: modules, abstract specifications, runs, theorems
3. The I2C master
4. The sensor and its char device
5. The temperature
6. The life cycle of the kernel modules
7. The examples on the board
8. Findings, and what was observed beside them
9. Proofs
10. What is assumed, and what is not modelled

## 1. Inventory

| component | state it keeps | operations | talks to |
| --- | --- | --- | --- |
| I2C master, `bmp280_driver/src/cotti_i2c.c` | `lock_bus`; `g_write`, `g_read`, `g_len`; `comp_read`, `comp_stop`, `wq_write`; the registers of I2C2 | `cotti_i2c_init`, `_deinit`, `_read`, `_write`, the handler `prv_isr` | the controller by registers and interrupts; called by the sensor component |
| BMP280 sensor, `src/bmp280.c` | `dig_T1..3`, `g_unit`, `slave_address`; the sensor's registers | `bmp280_init`, `_deinit`, `_read_temperature`, `_set_mode`, `_set_frequency`, `_set_unit`, `_is_connected` | calls the I2C master, called by the char device |
| char device, `src/char_device.c` | the device, its number, class and cdev | `char_device_create`, `_remove`; open, close, read, write, ioctl | user programs; the sensor component |
| platform driver, `src/driver.c` | the order of creation | `driver_probe`, `driver_remove` | all three |
| init and exit of `kernel/001..024`, `prueba-td3.c`, `driver.c` | per module: a device number, a class, a cdev, pins, interrupts, timers, threads, memory | init and exit (probe and remove), callbacks | the kernel; user programs |
| wait queue example, `kernel/014_waitqueue` | `watch_var`, two wait queues | two thread functions, open, close, write, exit | user programs write, the exit function stops the threads |
| signal example, `kernel/012_send_signal` | `task` | open, close, ioctl, `gpio_irq_handler` | a button; user programs, by SIGUSR1 |
| poll example, `kernel/013_poll` | `irq_ready`, `waitqueue` | `driver_poll`, `gpio_irq_handler` | a button; `poll()` of the kernel and user programs |
| character device example, `kernel/002_char_device` | `buffer`, `buffer_pointer` | read, write | user programs |
| ioctl example, `kernel/010_ioctl` | `multiplier` | four ioctl commands | user programs |
| LED examples, `kernel/003_gpio_driver`, `kernel/018_dt_gpio` | the LED; `my_led` | write, `dt_probe`, `dt_remove` | user programs; the device tree |
| user tests, scripts, device trees, docs | none of their own | | the board |

Interactions: `driver_probe` runs `cotti_i2c_init`, `bmp280_init` and
`char_device_create` in turn and undoes them in reverse. A file operation runs in
the process that called it; any number of processes may be in the driver at the
same time, and `lock_bus` is the only lock. The interrupt handler shares
`g_write`, `g_read` and `g_len` with the process that waits for it, without the
lock.

What is hard here:

* **Concurrency.** Processes, interrupts, timers and kernel threads; the state
  that they share is read before a lock is taken and after it is released, or, in
  the examples, has no lock at all: two programs in one file operation, a program
  and the button's interrupt.
* **Lifetimes.** A pointer to a process is kept without a reference to it, through
  the end of that process, closes of other files, and forks.
* **Failure.** A transfer is aborted (NACK, lost arbitration), gets no answer in
  time or gets it late; a signal ends a wait; the sensor is unplugged; any step of
  an init function fails.
* **Ordering.** Resources must be released in the reverse order of the
  acquisition, around handlers that still run; a wake-up must follow its store.
* **Numbers.** 16-bit counters, return values stored in a `u8`, signed words kept
  as unsigned ones, integer divisions below zero.

What makes each component correct:

* I2C master: a transfer belongs to the process that holds the mutex; a
  success means that this very call was performed; a read returns its own byte;
  nothing of a call is left for the next one; every call returns. In short: each
  call is one atomic register access or an error.
* Sensor and char device: a reading is made of bytes that were read during it, 0
  means that it was done, the configuration stays within what the interface
  offers, every operation returns.
* Temperature: the three programs agree, a warmer sensor shows no lower
  temperature, the text reads back as the number.
* Life cycle: nothing is left behind, nothing is released twice or while something
  relies on it, an init function that returns 0 has everything, a program with the
  file open finds what it uses.
* Wait queue: no wake-up is lost, no thread reports what nobody wrote, unloading
  ends and frees the code only when nobody runs it.
* Signal: the interrupt signals a process that exists and has the device open.
* Poll: a press is told once and not forgotten, and nobody sleeps on after it.
* Character device, ioctl, LED: a call that no other one overlaps gets what its own
  program left there, and no overlap yields a byte that nobody stored.

The hazards, each at its line and with the properties that cover it, are listed in
`PROJECT.json`.

## 2. Plan

In the order of what matters most to the system:

| | module | models | state |
| --- | --- | --- | --- |
| 1 | `CottiI2C` | `cotti_i2c.c` from call to return | done |
| 2 | `RegisterBus` | abstract: what a call promises | done |
| 3 | `CottiI2CInv`, `CottiI2CReaders`, `CottiI2CProgress`, `CottiI2CProofs` | inductive invariant, many readers, why calls return; the proofs, with that of the refinement | done |
| 4 | `Bmp280`, `Bmp280Registers` (`MCBmp280`) | `bmp280.c` and the file operations, composed with `RegisterBus` in place of `CottiI2C` | done |
| 5 | `Temperature` (`MCTemperature`, `TemperatureProofs`) | arithmetic and text | done |
| 6 | `LkmLifecycle`, `LkmTable`, `LkmText` (`MCLkm`, `LkmProofs`) | init and exit of 24 modules, what their texts say | done |
| 7 | `WaitQueue`, `WaitQueueProofs` | `kernel/014_waitqueue` | done |
| 8 | `SignalDevice`, `PollDevice` | `kernel/012_send_signal` and `kernel/013_poll`: one button, two ways to wait for it | done |
| 9 | `EchoDevice`, `MultiplierDevice`, `LedDevice` | the file operations of `kernel/002`, `010`, `003` and `018` | done |
| 10 | `Examples` (`MCExamples`) | the board with one of the examples 7 to 9 loaded | done |
| 11 | `DeviceProofs`, `ExamplesProofs` | the proofs of 8 and 9, and of the composition | done |
| 12 | `Bmp280Proofs` | every property that `Bmp_operations` checks, for all constants | done |
| 13 | `DriverStack`, `DriverStackProofs` | the operations of 4 on the I2C master of 1, and the proof that they are still those of 4 | done |

Abstract specifications: `RegisterBus` for the I2C master; the sensor module stands
on it, and `DriverStack`, in which the operations of `Bmp280` run on `CottiI2C`
itself, implements `Bmp280`: what holds of `Bmp280` holds with the real bus. For the
life cycle the abstract statements are conditions on the text of a module
(`LkmText`: `Balanced`, `Ordered`, `Releasable`, `Usable`, `Complete`, `Guarded`), from
which what happens to the module follows.

Runs (each of them ends with no state left, in 3 minutes or less):

| run | module | instance | distinct states |
| --- | --- | --- | --- |
| `I2C_onereader` | `CottiI2CInv` | 2 processes, 1 reader, 2 values | 1.05 million |
| `I2C_live` | `CottiI2CReaders` | 2 readers and writers, 1 value | 22 679 |
| `I2C_two_readers`, `I2C_late_write` | `CottiI2C` | findings | |
| `Bmp_operations` | `MCBmp280` | 2 processes, 1 reader, faults, unplugging | 2 181 177 |
| `Bmp_init_fault` | `MCBmp280` | finding | |
| `Temp_text` | `MCTemperature` | 2 versions, 2 calibrations, 271 raw values | 2 168 |
| `Temp_sign` | `MCTemperature` | finding | |
| `Lkm_all` | `MCLkm` | 24 modules, 2 programs | 2 295 |
| `Lkm_reset` | `MCLkm` | finding | |
| `Examples` | `MCExamples` | 7 examples, 2 or 3 programs each | 118 482 |
| `Signal_lost` | `SignalDevice` | finding | |

Theorems: the safety of the I2C master and its refinement first, since all else
stands on them; then what says more than the runs, since it holds for all data: the
sensor's operations with any number of processes and any calibration, the
arithmetic, the life cycle of any table, each example with any number of programs,
and the board with any of them. Section 9 lists them.

## 3. The I2C master: CottiI2C, RegisterBus

`CottiI2C` follows `bmp280_driver/src/cotti_i2c.c` from a call of
`cotti_i2c_read` or `cotti_i2c_write` to its return. There are three kinds of
actor: the processes in the kernel, the interrupt handler, and the controller
with the sensor behind it.

| state of the model | in the code |
| --- | --- |
| `pc[p]`, `req[p]`, `res[p]` | the statement process p is at (see below), the arguments and the return value of its call |
| `polls[p]` | `i` of `prv_wait_for_bus_busy` |
| `lock` | `lock_bus`: its holder |
| `gLen`, `gWrite`, `gRead` | `g_len` (a u16: 0 - 1 is 65535), `g_write`, `g_read` |
| `compRead`, `compStop` | the counts of `comp_read`, `comp_stop` |
| `mode`, `cnt`, `irq`, `tx`, `rx`, `due`, `owner` | the controller: the transfer on the bus, CNT, IRQSTATUS, the two FIFOs, whether a register address or a value is due, and (history) which process started it |
| `ptr`, `mem` | the sensor: the addressed register and its registers |
| `did[p]` | history: what the sensor did for p's current call |

The wait queue `wq_write` has no state of its own: the wait ends when
`g_len` is 0, by a signal (`DrainSignal`), or by the timeout. The statements
are named by the labels of `pc`:

| label | lines of cotti_i2c.c | actions |
| --- | --- | --- |
| `poll` | 222, 257 and 341-351 | `PollFree`, `PollAgain`, `PollGiveUp` |
| `lock` | 225, 260 | `Lock` |
| `count`, `start` | 227-238, 262-273 | `Count`, `Start` |
| `drain` | 240, 276 | `Drain`, `DrainSignal`, `DrainTimeout` |
| `stop` | 241, 277 | `Stop`, `StopTimeout` |
| `fail` | 243-247, 279-281 | `Fail` |
| `rxcount`, `rxstart` | 285-287 | `RxCount`, `RxStart` |
| `rxdata`, `rxstop` | 289-290 | `RxData`, `RxStop`, `RxTimeout` |
| `rxfail` | 292-295 | `RxFail` |
| `finish` | 245-247, 297-298 | `FinishWrite`, `FinishRead` |
| `ret` | 299 | `Return` |

`Isr` is one pass of the loop of `prv_isr` (306-330). The kernel runs on the
single core of an AM335x, so no process runs during a pass, and a process is
interrupted between two of its statements, not inside one. `Count` and `Start`
stand for several stores each; while answers are in time no interrupt can
arrive between them (this is `BusOwned`), and with late answers the model is
coarser there than the code. `HwXrdy`, `HwSend`, `HwRecv`, `HwStop` and
`HwAbort` are the controller and the sensor, outside the repository, as the
driver uses them: XRDY asks for a byte, RRDY hands one over, ARDY follows the
stop condition, and a NACK or a lost arbitration ends a transfer with nothing
more. A START written while a transfer runs replaces that transfer.

`LateAnswers` is the one assumption about time. When it is FALSE a wait of
100 ms runs out only if the controller has nothing left to do (a transfer of
three bytes takes less than a millisecond); when it is TRUE a wait may run out at any
moment and the transfer goes on without its caller.

`RegisterBus` is what the two functions promise: between call and return the
sensor performs the operation at most once, in one step; success means that it
was performed and returns what the sensor answered; -1 leaves open whether it
was. `Implements` says that `CottiI2C` implements it, where a process is active
from its call to its return.

### What the runs show

* `I2C_onereader`: one process reads and writes, one writes, over two registers
  and two values, answers in time, aborts and signals at any moment.
  `BusOwned`: a transfer or a pending interrupt always belongs to the holder of
  the mutex, who is waiting for it (the busy check before the mutex is stale,
  and it does not matter). `LenInBounds`: the handler never takes `g_len` below
  0. `CompletionsFresh`: no signal is left for the next call.
  `WriteSucceeded`, `ReadReturnsOwn`: a success is one of this call, signals
  notwithstanding. `RegisterWrites`: the sensor's registers change only as the
  holder of the lock asks, also after an aborted transfer left a byte in the
  FIFO. `LockPaired`: every path from `mutex_lock`, each of the error paths included,
  comes to one `mutex_unlock`. `Implements`: the refinement.
* `I2C_live`: two processes that both read and write, with fair scheduling and a
  controller that goes on (it may still abort). `CallReturns`: every call returns.
  `ReadIsFresh`: a read may return the byte of the other's call (`I2C_two_readers`),
  but never one that the sensor sent before its own call began. `CottiI2CReaders`
  adds the history variable `sent`, the bytes sent during each call; with one value
  of a byte the run sees a read that returns though nothing was sent during its call;
  that it never returns an older byte of another value is the theorem
  `ReadsAreFresh`, which rests on `SentInv`: the byte that a reader will return is in
  the FIFO, in `g_read`, or about to get there.
* `I2C_two_readers`, `I2C_late_write`: the first two findings below.

Bounds: two processes are enough for every race on the mutex and the globals
(a third only repeats the part of the second); two registers and two values
tell every register and value apart that a property compares; `MaxPolls` is 1
instead of 100, which shortens the loop and keeps both of its exits. A process
makes any number of calls.

Fairness: weak fairness of each process's next statement (the scheduler runs
what can run, and timers expire), strong fairness of `Lock` (the kernel's mutex
queues its waiters and hands over to the first), and weak fairness of the handler
and of the controller, whose pending work is done in time. A signal (`DrainSignal`)
and an abort (`HwAbort`) are never forced to happen.

## 4. The sensor and its char device: Bmp280

`Bmp280` models `bmp280.c` and the file operations of `char_device.c` as lists of
register accesses (`Accesses`): open reads the ID, read reads three bytes, the
ioctl for the mode and the one for the frequency write a register each, and
`bmp280_init` makes nine accesses. The bus is an instance of `RegisterBus`: an
access takes effect in one step (`Perform`) and then succeeds or fails
(`Answer`). For one reading process `StackImplementsSensor` (section 9) justifies
this, and therefore `Readers` has one member in these runs; any number of processes
may use the ioctls.

| state | in the code |
| --- | --- |
| `mem` | the sensor's registers (external), by their names in `bmp280.h` |
| `active`, `req`, `did`, `res` | the calls of the bus, see `RegisterBus` |
| `connected` | whether the sensor is plugged in; `user_test.c` asks for it to be unplugged |
| `driver` | whether `bmp280_init` has run, and how it ended |
| `cal`, `unit` | `dig_T1..3`, `g_unit` |
| `op`, `got` | the operation of each process and what its accesses have returned (the locals `d1..d3`, `id`, ...) |
| `last`, `seen` | history: the last result; the samples that the sensor showed during a read |

`Probe`, `Call`, `SetUnit`, `Ask`, `Answer` and `Leave` are the driver; between any
two of them the sensor measures (`Measure`), is unplugged or plugged in again
(`Unplug`, `Plug`). The arguments of an ioctl are any of `Ints`: the code checks
nothing. `Stops` and `Succeeds` hold the checks that the code makes and none that
it does not.

* `Bmp_operations`: two processes, any access may fail, and the sensor is unplugged
  and plugged in again at any moment, in the middle of an operation too.
  `ReadingSeen`: all three bytes of a successful read were in the sensor during that
  very read, no failed access is among them. `OpenChecked`: open succeeds only if the
  sensor answered with its ID in that very call, although the `u8` of line 115 makes
  the comparison with -1 false. `IoctlDone`: 0 means that the register was written
  with this argument. `InitConfigures`: a probe of which no access failed, with the
  sensor plugged in throughout, leaves the sensor's calibration in the driver and
  the mode and frequency in the sensor.
* `Bmp_init_fault`: finding 3.

Bounds: one sample is enough to tell a mixed reading from a whole one, since it
differs from the power-on value, which is what an unplugged sensor comes back with,
in all three bytes. The argument 35 is no mode (it has a bit of the oversampling), and
a frequency that does not fit its register. The second process overwrites the registers that the
first one has set. The theorems of section 9 are without these bounds. There is no
liveness here: an operation is at most nine accesses, and that each of them returns
is `CallReturns` of section 3.

### The driver in one piece: DriverStack

`DriverStack` has the variables of `CottiI2C` and those of the operations of `Bmp280`
and no `RegisterBus`. An operation calls the I2C master for its next access
(`Access`), the call goes through `cotti_i2c.c` statement by statement, and the step
in which it returns hands its result to the operation (`Within`); between its
accesses the operation is as in `Bmp280` (`Operate`). The controller works on
meanwhile; a byte reaches the sensor or comes from it only while it is plugged in
(`Controller`), and the sensor measures, is unplugged or plugged in again between any
two bytes of a transfer (`Measure`, `Unplug`, `Plug`). `Sensor` is `Bmp280` as seen
from there: a process is active while it is in a call, the registers are the ones the
driver knows, and any access may fail (`Faults` is TRUE), since a transfer may be
aborted. `ImplementsSensor` says that the driver does only what `Bmp280` does.

It has no run: two processes with nine accesses of some twenty statements each are
too many states for TLC to get through, and one process alone is no test of a
mutex. What is said of it is proved (section 9); `I2C_onereader` and `Bmp_operations`
check its two halves.

## 5. The temperature: Temperature

The compensation, the conversion to a unit and the text, as the driver
(`version = "bmp280_driver"`) and the two examples `kernel/005_bmp280` and
`kernel/019_dt_i2c` (`"kernel"`) compute them. C's `/` and `%` round towards
zero (`Quot`, `Rem`), `>>` of a negative number rounds down. The text is the number
before the point, the number after it and its width: `%02d` in the driver, `%d` in
the examples. A step changes the raw value by `Stride` or the unit.

* `Temp_text`: from -30 to 60 degrees, the calibration of the datasheet (T3 = -1000)
  and one with a positive T3. `WarmerIsWarmer` (the examples): a higher raw value
  never shows a lower temperature, which needs the right signs of T2 and T3 and the
  right roundings. `FahrenheitClose`: the conversion is exact up to a hundredth of
  a degree. `TextReadsBack`: from zero upwards the driver's text is the number.
* `Temp_sign`: finding 4.

What the code does when a product leaves the 32 bits of an `s32` is not modelled:
`NothingOverflows` is an assumption of the module, which TLC evaluates for every
calibration and raw value of the runs. `ExamplesStayInRange` and `DriverStaysInRange`
(section 9) say where it is true. The driver, which takes a negative T3 for a number
near 65536, leaves it at about 58 degrees with the datasheet's calibration.

## 6. The life cycle: LkmLifecycle, LkmTable, LkmText

`LkmLifecycle` runs the init and the exit function of a module step by step: a step
takes a resource, gives one back, checks or uses something; one that can fail may
do so, and then the statements from its error label on are run (`StepFails`,
`Release`, `Undone`). Timers and threads end by themselves (`Ends`), programs open
and close the device file as soon as it is there (`Open`, `Close`), and rmmod comes
when the kernel lets it (`Unload`). `LkmTable` is the data: 24 modules of the
repository, each read off its init and exit function (or probe and remove): every
acquisition in its order, what the error label of each releases, what the exit
function releases, and what relies on what (`needs`). A step either never fails, or
fails and is caught (`StepFails`), or fails and is missed (`StepFailsUnnoticed`):
`class_create`, `device_create`, `kthread_create`, `kthread_run`, `clk_get`,
`i2c_new_client_device` and `devm_platform_ioremap_resource` return an error pointer,
and all modules but `prueba-td3.c` compare it with NULL, so that init goes on without
the resource. A step that is given such a pointer fails (`given`). A step whose failure
leaves `retval` at 0 names the step at which its caller goes on (`Silent`).

| state | in the code |
| --- | --- |
| `lkm` | the module, one for each behaviour |
| `phase`, `at`, `todo` | the function that runs, the statement it is at, the statements left in an error path or exit |
| `held` | the resources: device number, class, device, cdev, pins, interrupts, timers, threads, memory, mappings, references to device-tree nodes |
| `users` | open files |

* `Lkm_all`: the 24 modules, each with every failing step, two programs. What is
  wrong with a module is on record in `KnownDefects` of `MCLkm`, property by property,
  module by module and resource by resource: a property is asked of all modules and
  excuses just those resources, so that one more defect in any module breaks the
  run; and no entry is there in vain, each is needed by the run. `NothingLeft`: nothing
  outlives the module. `NeedsHeld`: nothing is released while something else, an
  interrupt or a timer among them, relies on it. `ReleasedOnce`: only what is there is
  released. `LoadedMeansReady`: 0 means that all was acquired. `FileUsable`: a program with the file open finds what its operations
  use, and their code. `HeldAsWritten`: the text of the module that is loaded satisfies, with the same
  record, the conditions from which the properties above follow by the theorems of
  section 9, so that no module has a property by luck; and in each state the text
  bounds what the module has, from above by what its steps have acquired or what is
  still to be released, from below by what no failure can have led past.
* `Lkm_reset`: `UsesHeld`, init uses only what it has, with an empty record: finding 5.
  With the record it follows from the texts (`UsableIsHeld`).

Bounds: the tables are the repository's own and not bounded; `MaxUsers` is 2, where
the code only distinguishes none and some. There is no liveness here: rmmod
waits for nobody, except in the wait queue example. What a module leaves behind is
forgotten at the next load (`Load`), whatever it does to the next life can only be a
failing step.

The defects on record:

* `unregister_chrdev(device_number, ...)` is given a device number where it expects a
  major number, and releases nothing: in eleven modules with a character device (all
  but `prueba-td3.c`, which calls `unregister_chrdev_region`) the number that
  `alloc_chrdev_region` took is never released (002 char_device.c:72, 81);
* the same modules do not notice that `class_create` or `device_create` failed (002
  char_device.c:49, 56): they are loaded without their device, and exit destroys what
  is not there. This is what happens as soon as two of them are loaded, since all
  create a class "cotti". Nor do 011, 014 and 021 notice that a thread was not
  created, 005 that there is no client, `cotti_i2c.c` that there is no clock or
  mapping;
* the cdev is never deleted in 012, 013, 014, 018, 019 and the `bmp280_driver` (whose
  `char_device_remove`, char_device.c:87-92, has no `cdev_del`), and not on all error
  paths of 003 and 005;
* a program may read before 019's probe has stored the client (dt_i2c.c:101, 112) and
  after it was unbound, and the same goes for 005, whose init function can fail after
  the file is there; so can those of 003, 012, 013 and 018;
* the interrupt is freed after the unmapping of the registers its handler
  reads, and `i2c_ptr`, which the driver core manages, is unmapped by hand
  (cotti_i2c.c:208-210); the device-tree node of the sensor is put on the error path
  only (bmp280.c:50); and the driver can be unbound while a program has its file open;
* 005 and 019 (and 018's probe) return 0 after a failure that released
  everything, or leave the module loaded without its device; 018 never puts its
  descriptor, and 005 keeps the adapter when a later step fails;
* 006 frees the LED before it deletes the timer that drives it (timer.c:50);
* 021 does not wait for its threads, although their code goes (mutex.c:49-51);
* 004 takes the pointer of a successful `pwm_request` for an error (line 67), releases
  its device under the cdev and returns 0 (`Silent`): the module is loaded with
  neither;
* 022 returns with its second timer running, for 900 ms more: an exit function that
  comes before has `del_timer`, which does not wait for a callback that has begun,
  and a second load would find the timer set;
* 003 sets the debounce of a pin that it has not requested yet (gpio_driver.c:74);
* `src/driver.c` keeps its interrupt and unmaps what it has never mapped.

## 7. The examples on the board: WaitQueue, SignalDevice, PollDevice, EchoDevice, MultiplierDevice, LedDevice, Examples

Seven examples have file operations with a state of their own. Each is a module;
`Examples` composes them to the board that has one of them loaded (`loaded`). There
is one at a time because all of them create the class `"cotti"` (DEVICE_CLASS_NAME)
and three take GPIO 48 (BUTTON_PIN). A step of the loaded example leaves the state
of the others alone, so that every property of an example is a property of the
board. The steps are listed one by one in `Examples`; each has the guard of its
example (`InSignal`, `InPoll`, ...). The run is `Examples`.

### WaitQueue: `kernel/014_waitqueue`

Two threads wait, each on its queue, for `watch_var` to have the value they look for;
programs write it; the exit function stops both. The module splits the wait_event
macros into their steps, since these are what makes the lock-free variable work:
test, queue, test again, sleep (`Test`, `Queue`, `Check`, `Woken`), with the timeout
of the second thread (`TimeoutReached`, `LastTest`). A writer stores and then wakes
the queues one after the other (`Store`, `WakeFirst`, `WakeSecond`), kthread_stop
sets its flag, wakes and waits (`Exit`).

`NoLostWakeup`: no thread sleeps on while its value is there and no wake-up is on its
way. `ReportsWhatWasWritten`: a thread reports only what was written since its last
report, unless it is being stopped. `CodeUnused`: the code is freed only when both
threads have ended and no file is open. `ValueIsTaken`: a value does not stay.
`UnloadEnds`: rmmod returns. Three inputs are the value of each thread and one of
neither; two writers interleave their stores and wake-ups in every way.

### SignalDevice: `kernel/012_send_signal`

| state | in the code |
| --- | --- |
| `task` | the pointer of line 23, `Nobody` when it is NULL |
| `holders[f]` | external: the processes that have the open file f; the last close calls `driver_close` |
| `running`, `ended`, `pending` | external: the processes, and those with a SIGUSR1 |
| `owed`, `sharers` | history: who registered and has closed nothing since; who got a file in common by a fork |

`Register` is the ioctl (148), `Press` the interrupt handler (113-130),
`DriverClose` line 141. A process that ends closes its files first and is freed then
(`EndProgram`), which is what keeps `task` valid without a reference: `TaskIsThere`.
Three programs and two files are needed for one to register, one to close and one to be
forked. That every program that registered is signalled is finding 6.

### PollDevice: `kernel/013_poll`

| state | in the code |
| --- | --- |
| `irq_ready` | the flag |
| `handler` | `gpio_irq_handler` before and after line 116 |
| `ppc[p]` | the program's `poll()`: "enter" `poll_wait`, "test" and "clear" lines 136 and 137, "sleep" and "return" in the kernel |
| `table`, `triggered`, `expired` | external: the entries of `waitqueue`, those a wake-up has reached, programs whose timeout has passed |
| `untold`, `unseen` | history: who was not told of the last press; whether anybody was |

The kernel calls `driver_poll` again after every wake-up and after a timeout, so that
one `poll()` may test and clear the flag several times. `PollinMeansPress`: POLLIN
tells of a press its program was not told of. `PressIsKept`: the clear of line 137
cannot lose a press, since POLLIN follows it. `NoPollerLeftAsleep`: queueing before
the test, and the flag before the wake-up, leave nobody asleep with the flag set.
`PressIsNoticed`: while somebody sleeps in `poll()`, a press is told to somebody.

### EchoDevice: `kernel/002_char_device`

`buffer`, `buffer_pointer` and for every program the `driver_read` or `driver_write`
it is in (`call`: the bytes done and to be done), one byte per step. A copy that faults
stores zeros from there on (`FaultInWrite`). `clean` and the fields `text` and `alone`
are history: what the last write stored, if it was alone. `EchoWhenAlone`: a read
that no write overlaps returns the text of the last write that no other overlapped.
`NoBlankIsRead`: whatever overlaps, no read returns a byte that nobody stored, since
the length is set after the bytes (129). The buffer has 2 bytes instead of 255, with
texts that are shorter, as long and longer.

### MultiplierDevice: `kernel/010_ioctl`

The four commands around `multiplier`; IOCTL_CMD_MULTIPLY in three steps
(`FetchFactor`, `Multiply`, `ReturnAnswer`), between which other programs run. The
product wraps around (`Wrap`; `Half` is 8 instead of 2^31, and the factors -8, 3 and
5 overflow). A failed copy of IOCTL_CMD_WRITE leaves a 0 (`CmdWrite`).
`AnswerIsProduct`: a program that was the last to set the multiplier, with nobody
interfering, gets its argument times that number.

### LedDevice: `kernel/003_gpio_driver` and `kernel/018_dt_gpio`

A write takes one character (003) or up to ten (018), and the program writes the rest
again: `rest`. `GpioWrite` and `DtGpioWrite` are the two `driver_write`, `Char` and
`Number` what they make of the characters, `Rebind` the removal and the probe of the
platform driver, `my_led` the descriptor. `order` and `before` are history.
`LedObeys`: a program that wrote its text while no other did finds the LED as the
text asks: its last digit for 003, its number for 018. `Room` is 3 instead of 10;
the texts are shorter, as long and longer than it. Left out of the property is what
the code does not define: a write of no bytes (003), ten characters or more (018).

### Fairness of the board

`ExamplesLiveSpec` has weak fairness of what the code and the kernel do by
themselves while the example is loaded: the threads, a write that has begun and the
exit function of the wait queue example; the interrupt handler of the poll example
and a `poll()` that is not asleep. Nobody has to open, write, press, poll, run into
a timeout or remove a module. The other examples need no fairness.

## 8. Findings, and what was observed beside them

| | run | what |
| --- | --- | --- |
| 1 | `I2C_two_readers` | `cotti_i2c_read` loads `g_read` after it has released the mutex (cotti_i2c.c:298-299): with two readers one may return the other's byte. |
| 2 | `I2C_late_write` | A call that times out leaves its transfer running; the late completion makes the next write return 0 though its value was not stored (cotti_i2c.c:245). |
| 3 | `Bmp_init_fault` | `bmp280_init` checks the first of nine accesses and returns 0 when another one failed (bmp280.c:36-48). |
| 4 | `Temp_sign` | The driver keeps T2 and T3 unsigned and shows another temperature than the examples (bmp280.c:42). |
| 5 | `Lkm_reset` | After its reset timed out `cotti_i2c_init` returns 0 with everything unmapped (cotti_i2c.c:153). |
| 6 | `Signal_lost` | `task` is one pointer for all programs: another registration replaces it, any close clears it, and a program that is registered gets no signal (send_signal.c:141, 148). |

Seen while modelling, with no run of their own:

* The bus-busy bit is bit 12, and `prv_is_irq_triggered` returns a `u8`: the poll
  never sees a busy bus (cotti_i2c.c:57, 341). The mutex makes up for it while
  answers are in time (`BusOwned`).
* The life cycle of the modules has the defects that section 6 lists. Three of them
  contradict a comment: `char_device_create` returns 0 without a class or a device when
  the kernel returns an error pointer (char_device.c:49, 56, against line 36 of the
  `bmp280_driver`), `char_device_remove` leaves the device number and the cdev behind
  (lines 87-92, against line 86), and the exit function of the mutex example waits for
  no thread (mutex.c:49-51).
* Late answers also break the other promises of the bus; `I2C_late_write` is the
  clearest of them.
* The three bytes of a reading may come from two samples (bmp280.c:69); the
  sensor has a burst read for this. `ReadingSeen` is what does hold.
* The mode of the ioctl is not checked: 4 turns the pressure measurement on
  (bmp280.c:97), against the comment of lines 94 and 95.
* Right after the sensor was plugged in again and its mode set, as in the last part of
  `user_test.c`, the first read returns the power-on value until the first
  measurement ends.
* Below zero the text has two signs (-0.5 degrees is "0.-50", char_device.c:129), and
  the examples do not pad the hundredths (005_bmp280/bmp280.c:174).
* In the wait queue example a value that is stored between a thread's test and its
  `watch_var = 0` is cleared unseen; a thread that is stopped reports an input all
  the same; and no thread finishes execution when its condition is true, as
  waitqueue.h:17-21 says.
* A press of the button is for one of the programs that poll: the first one clears
  the flag, and a second one that was woken with it sleeps on (poll.c:136). A program
  that does not poll for POLLIN swallows the press, since `driver_poll` clears the
  flag whatever is asked for.
* After a fork the child keeps the file open when the registered process ends:
  nothing clears `task`, and the next press signals a process that is gone
  (send_signal.c:141). `TaskIsThere` leaves out processes that share a file for this
  reason.
* A failed IOCTL_CMD_WRITE returns -1 and leaves the multiplier at 0 (ioctl.c:135).
* `echo 10 > /dev/...` switches the LED of 003 on and off again: every character is a
  write of its own, and the write of no bytes tests a variable that was never set
  (gpio_driver.c:156). In 018 ten characters leave no terminating zero for `kstrtol`,
  and its -ERANGE is not caught, so that `number` is read unset (dt_gpio.c:189).
* `dt_remove` does not put the descriptor: after the driver was unbound and bound
  again, the LED is lost (dt_gpio.c:153).
* `driver_write` of 004 subtracts `3*'0'` where `111*'0'` is needed (pwm_driver.c:132)
  and accepts 199; the module never has a PWM, see section 6.

## 9. Proofs

### The I2C master

`CottiI2CProofs` proves, for any processes, bytes and `MaxPolls`:
`TypeCorrect` and `LockIsPaired` (late answers or not) and, when answers are in time,
`BusIsOwned`, `LenStaysInBounds`, `CompletionsAreFresh`, `WritesSucceed`,
`RegistersChangeAsAsked`, for any number of readers `ReadsAreFresh`, and for at most
one `ReadsReturnTheirOwn`. With more than one the last is false
(`I2C_two_readers`). `KeepsPromise`: with answers in time and one reader
`Spec => Implements`.

`LockIsPaired` is inductive with the types. All the others rest on `IInv`
(`CottiI2CInv`). None of the properties is inductive alone: that a write succeeded
needs to know, at the statement where `comp_stop` is taken, that the signal was for
the last byte of this call, hence how far the transfer has come (`Sending`,
`Receiving`: CNT, the FIFO, `g_len`, the pending interrupts and the completions all
count the same bytes), hence that nobody else touched them (`LockPaired`, `Owned`,
`AtRest`). The proof that a step preserves `IInv` splits the steps into those
outside the critical section (`StepOutside`), taking the lock, the program, the two
waits, the unlocks, and those of the controller and the handler; `Frame`,
`Untouched` and `Others` carry over what a step of one process cannot disturb for
another. `SentAlways` adds `SentInv` to it: a step of `CottiI2CReaders` is one of
`CottiI2C` (`ReadersStep`), so that `IInv` carries over; it says that a reader takes
`comp_stop` only when the byte in the FIFO has gone to `g_read`, and releases the
mutex only when no interrupt is pending, so that whatever overwrites `g_read` from
then on was sent later.

That every call returns (`CallReturns`) is liveness, and TLC's. Its safe half is
proved, with late answers and any callers (`CottiI2CProgress`): `NobodyIsStuck` says
that while a call has not returned the process on which it depends, which is the
holder of the mutex if it waits for that and otherwise itself, can take a step, or
waits for a transfer in which the handler or the controller can (`CanProceed` and
`HwCanProceed` are the guards of `Proceed` and of `Isr` and `Transfer`, written
out, since ENABLED is beyond the prover). It rests on `LockPaired`: a mutex that is
taken has a holder, which does not wait for it in turn, and on `MayTimeOut`: a wait
runs out at the latest when the controller has come to rest. `CallsAreBounded` says that every step of a call brings it
nearer to its return, in at most 12 + `MaxPolls` steps (`StepsLeft`), that nobody else's
step takes it back, and that every step of the handler or the controller leaves them
less to do (`WorkLeft`). What is left to fairness is that those who can take a step do,
and that the mutex serves its waiters in turn.

### The sensor

`Bmp280Proofs` proves `TypeCorrect`, `ReadingsAreSeen`, `OpensAreChecked`,
`IoctlsAreDone` and `ProbesConfigure`: all that `Bmp_operations` checks, for any number
of processes and readers, any arguments, samples and calibration, with or without
faults and unplugging. The bus in it is `RegisterBus`. The invariant `BmpInv` says what a
process may conclude from what it was told: an access on the bus is the next one of
its operation (`Asked`), what an access did is what it asked for (`Performed`), a
success reports just that (`Told`), and the bytes that a read has collected were each
shown during it (`Sampled`, `Shown`); the lemmas `AccessKinds` and `InitList`
give the lists. `ProbesConfigure` adds `ProbeInv`: there is no other operation until
the probe has ended (`OneProbe`), the calibration registers never change
(`CalKept`), each byte read is the one of its register (`ProbeTold`), and what the
last two accesses wrote stays until the sensor is unplugged (`ProbeSet`).

### The driver in one piece

`DriverStackProofs`, with answers in time (`~LateAnswers`), registers and values that
are bytes (`StackConstants`), and any processes, arguments, samples and calibration:

* `StackKeepsInvariant`: the invariant `IInv` of the I2C master survives the composition,
  and (`OpsKnown`) a call that is on the bus is for the next access of its operation,
  on a register of the sensor, and no operation makes an access beyond its list.
  For the master an operation that asks for an access is just a call with arguments
  that it may have (`StackAccesses`, `StackNextAccess`); a sensor that measures or
  loses its registers changes nothing that `IInv` speaks of (`MasterUntouched`), as
  long as registers hold bytes (`MeasuredIsBytes`, `PowerOnIsBytes`).
* `StackKeepsBus`: so the mutex is paired, a transfer belongs to its holder, `g_len`
  stays in bounds, no completion is left over, and a success is one of that very call,
  for a read with one reader. (`RegisterWrites` is not among them: here the sensor
  writes its registers, too.)
* `StackImplementsSensor`: with one reader `StackSpec => ImplementsSensor`. A call of the
  master is an `Ask` of `Bmp280` (`SensorAsks`), its return an `Answer`, and every other
  statement a stutter (`SensorAnswers`, from `PromiseReturn` and `PromiseInside`); the
  byte that stores or fetches a value is a `Perform`, and since only a sensor that is
  plugged in acknowledges one, it is a `Perform` that `Bmp280` allows
  (`SensorPerforms`, from `PromiseHardware`).

So the theorems of `Bmp280Proofs` hold for the driver in one piece: a reading is made
of bytes that the sensor showed during it, an open has found a BMP280, an ioctl that
returns 0 was done, a probe without a failed access has configured the sensor. This
last conclusion puts a theorem about `Bmp280`, with the constants and variables of
`Sensor` for its own, next to `StackImplementsSensor`; it is drawn here and not by the
prover, which has no use for the theorems of an instance. The assumptions of `Bmp280`
about its constants are those of `StackConstants`, `ReadersAreProcs` and
`UnitsAreKnown`.

### The life cycle

`LkmProofs` is about every table of modules. `LkmTypes` needs nothing but the types of
the table. Each of the other theorems says `Spec => []P` for every table with
`TextsAreSound`, which is what a reviewer can check statement by statement for a module
and the record of its defects:

| P | the text of the module | theorem |
| --- | --- | --- |
| `NothingLeft` | `Balanced`: each error label gives back what the steps before it took, or leads on to where it is taken too; the exit function gives back the rest, but for what is on record | `BalancedLeavesNothing` |
| `NeedsHeld` | `Ordered` as well: what a resource relies on is there for sure when it is taken (or the step fails), and after it in each list of releases, or in none | `OrderedKeepsNeeds` |
| `ReleasedOnce` | `Releasable`: the lists, and init itself, name what is there for sure, and that once | `ReleasableIsReleasedOnce` |
| `UsesHeld` | `Usable`: a step uses what is there for sure | `UsableIsHeld` |
| `LoadedMeansReady` | `Complete`: nothing is lost by a failure that init goes on after | `CompleteIsReady` |
| `HeldAsWritten` | `Balanced` | `TextBoundsHeld` |
| `FileUsable` | `Guarded`: once the device file is there init fails no more, all that the file needs is there for sure, and the module has an owner | `GuardedIsUsable` |

"For sure" (`Sure`) is what the steps so far have taken (`Acquired`), less what ends
by itself and less what a failure may have lost on the way (`Lost`): one that goes
unnoticed, or one after which `retval` is still 0. The
inductive invariant `LkmInv` says where a module can be (`Place`), bounds what it has
from above (`HeldAtMost`, by what was acquired, is still to be released or is on
record) and from below (`HeldAtLeast`, by what is sure), and says that what a
resource relies on is held, and still to be released after it or never (`HeldInOrder`),
that what is still to be released is there, and once (`Pending`), and that files are
open only while the module cannot go (`OpenInside`). Its parts are proved one after the
other (`PlaceInvariant` to `OpenInvariant`), each resting on the ones before it; the
lemmas about the text are `AcquiredGrows`, `AcquiredKnown`, `LostGrows`, `PrecedesTail`,
`MembersTail` and `RepeatsTail`. The premise is no hypothesis about the repository:
that the texts of its 24 modules are sound is checked by `Lkm_all` (`HeldAsWritten`),
completely, since the tables are finite.

### The temperature

`TemperatureProofs`, for every calibration and raw value without an overflow:
`FahrenheitIsClose` and `TextIsRight` rest on nothing but integer arithmetic and the
type of the state. `WarmerStaysWarmer`: the examples never show a lower temperature
for a higher raw value if the linear term of the compensation outweighs the
quadratic one (`Dominant`: 8 T2 is at least 33 |T3| + 32768, which the datasheet's T2 of
26435 and T3 of -1000 are far from violating). The argument (`CompensateGrows`): from
one raw value to a higher one the square, divided by 4096, changes by at most 33 per
unit (`SquaresApart`), so that the quadratic term takes away less than the linear one
adds, all roundings included; the assumption is needed, since with a large T3 the
parabola has its vertex within the range. `PositiveWordsAgree`: the driver computes
what the examples do if no calibration word is negative, so that the sign is all
that finding 4 is about. `ExamplesStayInRange` and `DriverStaysInRange`: no product
overflows as long as the raw value is within 16 * 32767 of 16 * T1 and |T3| is at most
8191, for the driver within 16 * 11585 and any T3.

### The examples

`WaitQueueProofs`: `TypeCorrect`, `NoWakeupIsLost`, `ReportsAreOfInputs` and
`CodeIsUnused` for any writers and inputs. `NoLostWakeup` is inductive with the types;
`ReportsWhatWasWritten` needs that the value in `watch_var` is a fresh one, and
`CodeUnused` how far the exit function can have come (`Unloading`).

`DeviceProofs`, for any programs and data:

* `TaskIsAlive` and `NoTaskAfterLastClose`; the invariant adds that two processes
  have a file in common only by a fork (`SharedByFork`). `SoleHolderIsSignalled`: what
  is left of the claim that `Signal_lost` refutes, that while one process at a time
  has the device open (`OneHolder`) a press always reaches the one that registered.
* `PollinIsOfAPress`, `PressesAreKept`, `NobodyIsLeftAsleep`; the first needs that a
  set flag is a press that nobody was told of (`FlagIsForAll`), the last that a
  sleeper is in the queue and that a wake-up empties it.
* `AnswersAreProducts`, with `MultInv`: what a program knows is what is there.
* `TextsComeBack`, `OnlyStoredIsRead`, with `EchoInv`: the bytes below the length
  were stored, and during a write or a read that is alone they are those of the
  text, up to where it has come.
* `LedDoesAsAsked`, with `LedInv`: what the part that is already written asked for is
  what the LED shows, so that the last write decides.

`ExamplesProofs`: `BoardTypes` and `BoardIsSafe`, the same for the board. `BoardInv`
is the conjunction of the invariants; a step of one example is a step of its own
specification or leaves its variables unchanged, and the proofs of the parts are
used as they are.

### Only model-checked

Liveness (`CallReturns`, `ValueIsTaken`, `UnloadEnds`, `PressIsNoticed`), which is
beyond the prover; and that the tables of the 24 modules are sound to begin with,
a fact about finite data that TLC evaluates for each of them. What the findings refute is proved under the condition that it
lacks: one reader (or the weaker `ReadsAreFresh` with many), answers in time, no failed
access, no negative word, no failure that init goes on after, one process at a time. No module has a
recursive operator.

The other way round, some statements are proved and are not checked by a run of
their own. What they are for is checked itself: the inductive invariants `IInv`
and `SentInv` of the I2C master, the type invariant of the board (`BoardTypes`),
`PositiveWordsAgree`, and `NobodyStuck` and `EveryStepCounts`, which are there for
`CallReturns`; or they are about the driver in one piece. `UsesHeld` and `RegisteredIsSignalled` are run where they fail,
and proved under the condition that fails there.

## 10. What is assumed, and what is not modelled

Assumptions:

* One core (AM335x): no process runs during a pass of the handler.
* The I2C clock is awake (`prv_wakeup` is left out), and only the sensor is
  addressed.
* After a NACK or a lost arbitration no ARDY follows; a START while a transfer runs
  restarts the controller.
* Late answers are transfers that outlive the 100 ms of their caller; the runs that
  pass have `LateAnswers` FALSE, and so have the theorems that say so.
* The shared plain variables are read and written as single words. The two reads of
  a calibration word (bmp280.c:40-45), whose order C leaves open, are taken from left
  to right.
* Of the kernel: which functions return an error pointer and which a null pointer
  (`LkmTable` names them), `unregister_chrdev` finds nothing under a device number, a
  failed `device_create` leaves nothing, and the driver core releases the `devm_`
  resources after probe failed and after remove. What the kernel does with an error
  pointer that a module uses or releases is beyond the model: that it happens is what
  `UsesHeld` and `ReleasedOnce` say.
* No product of the compensation overflows, see section 5.
* History variables (`did`, `owner`, `sent`, `seen`, `last`, `fresh`, `owed`, `sharers`,
  `untold`, `unseen`, `clean`, `alone`, `own`, `arg`, `order`, `before`) are read by
  properties and other history only, except that `did` and `res` are part of `RegisterBus`.

Not modelled:

* of `cotti_i2c.c` the wake-up of the clock (`prv_wakeup` spins until it runs: the
  hardware behind it is not described in the repository) and, in `LkmTable`, the
  setting of the controller's registers, which is one step; the reset loop is one
  step that may fail;
* the file operations of 004_pwm_driver, which never run with a PWM (section 6), and
  the read of the button in 003, which has no state;
* the two waits of 022_completion beyond their timers: they end by their timeouts
  whatever the callback does, and only a text tells which it was;
* 001, 009 and 023, which print a text; 015 and 016 apart from init and exit: their
  file operations copy a buffer or print a text;
* the user programs: the models let a user make any call in any order;
* device trees, scripts, udev rules, notes and the bare-metal programs: data or
  I/O without state of their own.
