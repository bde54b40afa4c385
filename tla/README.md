# Formal models of My_linux_drivers

TLA+ models of the drivers and of the weather-station application of this
repository, the configurations that check them with TLC, and theorems about
them that TLAPS checks. Every definition follows the C source; paths below are
relative to `src/`.

## The system

A BeagleBone Black runs a user-space application that shows the readings of two
temperature and humidity sensors on a small display, saves them to an EEPROM,
flashes two LEDs and counts the presses of a push button. Each device has a
loadable kernel module; the application talks to all of them through files.

| Component | State | Operations | Talks to |
|---|---|---|---|
| SSD1306 display driver, `i2c/ssd1306/ssd1306.c` | text cursor `cursor_pos`, `line_num` | probe, remove, files `message`, `command`, `cursor_pos`, `line_num` | controller, one byte per I2C transfer |
| AT24C64 EEPROM driver, `i2c/at24c64/at24c64.c` | position of each open file | open, read, write, llseek | chip: address pointer, pages, write cycle |
| Push-button driver, `gpio/gpio_irq/gpio_irq.c` | registered task, six resources | init, exit, ioctl, release, interrupt | signal 44 to the registered process |
| DHT11 driver, `gpio/dht11/dht11.c` | last pair read, mutex | probe, files `update`, `temperature`, `humidity` | sensor, bit by bit over one line |
| AHT10 driver, `i2c/aht10/aht10.c` | last pair read | probe, files `temp`, `humid` | sensor, a command and an answer over I2C |
| LED driver, `gpio/led_control/led_control.c` | a device per LED | init, exit, probe, remove, files `direction`, `value`, `label` | GPIO lines |
| Application, `application/*.c` | tick flag, press counter, last readings, copy of the LEDs | a cycle per tick, two signal handlers | the files of all drivers |
| LED PWM driver, `pwm/led_pwm/led_pwm.c` | a PWM chip on the kernel's list | init, exit, probe, remove, users of its channel | PWM core |
| I2C, SPI and sysfs examples, `i2c/i2c_sysfs_driver`, `i2c/test_i2c_driver`, `spi/test_spi_driver` | what they register | init, exit, probe, remove | driver core |
| `application/check_drivers.c`, `i2c/test_i2c_app` | none | open a file, or send a message, once | - |

### What is hard about it

* **Nothing is locked**, the DHT11's reading excepted. A file may be used by
  several processes at once; their transfers interleave on the bus, and the
  devices at its ends have state of their own (RAM pointer and command decoder
  of the display, address pointer of the EEPROM).
* **Two copies of one state**: the display's cursor in the driver and its
  pointer in the controller; the LEDs and `leds_data`; the file position the
  kernel keeps and the copy a call works on. Nothing is read back.
* **Results of transfers are ignored** almost everywhere: a failed one is a byte
  that never arrives, or a buffer that was never filled.
* **Signals** interrupt the application between any two steps; the interrupt
  signals a process registered long before, which may be ending.
* **Widths and edges**: bytes that hold cursor positions, counts passed as `u8`,
  20-bit values scaled in `u32`, lines and pages that wrap.
* **Partial failure**: probe of the LED driver may fail at any child, with the
  devices of the earlier ones registered; each driver's init and probe handle
  refusals in a way of their own, or not at all.
* **Things that outlive their owner**: root devices, files, a device node, a line or
  a PWM chip may stay when a driver is unbound or its module unloaded, and lead
  into memory that has been given back.
* **Waiting**: the DHT11's bit loops have no time-out and hold the mutex.

What makes each component correct: a glyph lands where the text cursor says and
the controller is never left in the middle of a command (display); a read
returns the bytes at its position and a write stores all of its bytes (EEPROM);
only a live process that handles the signal is signalled, and each press at most
once (button); stored values are ones the sensor has sent (DHT11, AHT10); a file
never outlives the data it leads to (LED driver); what a module has taken is
given back, and no pointer outlives what it points to (all modules); every text is in its place after
a cycle, presses get shown and LEDs flash (application). `PROJECT.json` lists the
hazards line by line with the properties that address them.

## The modules

| Module | Models | With |
|---|---|---|
| `Ssd1306Controller` | the display's command decoder, window, RAM pointer | external: from the bytes the driver sends |
| `Ssd1306` | the display driver, one transfer or cursor store per step | `MCSsd1306`, `Ssd1306_proofs` |
| `TextDisplay` | what the display's files promise: cells, a text cursor, glyphs that land at it | abstract specification |
| `ByteFile` | what `/dev/at24c64_eeprom` promises: a plain file, every call at once | abstract specification |
| `At24c64` | the EEPROM driver and its chip, one transfer per step | `MCAt24c64`, `At24c64_proofs` |
| `GpioIrq` | the button driver with its loading and unloading, the kernel's signals, the processes | `MCGpioIrq`, `GpioIrq_proofs` |
| `Dht11` | the DHT11 driver, its sensor and the mutex, one byte per step | `MCDht11`, `Dht11_proofs` |
| `Aht10` | the AHT10 driver and its sensor, one transfer or store per step | `MCAht10`, `Aht10_proofs` |
| `LedControl` | the LED driver: init, probe, remove and exit step by step, its files in use meanwhile | run as it is; `LedControl_proofs` |
| `Application` | `main` and its helpers, one call of a helper per step, and both handlers | `MCApplication`, `Application_proofs` |
| `Lifecycle` | loading, binding, unbinding and unloading of the other eight modules, their files in use meanwhile | run as it is; `Lifecycle_proofs` |

A call in progress is a record in the variable `call`: `at` is the place it has
reached, the other fields are its locals. A guard `call[u].at = "..."` is
therefore the program counter; the other conjuncts come from the code's
conditions. An operator marked *Mutant of X* is a plausible bug in X's code, kept
beside it: put in X's place it makes TLC report the property it is paired with in
`PROJECT.json`.

**Ssd1306.** `ssd1306_set_cursor` is `SetCursor` (range check and the two stores)
and six `SendCursorByte`, whose bytes are loaded from the shared structure when
they are sent. `ssd1306_string` and `ssd1306_print_char` are `PrintChar`,
`GoToNextLine`, `WriteColumn`, `LoadCursor` and `StoreCursor`, since
`cursor_pos++` is a load and a store with no lock. Probe and remove go through
`SendInitByte`, `FillByte`, `ClearOnRemove`, `SwitchOff`. A glyph is columns of
ink; which pixels it has is left out. `IsTextDisplay` is the refinement: the window is
the abstract cursor's place as `Shown...` computes it from a call's progress, since a
column is printed when its transfer ends, before its `cursor_pos++`, and a message's
text stays in the user's hands until its last column. `SetCursorRepairs`
names a call of set_cursor that gets through after earlier transfers have failed.

**At24c64.** `Begin` is a call up to its first transfer, `SendData` a write's
transfer, `SendAddress` and `Receive` a read's two, `Return` the end of the call,
where the kernel stores the position back. `SendFollowsNull` is the page write whose
`devm_kzalloc` has failed: that is logged, and the NULL written to. `IsByteFile` is the refinement: the
chip's first `LAST_BYTE` cells are the file's content.

**GpioIrq.** The interrupt handler is one step: the board has one CPU and the
handler runs between steps of processes. The end of a process closes its files,
and so runs `my_close`. `Insmod`, `InitStep` and `InitFails` are `gpio_irq_init`, with
`AfterInit` its order and `Undone` its ladder of `goto` labels; `Rmmod` and `ExitStep`
are `gpio_irq_exit`. `held` is what the module has taken, `stale` what a load that
failed has left. The state "oops" ends a behaviour: the kernel has followed a
pointer into the module after it was freed, or was asked to give back what was
never taken.

**Dht11.** `UpdateShow`, `MutexLock` and `MutexUnlock` are `update_show`;
`InitAnswered` and `InitSilent` are `dht11_init`, `ReadByte` a round of the loop in
`dht11_get_data`, `StoreHumidity` and `StoreTemperature` its two assignments,
`Discard` a wrong control sum, `Hang` a wait loop without an end. A start signal
during another's frame leaves the other's remaining bytes arbitrary. `ProbeReads` is
the reading probe takes after creating the files, without the mutex; `beside` and
`spoilt` are history variables that tell which stored pair is of a call that was in
`dht11_get_data` together with probe's.

**Aht10.** `Show` begins a reading, `Send` and `Recv` are its transfers,
`StoreTemperature` and `StoreHumidity` its assignments to the shared pair, `Return`
shows the pair's value. `SensorInit` is probe's initialisation, after which probe
takes a reading like everybody else. Bytes and words have their real widths.

**LedControl.** `ProbeEmpty` is the `-EINVAL` of a node without children, `Probe` is
`probe` up to its loop otherwise, `SetUpLine` and `CreateDevice` the
two halves of a round, before and after which the files of other LEDs may be used;
`Unregister` is a round of remove's loop. What the driver core does with a failed
probe and an unbound driver (free what `devm_` gave) is part of `ProbeFails` and
`Removed`. `files` pairs a device with the binding that created it, `data` the
private data that are still there. `CreateClass` and `RegisterDriver` are the module's
init, `Unload` and `DestroyClass` its exit; `before` tells which devices are of an
earlier load, whose directory keeps their names taken.

**Application.** A cycle is the sequence `Cycle` of `main.c`'s calls, in order;
each call is a step on the display, the readings, the LEDs or the EEPROM as the
drivers' files offer them. Texts are sequences of glyphs because
`TextsInPlace` is about which glyphs are left on the display; `FilePos` is what the
EEPROM driver's `llseek` makes of an offset. `Fail` is any of the error checks that
ends the process, `Hang` a read of `update` that stays in one of the DHT11 driver's
wait loops, where no handler runs any more.

**Lifecycle.** Each of the eight drivers is four lists of steps: init, probe, remove
and exit, in the order of its source. A step of init or probe says what it gets and
what the driver does when it is refused: `Gets` returns an error, `GetsIfItCan` goes
on, `GetsBlindly` goes on and follows the pointer; `Follows` uses something an earlier
step should have set, `Sets` cannot be refused, `Talks` uses the device. The actions
are the kernel's: it runs init and exit (`Load`, `InitStep`, `Loaded`, `Unload`,
`ExitStep`, `Unloaded`), probes and removes at any time between (`Bind`, `Probe`,
`Probed`, `Unbind`, `RemoveStep`, `Removed`), and lets processes into the files
(`Enter`, `Leave`, `Open`, `Close`, `Transfer`, `Request`, `Release`). `there` is what is
in place; "stale" in it are files or a cdev of a module that is gone, "dangling" a PWM
chip in memory given back, "leak" a device number nobody can free any more. `kernel`
becomes "oops" when a pointer is followed to nowhere, or to any of these (`Stray`).

## What is checked

Runs that pass:

| Run | Shows |
|---|---|
| `ssd1306_sole` | One user: until a transfer fails, glyphs land at the text cursor whatever texts and positions are written (`DataAtCursor`), `set_cursor` reaches its position (`SetCursorMoves`), probe and remove blank the panel though `fill` only writes the current window (`BlankAfterFill`); after a failed transfer, text and window come together again for good (`ResyncAfterLoss`), and one `set_cursor` that begins between commands is enough for it (`SetCursorRepairs`); until a transfer fails, the display's files do what `TextDisplay` promises (`IsTextDisplay`) |
| `ssd1306_duo` | Two users: however their bytes mix, when no call is inside a sequence the controller is not left waiting for an argument, but for one case: a line number that is an opcode of two arguments, taken for one, leaves it exactly one argument short (`FramingRestored`) |
| `at24c64_sole` | A careful user of two open files: reads, writes and positions are those of a plain file (`WriteStores`, `IsByteFile`) |
| `at24c64_careless` | Any counts, roll-over, write cycles, failures and seeks: nothing past the end of the file is written (`OutsideUntouched`), no position leaves it (`TypeOK`) |
| `gpio_irq` | The registered task is alive (`TaskAlive`), nobody is ended by the signal (`NeverKilled`), no press counts twice (`CountedOnce`); the handler never runs without its line or module (`HandlerBacked`), nobody is registered while the driver is unloaded (`QuietWhenGone`); a load refused before the line leaves nothing behind (`NothingLeftBehind`), and the kernel comes to harm only after one of five refusals (`HarmNeedsRefusal`) |
| `dht11` | What is stored is a pair the sensor sent, with one byte of a frame misread, silent and stopping sensors, unless a call beside probe's stored it (`StoredIsSent`); every `update` returns unless somebody's reading is stuck in a wait loop (`UpdateEnds`) |
| `aht10` | Until a transfer fails, values shown were measured although all calls share the result (`ShowsMeasured`); after that, they stay in the sensor's range (`TypeOK`) |
| `led_control` | With no, one, two or three children, while no step of a load or probe fails, files have their data (`FilesHaveData`) and the driver can be bound again, also by the next load, if its node has children (`BindsAgain`); LEDs are dark until written (`DarkUntilWritten`); remove meets a NULL only with a disabled child or after a failure (`OopsNeedsDisabled`) |
| `application` | Texts in place (`TextsInPlace`), LEDs as the copy says (`LedsFollow`); until a helper exits or a read of `update` hangs, the LEDs flash (`Flashes`) and a press comes to be shown (`PressShown`) |
| `lifecycle` | For all eight modules: files that lead into a loaded module find what they follow (`FilesHaveData`); a pointer to nowhere is followed for one of six reasons only, each of some drivers (`OopsExplained`); what an unloaded module can leave behind (`CleanUnload`) |

Runs in which the code does not do what one of its own lines says:

| Run | Property | The code |
|---|---|---|
| `ssd1306_duo_range` | `MovesOnlyInRange` | two users: after the display's initialisation, a `set_cursor` has passed its range check and the other user stores 200 before the position byte is sent |
| `application_slots` | `SlotsKept` | `lseek` reports the position and moves nothing: all texts are written at 0 |

### Noticed while modelling

No run is spent on these; the models contain the behaviour, and properties that
would fail because of it are stated so that they do not depend on it.

* `i2c/at24c64/at24c64.c:290` counts a write as successful whatever the transfer
  did: over the end of a page, with a count over a `u8`, or during a write cycle
  bytes are not stored (`WriteStores` is checked for the careful user only).
* `i2c/at24c64/at24c64.c:320` says "NEED TO LOCK" and nothing locks: another process's
  call between the two transfers of a read moves the chip's pointer, and the read
  returns other bytes (`IsByteFile` is checked for one user). Lines 143-148: without
  memory for its command, a page write follows NULL.
* `i2c/ssd1306/ssd1306.c:241`: `line_num_store` keeps any byte. With 33 or 34 stored
  between another call's range check and its line byte, two `set_cursor` whose bytes
  mix can leave the controller waiting for one argument (the exception of
  `FramingRestored`); the next command byte is lost to it.
* `i2c/ssd1306/ssd1306.c:430`: `fill` covers the current window, not the display,
  after a message; line 507: probe is "successful" with bytes of the
  initialisation lost.
* `gpio/gpio_irq/gpio_irq.c:58`: any process that closes the device removes the
  registration of the application; lines 92-103: a failed `class_create` or
  `device_create` undoes everything and returns 0, so that the module counts as
  loaded with nothing in place, and exit then frees what was never taken; lines
  106-127 keep the class and the device of a module that is not loaded.
* `gpio/dht11/dht11.c:74-77`: `update` answers "SUCCESS" for a silent sensor and a
  wrong control sum too.
* `i2c/aht10/aht10.c:177`: after a failed transfer, the bytes that lay on the stack
  are converted and shown; lines 150-152: the count 1 is taken for an error, and
  the sensor's status is never fetched.
* `gpio/led_control/led_control.c:196-212`: after a failed probe the files of the
  children before lead to freed data and block the next probe; line 228: with a
  disabled child, remove passes NULL to `device_unregister`.
* `application/main.c:40`: `str_button_push` has room for nine digits, the count is an
  `unsigned int`.
* `i2c/aht10/aht10.c:277`, `i2c/ssd1306/ssd1306.c:516` and `gpio/dht11/dht11.c:171`: remove
  deletes the bound device's own kobject, so that the device cannot be bound
  again until the next boot; the root devices of the first two, with their files,
  outlive even the module. `OopsExplained` shows what that saves them from: the
  sysfs example, which deletes nothing, oopses when it is bound a second time.
* `i2c/at24c64/at24c64.c:431-440`: exit leaves the device node and the cdev; the next
  load finds its node's name taken, and an open of the old one is followed into
  memory given back. Line 322: the node exists before `driver_data.client` does.
* `pwm/led_pwm/led_pwm.c:113`: remove ignores that `pwmchip_remove` refuses while the
  channel is in use, and the chip's memory is given back under its user.
  `led_pwm_config` always asks for a duty of 1e9 ns in a period of 5e8, which the PWM
  core refuses with `EINVAL`.
* `i2c/aht10/aht10.c:231` and its likes: `get_platform_data_dt` returns NULL for a device
  that is not in the tree, which `IS_ERR` does not take for an error.
* `application/main.c:51`: a text that becomes shorter leaves a glyph of the longer
  one ("10C", then "9C", reads "9CC"); lines 90-98 save the DHT11's strings where
  the AHT10's are meant.

### Bounds

* Display: panels of two or three columns and one or two lines, glyphs of one
  column: the edge, the last start that fits, one too far and the wrap
  occur within a text of two characters. Positions include one past the panel
  and 256, which a byte stores as 0; for the framing, positions that are opcodes
  with one and two arguments and a line number that is one with two. `MaxLoss` bounds failed transfers: one for one
  user, none for two.
* EEPROM: pages of three bytes, a file of five in a chip of six, counts that
  overflow at four: a write over a page's end, over the file's, and a count of
  0, of one and of the overflow all occur. The two open files of the careful user
  are interchangeable, and TLC checks them up to symmetry. `MaxErrors` bounds failures for
  reasons other than the write cycle.
* Button: two applications and a visitor, four presses (`MaxPresses`), two
  queued signals (`MaxQueued`): the queue fills and overflows. Two loads
  (`MaxLoads`), for what one leaves to the next, and two refusals (`MaxFaults`).
* DHT11: two users and probe; one reading, which differs from the pair stored before
  it in both places, and noise that makes a byte of one into that of the other, so that
  a mixed frame can have a right sum; `MaxNoise` is 1, the most the control sum can
  promise to find.
* AHT10: two users, up to symmetry, and probe, with a measurement of zeros and one
  whose nibbles all differ (the arithmetic for all others is proved); the
  multiplications stay below 2^28. One transfer fails (`MaxErrors`), after which
  the stack's six bytes are what they are in `OnStack`.
* LED driver: up to three children, so that there may be none, and one can be disabled, or
  fail, before, between and after others; two loads and two bindings (`MaxLoads`, `MaxBinds`) for what one
  leaves to the next; one failing step (`MaxFaults`).
* Life cycle: three loads and three probes (`MaxLoads`, `MaxProbes`), since what the
  first leaves to the second may be what the third meets; two processes in or with
  a file (`MaxUsers`), one of which stays when the other goes; two refusals
  (`MaxFaults`), so that one may fail on the way out of another. None of the lists has
  more than seven steps, and all are walked to their end.
* Application: a reading of two glyphs ("9C") and the longest, of four ("-50C"), one
  press (`MaxPresses`); the theorems have all readings from -50 to 255 and every count
  of up to nine digits (`MostShown`), which is what the string has room for.

### Fairness

* `ssd1306_sole`: weak fairness of each call's own steps (`Continue`): a call
  waits for nobody. Beginning a call is never forced.
* `dht11`: weak fairness of a call's steps (`Work`) and of probe's (`ProbeReads`), and
  strong fairness of `MutexLock`: the kernel's mutex hands itself to its waiters in turn. A wait loop
  that does not end (`Hang`) is never forced; `UpdateEnds` allows for it, because
  the loops have no time-out.
* `application`: weak fairness of `main` (the process is scheduled) and of
  the tick (`it_interval` repeats it). Nobody has to press the button. A helper
  may fail and end the process, and the read of `update` may never return (`Hang`): the
  fairness of `main` asks for neither and excludes neither, and the properties allow
  for both.

Deadlock is checked, except where the system may stop: the application after
its exit, the button's processes after theirs, the DHT11's users when the
sensor has stopped, and the modules of `GpioIrq`, `LedControl` and `Lifecycle` after
an oops or their last load.

## What is proved

TLAPS checks these for every value of the constants that satisfies the stated
assumptions.

* `Ssd1306_proofs!TypeCorrect`: all variables keep their types; cursor and locals
  are bytes, window and pointer stay on the panel. The invariant adds that a call
  is within the length of its sequence (`CallOK`), without which `InitBytes[n]`
  and `Head(rest)` mean nothing.
* `Ssd1306_proofs!FramingCorrect`: `FramingRestored` for any number of users and any
  numbers written to the files, until a transfer fails. The invariant: what the decoder
  waits for is at most what some call inside a sequence has still to send, unless a line
  byte has been taken for an opcode of two arguments; the byte after it is the last of
  `set_cursor`, so that one argument is then missing, and the opcode it is missing to is
  a stored line number.
* `Ssd1306_proofs!CursorTracksPointer` and `SetCursorReaches`: `DataAtCursor`
  and `SetCursorMoves` for one user, on any panel and for any texts. The invariant
  `UntilLoss`: until a transfer fails, `SoleInv` gives for each place of a call how
  cursor, pointer and decoder are related there: equal before a glyph, one apart
  between a transfer and its `cursor_pos++`, unrelated once only the spacing column
  has wrapped.
* `Ssd1306_proofs!PanelBlanked`: `BlankAfterFill` for one user on any panel. The
  invariant `Blanking`: probe and remove come to their fill with the window on the
  whole panel and the pointer at its first cell; from there (`Filling`) the byte
  counter is the pointer's line times the panel's width plus its column, and the
  cells before the pointer are blank, so that counter and pointer reach the end
  together.
* `Ssd1306_proofs!ImplementsTextDisplay`: `IsTextDisplay` for one user, on any panel and for
  any texts, until a transfer fails. Every step of the driver is a step of `TextDisplay` or
  changes nothing of what is shown (`TextStep`). It needs `SoleInv` and `Blanking`, for
  where a column lands and what fill has blanked, and `TextPhase`, which says what of the
  text is still unprinted at each place of a call.
* `Ssd1306_proofs!DecoderRecovers` and `CursorRepairs` (`SetCursorRepairs`), for one user
  after any number of failed transfers. While nothing further fails: a `set_cursor` that
  still has two bytes to send leaves the decoder between commands, whatever it was
  waiting for, because its last bytes are page numbers, which are no opcodes with
  arguments (`Framing`); and a `set_cursor` in range that begins between commands brings
  pointer and text cursor together, since the sixth byte makes `SoleInv` hold again
  (`Repairing`). These are the safety halves of `ResyncAfterLoss`.
* `At24c64_proofs!TypeCorrect`, `OutsideSafe`: positions stay in the file and no
  byte past its end is written, for any users, counts and failures. The invariant
  `InFile` says that the copies a call works with are in the file together: the
  count was clamped against that very position.
* `At24c64_proofs!ImplementsByteFile`: for one user within the chip's limits
  and without seeks and errors, the driver implements `ByteFile`. The invariant:
  an unfinished call's position is still the file's, and between the two
  transfers of a read the pointer is at it. From the same invariant `WritesStored`
  (`WriteStores`).
* `GpioIrq_proofs!RegisteredSafe`, `TypeCorrect`, `SignalHandled`: `TypeOK`, `TaskAlive` and
  `NeverKilled` for any processes. Strengthened by: only applications register, and
  one that has the device open handles the signal.
* `GpioIrq_proofs!CountedAtMostOnce`: `CountedOnce` for any number of processes, by
  the sizes of two sets: the signals that processes have counted or have in their
  queue, each a process with a number, are at most as many as the presses, and one
  press adds one.
* `GpioIrq_proofs!HandlerHasItsLine` (`HandlerBacked`), `UnloadSafe` (`QuietWhenGone`),
  `CleanUnlessLate` (`NothingLeftBehind`) and `LaddersBlamed` (`HarmNeedsRefusal`), for any number of loads and refusals.
  The invariant says what the module holds at each step of init (`WhileLoading`), of
  exit (`WhileUnloading`) and when it is loaded; that a file is open only while the
  module has its device (`OpenBacked`); and which refusals leave something behind
  (`StaleNeedsLate`).
* `Dht11_proofs!TypeCorrect`: no byte is read or written past `data[4]`, for any noise.
  `NothingInvented`: `StoredIsSent` if noise changes at most one byte of a frame
  (`MaxNoise <= 1`) and readings are in the sensor's ranges. The invariant: a user in
  `dht11_get_data` holds the mutex (`Alone`), so that two callers are there together
  only if one is probe, and both are marked (`Apart`); the frame of an unmarked call
  is not cut off and differs in at most one byte from one that was sent (`Near`), and
  such a difference makes the sum wrong.
* `LedControl_proofs!FilesSafe`, `CanBindAgain`, `Dark`, `OopsBlamed` and `TypeCorrect`:
  `FilesHaveData`, `BindsAgain`, `DarkUntilWritten`, `OopsNeedsDisabled` and `TypeOK` for
  any number of children, none included, loads, bindings and failures. The invariant:
  no child has
  two devices; until a step fails, every device is in the part of `dev[]` that probe has filled or remove has still to
  visit (`Listed`), so that remove finds them all; where no child is disabled, that
  part is all of `dev[]` in the end.
* `Aht10_proofs!UnpackPack`: the shifts and masks recover every pair of 20-bit
  values from the sensor's bytes. `TypeCorrect`: stored and shown values are in
  range whatever failed. `ShownMeasured`: `ShowsMeasured` for any number of users.
  The invariant: until a transfer fails, bytes a call has fetched convert to values
  that were measured, and so does what it has stored, although others overwrite
  it.
* `Lifecycle_proofs!TypeCorrect`, `FilesSafe`, `OopsBlamed`, `UnloadClean`: the run's four
  properties for any number of loads, probes, processes and refusals. What the eight
  drivers' lists have in common is stated as lemmas about one step of a list
  (`InitLists` and the like). The invariant: the steps of probe before the current one
  that cannot have been passed over are in place (`Done`), a device is bound only
  while the driver is on its bus (`OnBus`), a root device is there from its step on
  (`Roots`), and a driver has only what its own lists can get (`Kept`).
* `Application_proofs!TextsStand`, `LedsAsCopied`, `TypeCorrect`: `TextsInPlace`, `LedsFollow`
  and `TypeOK` for any readings from -50 to 255 and any number of presses up to 999999999
  (`ApplicationAssumption`: what the sensors' drivers can give, and what
  `str_button_push` can hold). The invariant
  follows the 32 steps of a cycle: where cursor and line stand before each message
  (`Position`), which texts have been written (`TextsSoFar`) and which LEDs toggled
  (`LedsSoFar`); readings are at most four glyphs long
  and the count nine (`Longest`), so that none reaches another (`Apart`).

Model-checked only: liveness (`ResyncAfterLoss`, `UpdateEnds`, `PressShown`,
`Flashes`), which needs fairness, and the runs in which a property fails.

## What is not modelled

* The kernel's own code: `Lifecycle` and the others have what its driver core, sysfs,
  PWM and GPIO cores do as the drivers meet it. Memory that runs out is a refusal;
  the buffers `at24c64_read` and `at24c64_write` never free are not counted, since
  every call may be refused for lack of memory at any time.
* What happens after an oops, or with data read through a pointer to memory given
  back.
* Formatting and parsing, where no property is about it; input `kstrtol` rejects
  changes nothing and is left out. Which pixels a glyph has, and characters below
  the font's first.
* Time: pauses are taken to be long enough, and the sensors' conversions to be
  shorter than they are.
* `check_drivers.c`, the log file, `read_at24c64` and `send_led_value` of the
  application, which `main` does not use; the test program of the I2C driver; what
  the files of the sysfs example and the PWM operations do, which is to log or to
  pass constants on; `test_i2c_read`, `test_spi_write`, `test_spi_read`,
  `sysfs_i2c_write` and `sysfs_i2c_read`, which nothing calls.
* Device trees and build files: whether a device is in the tree is an input of
  `Lifecycle`, which children are enabled one of `LedControl`.

## Plan

Done of the plan: the drivers and the application one by one, the life cycle of
every module, abstract specifications of the EEPROM's file and of the display, and
proofs of all safety properties. Left:

1. `Station`: `Application` composed with the promises of the drivers (`ByteFile`,
   `TextDisplay`) instead of its own view of them.
2. An abstract specification of a sensor file (a pair that changes at once) that
   `Dht11`, for settled states, implements; and that its mutex is held by a call
   exactly while it is between lock and unlock.
