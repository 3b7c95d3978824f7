# TLA+ verification of the Digi Embedded Android device tree

This directory models and verifies the program logic of `android_device_digi`:
the serial-port library `librxtxSerial` (Java and C), the location service of
`DigiServicesApp`, the U-Boot scripts that install the firmware and the image
tool `mkimage`.  The rest of the tree is configuration; see "Not modelled".

Paths below are relative to the repository.  `J/` stands for
`src/common/librxtxSerial/java/android/gnu/io/`, `C` for
`src/common/librxtxSerial/lib/SerialImp.c`, `L/` for
`src/common/DigiServicesApp/src/com/digi/android/server/location/` and `MK` for
`src/common/extras/mkimage/mkimage.c`.

## 1. Inventory

### The serial library

| part | state | operations | what makes it correct |
|---|---|---|---|
| `J/CommPortIdentifier.java`: the identifiers | the chain `CommPortIndex`; per identifier `Available`, `Owner`, `commport` | `getPortIdentifier`, `getPortIdentifiers` (rescan), `open(owner, timeout)`, `internalClosePort`, ownership listeners | one owner at a time; waiters hear of a release; an identifier in use survives a rescan |
| `J/RXTXCommDriver.java`: the scan | none of its own; registers what it finds | `initialize`, `registerScannedPorts`, `registerSpecifiedPorts`, `getCommPort` | every usable device is registered once |
| `J/CommPortEnumerator.java` | a pointer into the chain | `nextElement`, `hasMoreElements` | enumerates what was listed |
| `J/RXTXPort.java`: an open port | `fd`, `IOLocked`, `closeLock`, `MonitorThreadLock`, `MonitorThreadAlive`, `monThreadisInterrupted`, `monThread`, `SPEventListener`, event flags | constructor, `close`, the streams' `read`/`write`/`flush`/`available`, `addEventListener`, `removeEventListener`, `notifyOn...` | no native call on a closed descriptor; at most one monitor thread; nobody waits for ever |
| `C` event loop | the list `master_index` of `event_info_struct`; `eventflags`, `eventloop_interrupted`, `closing`, cached line state | `eventLoop`, `interruptEventLoop`, `nativeSetEventFlag`, `report_serial_events`, `send_event` | a loop that was told to stop stops; an event is reported once |
| `C` reading and writing | local counters; `eventflags[DATA_AVAILABLE]` is saved, cleared and restored | `read_byte_array`, `readArray`, `readTerminatedArray`, `readByte`, `writeArray` | the threshold and timeout table; the flag is as before when a read returns |
| `C` lock files | `/var/lock/LCK..<dev>` and `LK.<maj>.<min>` | `fhs_lock`, `fhs_unlock`, `is_device_locked`, `check_lock_pid` | one process per device; a crashed holder does not block a device for ever |
| `C` preopened ports | the list `preopened_port` | `static_add_filename`, `find_preopened_ports`, `nativeStatic...` | a descriptor set up before `open` is found by `open`, once |
| `C` line parameters, flow control, output lines | `termios`, `serial_struct`, the modem word; the port's cached `speed`, `dataBits`, `stopBits`, `parity`, `flowmode`, `timeout`, `threshold` | `set_port_params`, `translate_*`, `setflowcontrol`, `NativeEnableReceiveTimeoutThreshold`, `setDTR` ..., `set_java_vars` and the queries | what Java sets is what Java reads and what the line does, whatever else was set meanwhile |
| `lib/fuserImp.c`, `lib/*.cpp`, `lib/termios.c`, `lib/init.c` | | | not built for Android or out of reach (the JNI name of `fuserImp.c` belongs to the package `gnu.io`, the classes here to `android.gnu.io`) |

How they interact.  A client thread calls `CommPortIdentifier.open`, which
takes the ownership under the identifier's monitor and asks the driver for a
`RXTXPort`, whose constructor calls the native `open` (lock file, then
descriptor) and starts a monitor thread, which runs the native `eventLoop` and
calls the client's listener back.  `close` waits for reads and writes, stops
the monitor thread, closes the descriptor, removes the lock file and then looks
up its own identifier in order to release it.  A rescan, under the class lock
`Sync`, probes every device with the native `testRead`, which uses the same
lock files, and replaces the chain of identifiers.

### The services application, the scripts and the image tool

| part | state | operations | what makes it correct |
|---|---|---|---|
| `L/LocationThread.java` | executor, `lastLocation`, `reportInterval`, `randomMode` | `start`, `stop`, `setReportInterval`, `run` | no report after `stop`; times of reports increase; every mode reports |
| `L/DigiLocationProvider.java`, `L/DigiLocationService.java` | the thread, the provider | `onEnable`, `onDisable`, `onSetRequest`, `onUnbind`, `destroy` | the thread runs only while somebody asks for locations |
| `common/DigiServicesApp/.../DigiServicesApp.java` | none | registers 13 services of a library that is not in the tree | |
| `imx8q/ccimx8xsbcpro/install_android_fw_sd.txt`, `imx6dq/ccimx6sbc/install_android_fw_sd.txt` | the U-Boot environment, the partitions | two stages with a reset between, each step may fail | after any power loss or failure the board boots the firmware or resumes the installation |
| `*/bootscript.txt` | the environment | choice of device tree and boot arguments | |
| `common/extras/mkimage` (`mkimage.c`, `crc32.c`, `image.h`) | the image file: header, table of sizes, files | make an image of one or several files, list and check one | an image that `-l` accepts is whole; its table leads to its files; damage is noticed |
| `build/tools/mksdimage.sh`, `build/tasks/*.mk` | files on the build host | image assembly | |
| `common/DigiLicenseApp` | none | shows a page | |

### What is hard here

* Interleavings: client threads, the monitor thread of every port and the
  rescan share the identifiers, the lock files and the C list `master_index`,
  partly under locks, partly under flags that are tested and then set.
* Other processes use the same devices and the same lock files.
* Waiting: `open(owner, timeout)`, `close` against running reads, the
  `MonitorThreadLock` spin loop, `join(3000)`.
* State read before a lock is released and used after it: `close` looks its
  identifier up twice, and a rescan may come in between.
* Power loss between any two steps of the installation.
* Read-modify-write of three words of the device by eight setters, of which one
  is synchronized; the device then keeps what the fields of the port do not say.
* A hand-made doubly linked list whose head moves (`preopened_port`).
* A tool that writes the image first and its header last, and may be killed
  between the two.

`PROJECT.json` lists the hazards one by one, each at its line.

## 2. Plan

The library's own core is who may use a device and what happens while it is
used, so the ownership of ports and the lock files come first, then an open
port, then what its event loop and its reads do, then the services and the
scripts.  Modules that are about one mechanism share no variables; what one
needs of another is an action of its environment, listed with the module below.

| order | module | is about | uses | state |
|---|---|---|---|---|
| 1 | `Lease` | abstract: a resource passes between clients only by being given back | | done |
| 2 | `PortOwnership`, `MCPortOwnership` | identifiers, rescan, open and close inside one process | implements `Lease` | done, proved |
| 3 | `FhsLock` | the lock file of a device, between processes | implements `Lease` | done, proved |
| 4 | `PortIO` | an open port: streams, listener, monitor thread, `close` | | done, proved |
| 5 | `EventLoop` | one event loop and a read beside it | | done, proved |
| 6 | `LocationReporting` | the location thread and its provider | | done, proved |
| 7 | `FirmwareInstall`, `MCFirmwareInstall` | the installation scripts | | done, proved |
| 8 | `SetUpPorts` | abstract: what is set up before `open` is kept, port by port, until `open` | | done |
| 9 | `PreopenedPorts`, `MCPreopenedPorts` | the C list of ports set up before `open`, static setters and queries | implements `SetUpPorts` for careful clients | done, proved |
| 10 | `LineSettings`, `MCLineSettings` | requested settings, `termios`, `serial_struct` and modem word, and what Java reads back | | done, proved |
| 11 | `Crc32` | the checksum of `crc32.c`, and its mathematical definition | | done |
| 12 | `MkImage`, `MCMkImage` | `mkimage`: making, listing, interrupting and damaging an image | `Crc32` | done |
| 13 | `PortRegistration` | the order of the chain, `CommPortEnumerator` on a chain that is rebuilt | `PortOwnership`'s view of the chain | left |

Abstract specifications.  `Lease` is the promise of everything that hands out a
device; `PortOwnership` implements it with the owners of identifiers, `FhsLock`
with the settled holders of a lock file.  `SetUpPorts` is the promise of the static
calls; `PreopenedPorts` implements it as long as its clients are careful.

Theorems.  For `PortOwnership` and `FhsLock`: types, every safety property of their
runs and the refinement of `Lease`, that of `FhsLock` as long as every process can open files.  For `FirmwareInstall`: types and both invariants.
For `LocationReporting`: types and `OneExecutor`.  For `PortIO`, `EventLoop` and
`LineSettings`: types and every invariant of their runs.  For `PreopenedPorts`: types,
both invariants and the refinement of `SetUpPorts`.  Then, for every module with liveness
properties, what those need besides fairness: what a wait, a close, a read, a report or an
installation may never do meanwhile, or a measure that each of their steps lowers.  All of
these are proved (section 7).  Left: `MkImage`, whose properties are about the
checksum or about states that it tells apart.

## 3. The models

Every definition that stands for code is listed in `PROJECT.json` under "map"
with the lines it stands for.  Names are those of the code where TLA+ permits.
Definitions whose comment begins with "Mutant:" are faulty variants of a
definition that follows them; no specification uses them.  "mutants" in
`PROJECT.json` says which property fails when one takes the place of the
definition, and so which property would notice that bug in the code.

### `PortOwnership`

State.  `listed` is the chain that starts at `CommPortIndex`, as a set; its
order is not used by lookups.  `Available`, `Owner` and `commport` are the fields
of the identifier objects.  An object is a pair of a name and a generation, because a rescan makes a
new object for a name that it does not keep; a generation that nothing refers to
any more may be made again.  `scanner` is the thread that holds `Sync` for a
scan, `oldPorts` what it will restore from, `todo`, `probing` and `found` its progress.
`fd`, `name` and `closeLock` are fields of `RXTXPort`; `returned` are the ports that a
client has.  `lock` says for each device who has its lock file.  `pc` and the
variables after it are where each thread is.

Actions.  `open` is split where its monitor is released: `Open` (the test of
`Available`), `Contend` (the ownership request, which may make the owner's
listener close the port in between, the second test and `wait`), `Expire` and
`Expired` (the timeout), `GetCommPort` with `NativeOpen` (the lock and the
descriptor, each of which may fail), `OpenReturns` and `OpenThrows` (the
`finally` block).  `close` is `NativeClose`, then `LookupOwnIdentifier` twice, as
the code does, then `InternalClosePort`, each under `Sync` or the monitor that it
takes.  `GetPortIdentifier`, `GetPortIdentifierRescans` and `GetPortIdentifiers`
look up or start a scan; `TestReadLock`, `TestReadFails`, `TestReadUnlock` and
`EndScan` carry it out.  `DropIdentifier`, `DropPort`, `PlugOrUnplug` and
`OtherProcess` are the environment.

What a scan probes is `initialize`: for each type the ports that a property names,
or else the devices in `/dev` whose names begin with a prefix of that type
(`Prefixed`).  `Properties` are the values that the properties may have;
they are read once in each scan.  A failure of the native code becomes an exception only if the class
that it names is found (`throw_java_exception`, `KnownClasses`): the one of `open`
is not, so that its failure is invisible to Java and `GetCommPort` gets a port
without a descriptor.

Left out: the lock file is checked and taken in one step, so that within this module
two ports never have one device; its steps, and the two processes that may pass
between them, are `FhsLock`.  The
probe removes its lock before it closes its descriptor, which nobody else sees, and reads
(and drops) a byte; a descriptor too large for a `select` set aborts the process in the code;
preopened ports are `PreopenedPorts`.  A property that names a device twice, and
`addPortName`, are left out too: they put two identifiers of one name into the chain, and
the chain is a set here.  As the code of `getPortIdentifiers` reads, `oldPorts` then keeps one of the two,
and a rescan that finds the name twice puts that object into both places: what lies between them is lost, and
if nothing does, the chain points to itself.  Nothing here checks that.

### `FhsLock`

State.  `file` is the lock file of one device: whose pid it is to hold and whether
the pid has been written.  `alive` are the processes that run; `pc` and `seen` are
where each is in `fhs_lock` or `fhs_unlock` and the pid it has read; `settled`
are the holders that were at some time the only process busy with the file.

Actions are single system calls: `Stat`, `Read`, `Kill`, `Unlink`, `Create`,
`Write`, and `CheckLockPid` and `Remove` of `fhs_unlock`.  `check_group_uucp` is the test
whether lock files can be created at all.  `Refused` stands for the returns before
the file is looked at (no lock directory, another program's lock), and for those after it.  `Die` and
`Start` kill a process and reuse its pid.  A file that exists and has not
been written is read into an uninitialised buffer: what is read is any member of
`Garbage`.  The same is so of a written file that cannot be opened (`OpenFails`: a process
in `Starved`, which has no descriptors left).  An `unlink` may fail and leave the file
(`UnlinkFails`), after which the process is refused, and so is the next.

### `PortIO`

State.  `IOLocked`, `closeLock`, `MonitorThreadLock`, `MonitorThreadAlive`,
`monThreadisInterrupted`, `monThread` and the listener are the fields of
`RXTXPort`; `master` is this port's part of the list `master_index`, `loop`, `closing` and
`eisfd` are its entries; `descriptor` is the descriptor itself, which the field `fd` outlives
or is outlived by; `pc` and `kind` are where each thread is; `cut` records that a
`removeEventListener` was interrupted.

Actions.  Each stream call counts itself in (`peek`, `enter`), runs natively and
counts itself out; the kinds differ in what they test first and in which
waits they have; `flush` drains and may then call the listener in its own
thread (`NativeDrain`, `FlushListenerReturns`).  Native code reads the descriptor from
the field when it starts (`get_java_var`), and `interruptEventLoop` looks for the first entry that has
it (`Mine`).  `Close`, `AddEventListener`, `RemoveEventListener` and `Notify`
(the nine `notifyOn` methods) are split at every wait, join and unlock.  A monitor
thread starts, enters itself in the list, unlocks `MonitorThreadLock`
(`unlock_monitor_thread`), calls the listener and ends.

Simplifications.  The tests before a stream call counts itself are one step.
`MonitorThreadLock` is not volatile and is taken to become visible.
`read(byte[])` and the reads with terminators behave as `read(byte[], int, int)` inside one more
count.  `MonitorThread` objects are used again when they are
dead and nothing refers to them.  `LoopBegins` and `LoopEnds` put this port's entry into
`master_index` and take it out in one step: with one client at a time the entries of one port
do not meet.  Those of other ports do, since the list has no lock; they are left out (section 8).

### `EventLoop`

State.  `eventflags` are those of the C structure, `wanted` the flags of `monThread`;
`line`, `icount` and `fifo` are the device; `told` is what the listener heard last of each
line and counter; `loop` is the position in `eventLoop`; `read` and
`notify` are a read and a `notifyOn` call under way.

Actions.  A round of the loop polls the line status register, the error
counters, the modem lines and the input queue, and calls the listener after
each difference.  `answers` are the requests that the driver answers: it may lack the error counters
(`has_tiocgicount`) and `TIOCSERGETLSR`, and after `Unplug` it answers none; then the round ends
where the code returns (`CheckTiocmgetChanges`, `CheckCgiCount`).  `Beginning` are the drivers of a
run with what their listener asks for.  A read asks how much it wants (`Minimum`: the
buffer, the threshold, what waits), saves and clears the data flag, makes its
rounds of `select` and `read` (`AfterRound`; `ReadsNothing` is a `READ` that returns 0
and uses up a round), restores the flag and returns; with
terminators it is a sequence of one-byte reads, as long as the limit is not
reached.  `NotifyOn` sets the C flag, then the Java flag.  `isLine` and
`nativeavailable` are what a client is told between the polls.

### `LocationReporting`

State.  `property` are the system properties that a run reads, `fields` those of the thread,
`task` the one task of each executor with the position of its
run, `executor` the current executor, `told` the time of the last
location that was reported.

Actions.  `Start`, `Schedule` and `Stop` are `onSetRequest` and what it does with the
thread.  `Fire` begins a run; `GetLocationFromProperties`, `Run`, `Report`,
`SetLastLocation` and `ReportLocation` are a run, split where other threads can be seen
in between.  Two locations are compared by their times only, so a location is
its time; the random place does not matter to any property.  The provider is
called by one thread at a time, as the location manager does while it is bound.
The clock does not go back.

### `FirmwareInstall`

State.  `bootcmd` in memory and `saved` in the environment on the eMMC; `uboot`,
`part` and `data` are the contents of the eMMC; `abort` and `files` are
`install_abort` and the card; `next` is the partition that is updated next.

Actions are the steps of the two scripts; an update is begun and ended by
different actions, so that the power can fail inside; it may fail before it has written
anything or with a part written.  `Saveenv` is one step that keeps the old environment or
writes the new one, since there are two copies
(`src/common/extras/fw_env/fw_env.config`).  It may fail, and the scripts go on, since they do not test it;
`unsaved` counts how often that has happened.  `Order` is the order of the
updates, the only respect in which the scripts of the boards differ here.

### `PreopenedPorts` and `SetUpPorts`

State.  `list` has the entries of `preopened_port` with their pointers, which of
them are allocated, and the pointer `preopened_port`; `file` are the descriptors,
`port` the descriptors of the `RXTXPort` objects, `lock` the lock files this process
holds and `setting` what each device is set to.  `undefined` records that a freed
entry has been followed, after which nothing more happens.  `careful` records
that the calls so far were ones that the list bears: at most two ports wait, and the younger is
used first (`Permitted`).

Actions.  `SetUpKept` and `SetUpNew` are a static setter for a port that is in the list or
is not, `SetUpRefused` and `CannotOpen` its failures, which leave the lock file;
`StaticIsLine`, `StaticIsInput` and `StaticGetParams` the queries, which take the entry out and do
not put it back; `OpenKept`, `OpenNew` and `NativeClose` the native `open` and close.
`Wild` is a call that follows a pointer to a freed entry.  `Unlinked` and `AddFilename`
are `find_preopened_ports` and `static_add_filename`, pointer by pointer.  The list
has no lock, and calls are made one at a time.

`SetUpPorts` says what a client may rely on.  A query is allowed to give up what was kept,
since the code does and nothing promises otherwise.

### `LineSettings`

State.  `fields` are those of `RXTXPort`; `tty`, `serial` and `lines` are the termios
structure, the serial_struct and the modem word of the device; `image` and `word` are what
each thread has read of them and is about to write back.  `asked` are the
output lines and the end-of-input character last asked for.

Actions.  Each setter begins by reading and changing a copy, goes on by writing it
(`SetAttr`, `SetLines`, `PutSerial`) and ends by storing the field (`AssignParams`,
`AssignFlowMode`).  A speed that has no code takes the way through the
divisor (`GetDivisor`, `SetDivisor`, `NoDivisor`), and speed 0 the one that lowers DTR (`HangUpGet`,
`HangUpSet`).  Calls overlap when their kinds are in `Together`; two calls of
`setSerialPortParams` are kept apart by `Monitor`, as its `synchronized` does, and
not by `Together`.  `Listener` switches `monThreadisInterrupted`, on which
`setFlowControlMode` depends.  The getters and the static queries are operators that the
properties compare.

### `Crc32` and `MkImage`

A word is the set of its bits that are 1.  `crc_table` is the literal table of `crc32.c`, entry by
entry, `make_crc_table` the one that a build with `DYNAMIC_CRC_TABLE` would compute.  `crc32`
takes eight bytes at a time, then the rest.  `CrcIsRemainder` compares the 256 entries of the two
tables, and each checksum with the remainder of the polynomial division.

`MkImage` has the data files `fs`, the image and the steps of `main`: `Start` reads
the command line, `Open` truncates the image, `DummyHeader`, `TableEntry`, `copy_file` and
`Pad` write it, `HashData`, `FillField` and `SealHeader` compute the header in place
(it is mapped, so each field is on disk when it is set), `Close` ends the run and
`List` is `-l`.  `CopyFails`, `Written` and `WrittenInPart` are a file that is missing or
empty and a write that comes out short; `Killed` may come at any step, `Change`
alters a file while the tool runs, `Damage` inverts a bit of an image.  `Accepted` are
the tests that `-l` makes, `FilesIn` is what a boot loader reads from the table of
sizes.  Both modules use RECURSIVE operators, so nothing is proved about them.

## 4. The runs

| run | module | question | bounds |
|---|---|---|---|
| `ownership` | `MCPortOwnership` | safety and the lease, with rescans, unplugging and another process | 2 threads, 1 device that properties may name, 3 generations, 2 ports |
| `ownership_quiet` | `MCPortOwnership` | do `open` and `close` end, while the list does not change | 2 threads, 2 devices of which one is parallel and one is contested, 2 ports, no properties |
| `fhs_lock` | `FhsLock` | safety, the lease and removal of stale files | 3 processes, each may die and start again |
| `port_io` | `PortIO` | is a listener served, do loops and polls end | a control thread that may be interrupted, a user, 2 monitor threads; writes, flushes and reads, also by listeners |
| `event_loop` | `EventLoop` | do reads keep the flags, the buffer and the table; is the listener up to date | 1 line, 1 counter modulo 2, 1 waiting byte, reads of 2 and 3 bytes in 2 rounds, a threshold of 3, a driver that answers everything and one that lacks `TIOCSERGETLSR` and `TIOCGICOUNT` |
| `location` | `LocationReporting` | are requests answered, and does `stop` stop | 2 executors, 2 places, 2 clock values |
| `firmware` | `MCFirmwareInstall` | what survives power loss and a failed `saveenv` at any moment | 4 partitions, 3 power losses, 2 failures of `saveenv` |
| `line_settings` | `MCLineSettings` | is what the getters answer what the device has | 2 threads, 7 sets of parameters of which 2 are refused, 4 flow modes, timeouts of 50 and 25500 ms, thresholds 0 and 3, devices with, without and with an unusable serial_struct |
| `preopened` | `MCPreopenedPorts` | are descriptors kept apart; is the list sound and are settings kept for careful clients | 3 devices, 3 entries, 3 descriptors, 1 line, 2 parameters |
| `mkimage` | `MCMkImage` | is what `-l` accepts whole, and the checksum right | 2 files of 0, 6 or 66 bytes, 6 command lines, 2 runs, 1 change, 2 masks at 5 places |
| `custom_speed` | `MCLineSettings` | does the line run at the speed that was asked for | 1 thread, 3 speeds |
| `preopened_lost` | `PreopenedPorts` | are settings kept whatever the order of the calls | 3 devices |

The last two are expected to fail; see section 6.

Why the bounds suffice.  Two threads are enough for every race over one
identifier, since each step concerns a holder and one other; a second waiter
adds only another candidate for the same wakeup, and the safety properties are proved for
any number.  Three generations let a device be unplugged and found twice while
a client still holds the first identifier.  Three processes are a holder, one
that removes a stale file and one that comes between.  Two monitor threads are one
that is ending and its successor.  Reads of two and three bytes with a threshold of three and two rounds meet the end of the buffer,
the threshold and the last round, before and after what they want is there; in the code the
rounds are 20 and the threshold is a byte.
Three power losses hit a first installation, the recovery from it and a second
installation.  Three devices are what it takes to lose an entry of the list of
preopened ports, and three descriptors are used up by two queries and a port.
The settings of `line_settings` have every number of data and stop bits and every parity
in one of them, a custom speed, speed 0 and two refusals; 25500 ms is
the largest timeout that fills the byte of the device; 50 ms is below its unit, where `LimitsAgree` is silent
(section 6), and shows that such a timeout disturbs nothing else.  In
`mkimage` the file of 6 bytes is one that needs padding, the one of 66 is for execution in
place, whose first 64 bytes are the header, and the damaged places are in the table, in
the first and the second file; two runs write an image over another one.
`PortsLeft` bounds the ports of `PortOwnership` (`Open` is not
offered when none is free), `MaxFifo`, `Wrap`, `MaxLength` those of `EventLoop`,
`MaxTime` the clock of `LocationReporting`, `MaxLosses` the power losses, `MaxUnsaved` the
failures of `saveenv`, `MaxRuns`
and `MaxChanges` what happens to an image.  `AddrSpace` stands for 2^32; one command line has an address
so near its end that the entry point wraps around, and is refused.

Four runs do not check deadlock.  `firmware`: a board whose U-Boot was being written when
the power failed does not start again.  `preopened` and `preopened_lost`: when every lock file
is leaked and no port is open, or a freed entry was followed, no call is left.
`mkimage`: the bound on runs.

The type invariants of `PortOwnership`, `FhsLock` and `FirmwareInstall` are properties of
their runs; those of `LocationReporting`, `PreopenedPorts`, `PortIO`, `EventLoop` and `LineSettings` are
proved, and left out of the runs.  `MkImage` and `Crc32` have none.

`ownership` uses a symmetry and a view, and so checks no liveness: objects that nothing
refers to have their fields masked, since they are set when the object is
created.

## 5. Fairness

| module | fairness | why |
|---|---|---|
| `PortOwnership` | weak on the steps of a running call and of a scan; strong on `Expire` | Java threads are scheduled; the deadline of `open` is computed once, at its start, so a thread that is woken and waits again does not move it |
| `FhsLock` | weak on the steps of a process that has begun | a process is scheduled until it dies |
| `PortIO` | weak on each thread's steps outside native calls and on the return of listeners; none on the end of native reads, writes and drains | threads are scheduled; a listener that does not return is the client's fault |
| `EventLoop` | weak on the loop, on `notifyOn` and on a read | the loop sleeps and polls, and waits for nothing; `select` of a read returns when there is data or, with a timeout, when it has passed |
| `LocationReporting` | weak on `Schedule` and on each executor | an executor runs its task when the period has passed |
| `FirmwareInstall` | weak on the steps of the scripts | a script goes on while there is power; a `saveenv` that fails is tried again at the next boot, and does not fail for ever (`MaxUnsaved`) |

`PreopenedPorts`, `LineSettings` and `MkImage` state no fairness and have safety
properties only: their calls are straight-line code.

No client has to call anything, no device has to send anything, no process has
to die, and nothing in the environment has to happen.  By default a read has no timeout:
`read_byte_array` waits in `select` without one (`C:3046-3058`, `J/RXTXPort.java:133`), and `close`, which
only looks at `IOLocked` every half second, does not wake it.  So `CloseEnds` asks that native
calls return (`NativeCallsEnd`) and that no new ones begin, and `ReadEnds` asks for a timeout.

## 6. Disagreements

Two runs show that the code does not do what its comments say.

* `custom_speed`: a custom speed is 38400 with a divisor.  The case of `set_port_params` that would
  renew the divisor when 38400 itself is asked for is commented out (`C:881`), so 38400
  after a custom speed stays the custom speed, as the comment above it warns.
* `preopened_lost`: `find_preopened_ports` frees the first entry of the list without moving
  `preopened_port` to the next (`C:392`).  When two ports are set up and the older one is used first,
  the next call follows a pointer to a freed entry, and the settings of the other port are lost, whereas
  `C:1993` says that they are there on `open`.

The models have further behaviours that no document of the repository speaks
about, or that a constant of a module excludes, so that no run is made for them.

Ownership and lock files:

* a rescan loses the identifier of an open port, because the probe is refused
  by the port's own lock file; `close` then finds no identifier to release, and whoever still
  holds that identifier sees it owned for ever;
* when the native `open` fails, the class of its exception is not found and
  `open` returns a port without a descriptor; when it fails in `configure_port`,
  the lock file stays;
* two processes that find the same stale file can unlink the lock that the
  faster one has made meanwhile;
* between `Create` and `Write` a lock file is empty, and a reader decides by
  what was in its buffer; two processes may both lock the device
  (`SettledHolderKeepsLock` therefore speaks of settled holders);
* `check_lock_pid` reports an `open` that fails as a file that is not its own, and
  `is_device_locked` goes on with what is in its buffer: a process without descriptors may remove the
  lock of a living, settled holder (with `Starved = {a}` TLC shows `SettledHolderKeepsLock` violated; the
  run has none);
* an `unlink` of a stale lock that fails is reported and the device stays locked;
  `StaleLockIsRemoved` excepts it;
* the `finally` block of a failed `open` releases the identifier without waking the threads that wait for it
  (`J/CommPortIdentifier.java:470`; the properties except it);
* `getValidPortPrefixes` and `isPortPrefixValid` are never called.

An open port:

* `close` waits for as long as a read without a timeout is blocked in `select`, since it does
  not wake the read: with no data it never ends (`NativeCallsEnd`);
* `close` tests `IOLocked` and goes on, and a stream call that starts then uses
  the descriptor that is closed;
* a `notifyOn` call without a monitor thread leaves `MonitorThreadLock` set, and
  all later calls poll it for ever (`CarefulNotify` excludes it);
* a listener that runs longer than the three seconds of `join` survives its
  removal, and the next listener gets a second event loop (`Patient` excludes
  it); a listener that itself removes itself or closes the port has a similar effect
  (`ListenerCalls`);
* an interrupted `removeEventListener` leaves fields that make the next
  `addEventListener` start no thread (`cut`);
* `flush` calls the listener in the thread that flushes: a listener that closes
  the port there waits for itself.  The `IOException` of `flush` is cleared by
  `send_event` when the listener has asked for the empty output buffer;
* the Java field `eis` is never cleared and points into the stack of a thread
  that may have ended;
* `writeArray` that a signal interrupts after it has written a part returns normally;
* `notifyOnDataAvailable` during a read is lost (`Overlap`);
* a threshold above 20 that is reached byte by byte is returned before it is reached, since
  `read_byte_array` makes 20 rounds, and a `READ` that returns nothing uses one up, against the table
  quoted at `C:3397-3409`; `ThresholdKept` speaks of wants up to `Iterations` only;
* a read with terminators returns the count of its last byte only
  (`SerialImp.c:3577`, against line 3518);
* on a device without `TIOCSERGETLSR` a listener that asks for the empty output buffer hears nothing
  else: `report_serial_events` ends there (`C:3994-3996`).  The run has that driver and that
  listener; `ToldIsCurrent` and `DataIsAnnounced` except it (`Polls`).

Settings:

* timeouts below 100 ms are stored as none, so that `isReceiveTimeoutEnabled`, "true if receive timeout is
  enabled" (`J/RXTXPort.java:418`), denies one that was just enabled; those from 25600 ms on wrap, and so do
  thresholds from 256 on.  `LimitsAgree` leaves these values out, so no run counts the answers as
  right or notices that they are wrong;
* `setFlowControlMode` does nothing while the port has no listener, and is lost when
  it overlaps with `setSerialPortParams`; the same holds of any two of the calls that rewrite
  one word of the device, but for two of `setSerialPortParams` (`Together`);
* `nativeSetDivisor` never stores its argument; `nativeGetParity` knows space parity by a bit
  of the speed; the static query of the stop bits never answers 1.5;
* a static query takes the port out of the list and leaves its descriptor open; a static call that is
  refused leaves its lock file; the lock of a static setter is given back before
  its entry is in the list.

Services, scripts and images:

* the first run in random mode starts from the last location, of which there is
  none, and dies of an exception;
* a power loss during stage 2 makes the board start partitions of two
  firmwares; `install_abort` is not reset between two attempts;
* the scripts do not test `saveenv`.  When the one of stage 2 fails (line 102), stage 2 comes back at
  the next boot over the partitions it has written, and outlives a later attempt; when the one of recovery fails
  (line 99), the board wipes again; when the one of stage 1 fails (line 174), nothing is installed behind the new
  U-Boot.  `NewUbootFirst` and `StageTwoOnce` ask that none has failed, and TLC shows both violated
  without that;
* where a long has eight bytes, `mkimage -l` reads the table of sizes wrongly
  (`LongBytes`); the offset that it prints for a script leaves out the word that
  ends the table, and the sizes of files for execution in place include their reserved header;
  `-l` does not compare `ih_size` with the length of the file.

## 7. The proofs

TLAPS checks the theorems for every value of the constants that satisfies the
named assumptions of the modules.  Some theorems have a hypothesis of their own, which
is a named predicate, of the constants in all rows but one; each is explained below.  Those
of a property that a run checks hold in that run.

| theorems | hypothesis | why it is needed |
|---|---|---|
| `NoLoopIsOrphaned`, `ListenersAreServed` | `OneClient` | two clients, a listener that closes its own port or one that is slower than `join(3000)` do orphan a loop (section 6) |
| `LockIsGivenBack`, `CloseIsNotLost` | `OneClient`, `CarefulNotify` | a `notifyOn` call without a monitor thread leaves `MonitorThreadLock` set (section 6) |
| `LockIsKept`, `LockRefinesLease` | `FilesOpen` | a process that cannot open the lock file takes it for whatever is in its buffer (section 6) |
| `LockExcludes` | `Undisturbed` | when a process dies, or an unwritten file looks like one of a dead process, the file of a living one can be removed (section 6) |
| `TimeGoesForward` | `[]NoOverlap` | `stop` does not wait for a run that is under way; the next executor may report first |
| `PortIO`: `TypeCorrect`, `CallsAreCounted` | finitely many threads | a count of calls is a number only then |
| `FlagsAreRestored` | `~Overlap` | `notifyOnDataAvailable` during a read is lost (section 6) |
| the four of `LineSettings` | `TakeTurns` | of the calls that rewrite one word of the device only `setSerialPortParams` is synchronized: two others that overlap lose an update (section 6) |

`PortOwnership_proofs`: `TypeCorrect`, `OneOwner`, `NoWakeupIsLost`,
`DevicesAreExclusive`, `OwnershipRefinesLease`, `LocksGoWithTheirPorts`,
`ClosedPortsAreReleased`, `OwnershipHasAReason`.  `SoleOwner` is not inductive: that
a thread releases only what it owns depends on the position of every
thread.  The inductive invariant adds `ThreadInv` (what each position says of the
identifier and the port of its thread), `PortInv` (a port is handled by one
thread; an open port holds its device's lock) and `ScanInv` (a probe holds its lock).
`DeviceExclusive` follows from `PortInv`.  The lemma `ProbedNames` says that a scan
probes devices only, whatever the properties are.  Each step of
`Next` is a step of `Lease` or leaves the owners alone, because only `Take` makes an
owner and it requires `Available`, which `SoleOwner` ties to `Owner`.
`LocksGoWithTheirPorts` is the action property `LocksFollowPorts`: probes, failed opens and
closes all remove the lock file of their device without a look at whose port it is, and
yet none removes that of another open port.  It needs the converse of what `PortInv` says (`LockInv`): a lock
file that is a port's belongs to a port that is open on that device.
`ClosedPortsAreReleased` proves `ClosedIsReleased`, what holds of `CloseReleases` at every moment, rescans
included: a listed identifier is attached to a closed port only while the `close` of that
port is between `nativeClose` and `internalClosePort`.  Its invariant `AttachInv` adds that a port is attached to one
identifier that can be reached and, before `open` returns it, to none.  It does not speak of
identifiers that a rescan has dropped, which no `close` finds (section 6).
`OwnershipHasAReason` is inductive together with `IndInv`.
Assumptions: `None` and the tags of `lock` are different from
threads, ports and identifiers; the special sets of devices are sets of devices.

`FhsLock_proofs`: `TypeCorrect`, `LockIsKept`, `LockRefinesLease`, `StaleIsOnlyRemoved`,
`LockExcludes`.  The inductive
invariant says that, while a process is settled, no other process is
past the point where it could remove or replace the file, and that what the others
have read of it is the holder's pid (`Harmless`).  It is kept whoever dies and
whatever an unwritten file is taken to contain, as long as a written one can be read (`FilesOpen`).  `StaleIsOnlyRemoved` rests on
the same invariant, which ties a process that writes to its own, living file: any other step that
changes the file of a dead process removes it.
`LockExcludes` is what the lock is for, mutual exclusion of all holders and not
only of settled ones.  `FileInv` says that the file is always that of the one process
between `Create` and `Remove`, and that no process takes it for stale; both
fail as soon as a process may die, which is why `LockIsKept` is stated without.

`FirmwareInstall_proofs`: `TypeCorrect`, `NewUbootIsFirst`, `StageTwoRunsOnce`,
`InstallationIsWhole`, `DataIsWipedOnce`, `StepsRunOut`, for
any partitions in any order and any number of power losses and failures of `saveenv`.  The
inductive invariant adds `StageInv`: while stage 1 runs, nothing of the new firmware is there, and at its commit the
new U-Boot is complete; and, as long as no `saveenv` has failed, stage 2 is in the saved environment only
between `Commit` and its own first step, and the new U-Boot is complete to the end of stage 2.
The lemma `OrderIsPartition` says that a position of `Order` is a partition.
The other three need `ProgressInv`: the partitions before
the position of stage 2 are new (`PassedInv`), what the saved environment is at each
place (`PlaceInv`), and that there is user data only after both stages (`DataInv`).  `DataIsWipedOnce` needs
nothing of `saveenv`: Android, which makes user data, does not run while recovery is stored.
`StepsRunOut` gives each place the number of steps that are left, and every step of the board
lowers it or costs one of the failures of `saveenv`; what else raises it is a user who installs, or the power.

`LocationReporting_proofs`: `TypeCorrect`, `OnlyOneExecutor`, `NoRunAfterStop`,
`NothingFromTheFuture`, `TimeGoesForward`, for any number of
executors, places and times.  `OneExecutor` says nothing of a task that runs, so a run that ends and
waits again would break it.  The inductive invariant adds `TaskInv`: a task that is
scheduled or runs is the current executor's and has not been shut down, or it is a
run that has been; and `StartInv`: between the making of an executor and the scheduling of
its task the executor is the current one and its task is new.  `NoRunAfterStop` and
`NothingFromTheFuture` follow step by step.  `TimeGoesForward` relates the last location, what was reported last
and the run under way (`ForwardInv`), and holds as long as runs do not overlap.
`LocationAssumption` says that `None` is no executor, place or time.

`PreopenedPorts_proofs`: `TypeCorrect`, `DescriptorsAreKept`, for any number of devices,
entries and descriptors.  The inductive invariant `Sound` is about every
entry that is allocated and not only those that can be reached, so that the proof
needs nothing about the pointers: however the list goes astray, the descriptors in it stay
right.  The lemmas `UnlinkedKeeps` and `AddFilenameKeeps` say so of the two operations.

For careful clients the same module proves `CarefulListIsSound` and `CarefulSetUpIsKept`,
the refinement of `SetUpPorts`.  `ListSound` and what `SetUpPorts` sees are about the walk
along the list (`Walk`), a recursive function over as many positions as there are entries.
`WalkIs` says that `Walk` is any function that satisfies its equation, by induction on the
position; the induction is stated of a set of numbers (`SetInduction`) and derived from the
library's minimum of a well-founded order, since its induction rules take an operator.
The inductive invariant `CarefulInv` says that the list of careful clients has one of three shapes:
empty, one entry, or two that point to each other and stand for different devices.  For
each shape the walk is written down and checked against its equation, and from it follow
what `find_preopened_ports` finds, what `static_add_filename` takes for the last entry, and that no freed entry is
reached.  Then every careful step is a step of `SetUpPorts` (`Mapped`): a setter
sets up its port, a query or a refusal gives it up, `open` opens it with what was set up
and `nativeClose` closes it.  `PreopenedAssumption` says that there are finitely many entries.

`PortIO_proofs`: `TypeCorrect`, `CallsAreCounted`, `NoLoopIsOrphaned`, `ListenersAreServed`,
`DescriptorIsClosedOnce`, `LockIsGivenBack`, `CloseIsNotLost`, for any number of threads that read and write and of monitor threads.  `CountInv` says that
`IOLocked` is the number of calls that are inside (`InIO`), however they come and
leave; it needs no discipline of the clients.  The
other two properties are not inductive: that a loop which runs belongs to the listener
depends on how far `addEventListener`, `removeEventListener` and `close` have come.  The inductive
invariant adds: at most one loop lives and `master_index` has it (`LoopInv`);
it is told to end by a remove and only by a remove (`ClosingInv`); a thread starts only under
`addEventListener`, which waits for it (`StartInv`); what a remove has done so far
(`RemoveInv`); and what `MonitorThreadAlive` says, with and without an interrupted
remove (`AliveInv`, `CutInv`).  The client may be interrupted, and `notifyOn` need not be careful.
`DescriptorIsClosedOnce` asks nothing of the clients: any number of them, and listeners, may
close at once.  `CloseInv` says that one thread at a time is past the test of `closeLock`, and
that the descriptor is closed when the field is 0 or that thread has closed it.
`LockIsGivenBack` and `CloseIsNotLost` say that whatever `PollingEnds` and `CloseEnds` wait for
is under way (`LockInv`): a set `MonitorThreadLock` has a thread that starts or notifies, a port
with `closeLock` has a thread that closes it.

`EventLoop_proofs`: `TypeCorrect`, `BufferIsKept`, `ThresholdIsReached`, `FlagsAreRestored`,
`ToldWhatWasPolled`, `LimitIsKept`, `ReadsAdvance`, for any lines, counters, lengths, thresholds and rounds.
`BufferKept` bounds what a read stores, at its end and on the way; `ReadInv` says of every
position that there is room for what is still wanted.  Neither speaks of the order of the bytes.
`WantedInv` adds that a read which is over has what it wanted, unless it failed, timed out, got nothing from a `READ` or ran out of rounds.
`FlagInv` says where the flag of an event is to be found: in the read that
has cleared it, in the `notifyOn` that sets it, or in both structures.
`ToldIsPolled` is the safety half of `ToldIsCurrent`: what the listener was told
last is what the loop polled last, so a fair poll brings it up to date.
`LimitIsKept` is about reads with terminators: `LimitInv` says that they ask for one byte at a
time and only while there is room.  `ReadsAdvance` orders the places of a read by the bytes and, for
equal bytes, by the steps that are left; whatever changes a read under way goes down in that order, so that
a read that is scheduled ends.

`LineSettings_proofs`: `TypeCorrect`, `GettersTellTheTruth`, `LimitsAreKept`, `LinesAreAsAsked`,
for any number of threads, arguments and devices.  The properties speak of moments between
calls; the inductive invariant says what is true during them.  `TurnInv`: of the calls that rewrite
one word one is under way.  `ImageInv`: the copy that a call is about to write is what the device has, with
its own part changed.  `FieldsInv`: the fields agree with the device but for the part of the call
that is being made.  `LinesInv` says the same of the output lines.
So no setter brings back what another has replaced.  The lemmas on `translate_data_bits`,
`translate_stop_bits`, `translate_parity` and `translate_speed` say what each changes and
what it leaves alone; `ParityOfBits` and `SpeedHasCode` that Java reads back what it has set.

Only model-checked:

* Liveness (`OpenEnds`, `CloseReleases`, `StaleLockIsRemoved`, `CloseEnds`, `PollingEnds`,
  `ToldIsCurrent`, `DataIsAnnounced`, `ReadEnds`, `StopEndsReports`, `RequestAnswered`,
  `RandomGoesOn`, `InstallEnds`): the prover does not handle fairness and ENABLED here.  Of
  most of them the safety half is proved: `OwnershipHasAReason` and `NoWakeupIsLost`,
  `ClosedPortsAreReleased`, `StaleIsOnlyRemoved`, `CloseIsNotLost`, `LockIsGivenBack`,
  `ToldWhatWasPolled`, `ReadsAdvance`, `NoRunAfterStop`, `StepsRunOut`.
* `AcceptedIsWhole`, `FilesFound`, `DamageRefused` and `CrcIsRemainder` of `MkImage`: `Crc32`
  computes its table and the checksum with RECURSIVE operators, and what such an operator
  computes for every input needs an induction over data, which is out of the prover's reach.
* The two runs of section 6 that are expected to fail: a counterexample needs no proof.

## 8. Not modelled

* `CommPortEnumerator` and the order of the chain: a pointer that runs along the
  chain; left over from the plan.
* `addPortName` and `open(FileDescriptor)` of `CommPortIdentifier`: the first is what
  a driver calls at registration, which is part of the scan here; the second always throws.
* `sendBreak`, the parity error character and the sizes of the buffers: single calls that
  leave no state of the program, or constants.  The UART type and the call-out hangup are
  declared native in Java (`RXTXPort.java:1704`, `1720`) and have no native function in
  `SerialImp.c`.
* The entries of other ports in `master_index`: `initialise_event_info_struct` and
  `finalize_event_info_struct` change the list without a lock (`C:4056-4081`, `4121-4133`), so that the loops of
  two ports that start or end at once can lose an entry.  `PortIO` has one port.
* What a driver does to DTR and RTS by itself when it is given speed 0 or hardware flow control, and whether
  `cfsetspeed` refuses a speed it does not know, which `CanSet` takes for granted: driver and libc are not in
  the repository.
* The locks of other systems (`uucp_lock`, `lfs_lock`, `lib_lock_dev_lock`), the thread of
  `drain_loop`, `is_interrupted`, `isPortPrefixValid` and the code for macOS and
  Windows in `SerialImp.c`: not built, or never called.
* Binding and unbinding of the location service: one life of the provider.
* `DigiServicesApp`, `DigiLicenseApp`: no state.
* `bootscript.txt`: straight-line code that computes boot arguments.
* `mksdimage.sh` and the build tasks: straight-line copies of files on the build host.
* `SerialImp.cpp`, `termios.c`, `init.c`, `fixup.c`, `portmode.c`: not built for
  Android; `fuserImp.c`: its entry point has the name of another package.
* Overlays, policies, init files, product configuration: data of other programs.
