# eBPF injection: a verification development

TLA+ models of the code in this repository, model-checked with TLC, with
theorems checked by TLAPS.  Sources are named `file:line`; `driver.c` is
`shared/driver/driver.c`, `bpf_injection_msg.h` the host's copy in
`host_interface/` unless said otherwise.

## 1. The system

A host injects eBPF programs into the kernel of a guest, and a guest tells the
hypervisor which of its pages are free before a live migration.  Both go
through `newdev`, a PCI device of a modified QEMU that is *not* in this
repository.

```
 injectProgram & co --TCP 9999--> newdev device  <--registers, buffer--> guest driver
   (host_interface/)               (QEMU, external)  irq   (shared/driver/driver.c)
                                                             |  handler  |  worker
                                                             |           v
                                         page allocator <----+     bpf_prog, JIT
```

| Part | State | Operations |
|---|---|---|
| **Interrupt handler** (`irq_handler`, driver.c:551) | `program_type`, `flag`; locals of `write_guest_free_pages` | read the status, store the type and queue the work, or report the free pages; acknowledge |
| **Loading and execution** (`execute_work`, driver.c:535; `bpf_programs_setup`, 448; `bpfhv_helper_calls_fixup`, 344; `bpf_my_prog_alloc`, 403) | `bpf_injected_prog`, the work item, locals | read header and words, free the previous program, resolve helper calls, allocate, JIT, run |
| **Free page report** (`write_guest_free_pages`, driver.c:142) | `migration_buffer`, zone locks | lock all zones, walk all free lists, write address and count, doorbell, unlock |
| **Loading and binding** (`pci_probe`, 634; `pci_remove`, 721; `myinit`, `myexit`) | `major`, `bufmmio`, `migration_buffer`, `ctx`, the interrupt, the region; `bpf_injected_prog`, left to the next binding | acquire, give up, release |
| **Host injectors** (five programs, `bpf_injection_msg.h`) | the message, the connection | take a section out of an ELF file, connect, send header, send payload |
| **Affinity monitor** (`bpfProg/myprog.c`) | an array map, its first cell a counter | log the CPU set of each `sched_setaffinity()` |
| **Guest eBPF programs** (`shared/guest_programs/*.c`) | none | one helper call each |
| **Migration experiments** (`script2.sh` and the scripts it calls) | two QEMUs, their ports and monitors, the script's sleeps | start a destination, migrate, ask for the result, quit the source |
| **Affinity experiments, plots** (`test/`, `python_scripts/`) | host load, result files | measure, plot |

### How the parts interact

* The device raises an interrupt whose *status register* is a message type
  (injection) or a migration event.  The handler must write the status back to
  `NEWDEV_REG_LOWER_IRQ`, "otherwise the interrupts just keeps firing".
* The handler only queues `program_injection_work`; the worker reads the
  program out of the device buffer later.  The handler's own report of free
  pages goes through *the same* buffer.
* The worker and the handler share `program_type` and the device buffer without
  a lock; worker and later workers share `bpf_injected_prog`.
* The report takes every zone lock of the guest kernel in interrupt context,
  while the page allocator runs on the other CPUs.
* `pci_probe` and `pci_remove` run while interrupts of a shared line, and work
  already queued, come in.

### What is hard, and what makes each part correct

* *Loading*: three actors interleave on one buffer and four globals; each of
  kmalloc, fixup, allocation and JIT may fail, after the previous program is
  already freed.  Correct: nothing is lost or read out of bounds, no program
  is allocated with a helper call the fixup recognises and has not resolved,
  what runs was sent, the last injection runs, each runs once when the host is
  patient, and the line goes down.
* *Report*: a picture of all lists at one instant, no deadlock with the
  allocator, an answer to every request.
* *Binding*: the handler and the worker find what they use; what is acquired is
  released once; a program outlives a binding, but only unloading loses it.
* *Injectors*: part of a program never passes for a program.
* *Experiments*: a guest whose only copy moves between two QEMUs, and a script
  that waits for nothing but time.  Correct: the source quits when the guest
  has left it, the result kept is final, and the guest goes back and forth.
* *Monitor*: calls on several CPUs neither lose each other's log nor lose count.

`PROJECT.json` lists the hazards one by one, with the line where each bites and
the property that covers it, or why none does.

## 2. Modules

| Module | Models | EXTENDS / INSTANCE |
|---|---|---|
| `BpfProgram` | message types, program ids, helper fixup: pure operators | |
| `InjectionService` | abstract: every program sent is executed, once, in order | `BpfProgram` |
| `InjectionDriver` | device, `irq_handler()`, worker | `BpfProgram`; implements `InjectionService` |
| `FreeLists` | what a walk over the free lists records: pure operators | |
| `AtomicReport` | abstract: a report is all lists at one instant | `FreeLists` |
| `FreePageReport` | `write_guest_free_pages()` and the page allocator | `FreeLists`; implements `AtomicReport` |
| `DriverLifecycle` | `pci_probe()`, `pci_remove()`, loading and unloading, with handler, worker and the installed program reduced to what they touch | |
| `MigrationExperiment` | `script2.sh`, two QEMUs and their monitors | |
| `AffinityMonitor` | `bpf_prog1()` on several CPUs | |
| `HostInjector` | the five injectors, and the connection | |
| `MC...` | values for the constants | |
| `InjectionDriverProofs`, `ServiceProofs` | theorems about the driver's injections, the second module on top of the first | `InjectionDriver` |
| `FreePageReportProofs`, `ReportPictureProofs` | theorems about the report, the second on top of the first | `FreePageReport` |
| `DriverLifecycleProofs`, `AffinityMonitorProofs`, `HostInjectorProofs`, `MigrationExperimentProofs` | theorems about the other components | the component |

An operator `X_Something` next to `X` is a mutant of `X`: the same definition
with a plausible bug, which shows that the properties can fail.

### InjectionDriver

Each access to state that another actor may change is one action.

* *Device* (external): `HostSend` stores a message and raises its type,
  `RaiseEvent` raises anything else.  `Raise` and `Lower` are parameters: how
  the register combines a status raised over another, and what an
  acknowledgement leaves.  The source does not say; the runs use a set of bits,
  so that two statuses raised together match no case of the switch.
* *Host*: `Pacing` is `"any"` (it sends at any time), `"ack"` (when the status
  is 0) or `"turns"` (moreover it announces a migration start only to a driver
  that is `Quiet`: handler and worker are done).  What a host has kept to is
  history: `awaited` (every interrupt was raised over a clear status) and
  `quietly` (every injection was sent to a quiet driver).  A property that
  needs a patient host says so with one of them, so that one run holds patient
  and impatient hosts, and a behaviour counts up to the host's first mistake.
* *Handler*: `hpc` walks `idle → dispatch → (schedule | scan → header → high →
  low → count → doorbell) → ack → idle`, as in driver.c:551-616.  `IrqEntry`
  may also happen while the status is 0, as the line is shared.  `scan` stands
  for the walk over the free lists, which `FreePageReport` models; where its
  unchecked kmalloc may fail, or its arrays be too small (`MayFail`), it may end
  in `oops` instead: then there is no acknowledgement, and the worker stops too.
* *Worker*: `wpc` walks `idle → type → header → copy → load → select → run`.
  `ReadType` is `get_prog_type_from_irq()`; `ReadHeader` the `ioread32` of the
  header, the kmalloc and the release of the previous program; `CopyWord` one
  `readl`; `AllocProg`, `SelectRuntime` and their failures
  `bpf_my_prog_alloc()`; `RunProgram` the `BPF_PROG_RUN` that ignores what
  setup returned, which is 0 as well when `bpf_my_prog_alloc()` failed and the
  pointer is null.  `oops` is a worker stopped by a null or freed pointer.
* *Messages* have a `payload_len` in bytes, of 16 bits, and the words those
  bytes lie in: a length need not be a whole number of instructions, and the
  driver takes the whole ones (`Insns`).
* *Calls*: `HelperCalls` are the instructions the fixup takes for calls of a
  helper (both registers and the offset zero), `Calls` all that have the call
  opcode.  The kernel, with no verifier run before, executes either as a call.
* *Undefined behaviour* is a choice: freeing freed memory goes unnoticed or
  stops the worker; running it runs something (`Freed`) or stops.
* *Abstracted*: registers, payload and programs are sequences of 32-bit words,
  the heap a set of addresses; kmalloc'd arrays that never leave a function are
  left out; logging is left out; what a program computes is left out.
* `InjectionService` promises each program executed once, in order, for as long
  as the host is patient (`kept`, which is `quietly`); after that,
  `Unpromised`, anything may happen.
* `unread`, `sent`, `report`, `executed`, `failed` are history too.  `raised` is bounded by
  `MaxRaises`, the only bound of the module.

### FreePageReport

A free list stands for one migrate type, of one order, of one zone; `ScanOrder`
is the order of the nested loops, `Recorded` what one list adds to
`migration_buffer`.  The allocator takes one zone lock at a time, and while it
holds one takes blocks out of the zone's lists and puts them back, in front or
at the end.  The handler interrupts a CPU that holds none.  The kmalloc of the
two arrays takes a block from a free list or from the slab.  Of the message
only the number of entries is kept; its four words are `WriteReportHeader` and
`WriteReportWord` of `InjectionDriver`.

`NrZones` is the length of `zones[]` and `flags[]` (`nr_zones` of the last
online node), `BufferEntries` what `migration_buffer` holds (4 MiB, two words
for each block).  The code compares neither with what it writes: a write past
the end leads to `overrun`, of which nothing more is said.  `RoomForReport`
says when it happens: never because of what the handler or the allocator does,
only in a guest with more zones, or more free blocks, than the arrays are for.

### DriverLifecycle

`injected` and `programs` are the installed program as far as binding and
unloading touch it: `pci_remove()` keeps it, `insmod` forgets it.
`ProbeSteps` and `RemoveSteps` are the order of acquiring and releasing, with
`INIT_WORK` and `program_type = 0` as steps between which an interrupt may come
(`InitWork`, `ResetType`); `held`
is what is acquired, `pointers` the globals of which the driver never resets
one after releasing it.  Two choices are made once, in `Init`: is the driver
left alone while it is probed and unbound only when idle (`quiet`), and may
what it asks for be refused (`failing`)?  Properties that need one say so.

### AffinityMonitor and HostInjector

`bpf_prog1()` is five steps: call, check, increment, read again, update.  An
injector is: one step per ELF section, connect, two sends, close; the payload
length is taken modulo `LenModulus` (2^16 in the code).  The connection may be
reset, with part of what is in flight, at any time.

### MigrationExperiment

A half of `script2.sh` (lines 6-26, and 27-45 with the VMs exchanged) is
`Fill → StartDestination → Migrate → Info → InfoEnds → Quit`, with the sleeps
of the script in seconds.  What it gives a terminal of its own runs later
(`startup`, `lag`), `migrate -d` takes its `duration`, and `nc` keeps its
connection to a monitor, which serves one client at a time, until it likes to
go or `timeout` kills it.  Timers count down, and a second passes (`Tick`) when
nothing is due in this one.  A destination whose ports are taken exits; a
migration to a destination that does not listen fails, and the guest stays;
`q` quits whatever the QEMU is doing.

## 3. What the runs show

| Run | Question | Bounds |
|---|---|---|
| `DriverAny` | What holds whatever host and worker do, and whatever fails? | 3 interrupts, 2 addresses, programs of 2 and 4 words, one followed by half an instruction, one with an unknown helper; 588k states |
| `DriverReload` | What runs when one injection follows the other, quickly or patiently? | 3 interrupts, no failures; 150k states |
| `ReportLocked` | Is the report atomic, does it end, and does it fit? | 3 zones, 4 lists, 4 blocks, 2 CPUs, 2 reports, room for 3 entries; 595k states |
| `LifecycleUp` | Are resources there when used, and released once? | 3 probes; 179k states |
| `Affinity` | Do concurrent calls keep the log? | 2 CPUs, 4 cells, 5 calls; 35k states |
| `Injector` | Is a complete message a whole program? | 5 injectors, 5 files, up to 5 bytes, length modulo 4; 1.6k states |
| `Migration` | Are the sleeps long enough? | destinations up in 0 or 1 s, terminals in up to 7 s, migrations of up to 28 s, any number of rounds; 50k states |

Five runs expect a violation; each is a finding in `PROJECT.json`:

| Run | The code against its own words |
|---|---|
| `DriverOverwritten` | A migration start handled before the worker has read its program: the report overwrites it and is executed as eBPF. |
| `DriverRejected` | A rejected program leaves `bpf_injected_prog` pointing to freed memory, which is run and freed again. |
| `ReportPages` | The walk skips the first block of every list and records the list head. |
| `InjectorLong` | `payload_len`, "payload length", is the length modulo 2^16 of a longer section. |
| `LifecycleFailed` | `pci_probe()` returns 1 for "failed", which the driver core takes for success. |

Why these bounds are enough.  Three interrupts are one being executed, one
being handled and one arriving: with two programs of different length and one
rejected program every branch of handler and worker is taken in every relative
position, including a torn copy.  Two addresses are the previous program and
the next (`NoProgLeak` would show a third).  In `DriverReload` the third interrupt may
be a migration report between two programs.  Three zones are a first, a
middle and a last lock, one of them without managed pages; four blocks a list
with a first and a second one, and blocks to come and go; three entries are
enough until the block in use at boot is freed, and then one too few.  Three probes are
bind, unbind, bind again, and again after a failure.  The map of four cells
with five calls is filled and overrun.  `LenModulus = 4` puts the boundary of
the 16-bit length within reach of short files.  A migration of 28 seconds is
one second past the last the script survives, a destination up after one
second is one too late, a terminal that takes 7 the slowest whose `nc` leaves
the monitor in time.

What the runs need, and what that says of the code:

* `ExecutedWasSent` and `LatestInjectionRuns` (`DriverReload`) hold for a host
  that awaits the acknowledgement, with programs of one length, and with
  **migration starts only while the driver is quiet**: then a program replaced
  while it is read is replaced by one that differs in one word, and the worker
  runs again.  With a migration start at any time `DriverOverwritten` shows the
  violation.
* `InstalledIsLive` holds as long as nothing fails; `DriverRejected` shows what
  one rejected program does, `StopsOnlyAfterFailure` that nothing but a failed
  injection stops the worker.  Its `failed` is more than what setup returns: a
  failed `bpf_my_prog_alloc()` leaves a null pointer and a result of 0.
* `NoInjectionForgotten` and `DoorbellSeesReport` need a host that has awaited
  every acknowledgement so far, whatever the worker is doing.
* `ImplementsService` needs a patient host: two injections in a hurry may share
  one work item.
* `NoProgLeak`, `CopyInBounds`, `WorkHasType` and `CallsResolved` need nothing,
  but the last is about the helper calls the fixup recognises.  A call with a
  register or the offset set, as the compiler makes of the call of a function
  of the program's own (`src_reg` is 1), is passed over as "not an instruction
  that calls to an helper function" (driver.c:358-364), has no verifier to
  rewrite it ("Replacement for bpf_check().", driver.c:434), and is executed as
  a call of whatever lies at its immediate.  No program of the repository has
  one.
* `InterruptStops` excuses a scan that fails: the handler then never
  acknowledges.  Every other path lowers the line.  It says nothing of a
  handler that acknowledges two statuses at once without handling either,
  which the model reaches in `DriverAny`.
* `SoloCallsLogged` (`Affinity`) is about a call that passes the check for a
  full map and overlaps no other.  Its update is refused only if calls before
  it have overlapped, and carried the counter past the last index; the run
  reaches this.  Otherwise it is logged, counted and never overwritten.
* `WorkFindsDriver` is about a driver left alone, and refused nothing;
  `ReleasesHeld` about one refused nothing.  What an interrupt in the middle of
  `pci_probe()` or work outliving `pci_remove()` does is in the model, but
  violates no word of the repository.
* `GuestSurvives` needs a destination that is up *within* the second before the
  migration is ordered and a migration that is over less than 27 seconds after;
  `ResultIsFinal` one over in less than 25.  With 28 for 27, or 26 for 25, TLC
  finds both violated: the bounds are those of the script.  `ResultIsFinal`
  also rests on the 20 seconds after which `timeout` frees the monitor, and on
  terminals that take 7 seconds at most: with `MaxLag = 8` TLC finds it violated.

### Fairness

`InjectionDriver`: an asserted level-triggered line is served, a handler once
entered runs to its end, and the kernel's work queue runs pending work to the
end — all weak fairness, of the kernel, not of the driver.  Nothing makes the
host send.  A fault in the handler ends all of it, and `DriverAny`, the run with
such faults, says `CHECK_DEADLOCK FALSE`.  `FreePageReport`: what runs under a zone lock comes to its end
(weak), and a waiting handler gets each lock in turn (strong: the kernel's spin
locks are queued); after `oops` or `overrun` nothing is left to wait for, and
`ReportLocked` says `CHECK_DEADLOCK FALSE`.  `MigrationExperiment`: something
always happens, be it a second that passes (`WF_vars(Next)`).  `DriverLifecycle`, `AffinityMonitor` and `HostInjector`
have safety properties only, and really may stop (`CHECK_DEADLOCK FALSE`).

## 4. What is proved

Every proof is checked to the last leaf by `tlapm`; the only assumptions are
the named `ASSUME`s on constants, which TLC evaluates on every run.

* **`FixupResolves`** (`InjectionDriverProofs`): in a program that
  `bpfhv_helper_calls_fixup()` accepts, each helper call it recognises was of a
  known helper and now holds the offset of its function, and every other word
  is as it was.  It follows that all calls of the program, by their opcode, go
  to the driver *exactly if* those the fixup passes over did already: of
  these it can promise no more.  The point of the proof is that resolving neither makes nor hides a call: the words at
  the odd positions are kept (`FixupKeepsShape`, `FixupKeepsCalls`).
* **`Safety`** (`InjectionDriverProofs`): `Spec => [](TypeOK /\ CopyInBounds /\
  NoProgLeak /\ CallsResolved /\ WorkHasType /\ StopsOnlyAfterFailure)` for all
  constants.  None of
  these is inductive.  The invariant `IInv` adds
  - `HeaderInBounds`: whoever wrote the header, host or handler, its length
    fits the buffer — `CopyInBounds` depends on the header at the time it was
    read, not on the one there now;
  - `SetupOwnsHeap`: between the release of the previous program and the
    installation of the next, the program being set up is the only one
    allocated, although `bpf_injected_prog` still holds the old address;
  - `LoadIsResolved`: `insns` has passed the fixup when memory is asked for;
  - `LiveUnlessFailed`: until an injection fails the worker has not stopped,
    `bpf_injected_prog` dangles only while a load is under way, and it is not
    null when it is run;
  - `ScheduleHasType`: the handler stores the type before it queues the work.

  One lemma per group of actions shows that it is preserved.
* **`AcknowledgedSafety`** (`InjectionDriverProofs`): with `AckingRegister` (what is
  raised over 0 is stored as it is, and is 0 once acknowledged),
  `NoInjectionForgotten` and `DoorbellSeesReport`, which are about a host that
  has awaited every acknowledgement; how it sends (`Pacing`) does not matter.
  The argument follows the injection from the register through `seen`,
  `schedule` and `work_pending` to the worker (`AckInv`), and shows that while
  the handler is between entry and acknowledgement nobody else writes the
  buffer.

* **`AlikeSafety`** (`ServiceProofs`): `Spec => [](InstalledIsLive /\
  ExecutedWasSent)` under three conditions on the constants, each of which the
  runs that violate one of the two show to be needed:
  - `TakesTurns`: an `AckingRegister`, a host that sends when the status is 0 and
    starts a migration only when the driver is quiet, and a guest in which
    neither kmalloc nor the JIT fails (`DriverOverwritten` drops the second
    part);
  - `HelpersKnown`: every program the host has passes the fixup, as the three of
    `shared/guest_programs` do (`DriverRejected` drops it);
  - `ProgramsAlike`: they have one length and differ in one word at most, again
    as those three do, each of which is one helper call and an exit.

  The host does *not* wait for the worker: it may replace the program that is
  being copied.  `TurnsInv` says that while the worker has anything to do the
  buffer holds the last message, whole; `LoadsSent`, that what has been copied
  begins *some* message that was sent, though not always the one whose header
  was read.  The next word, of the last message, extends it: where the two
  messages differ all words before were alike, so it is the last message that
  has been begun, and elsewhere the word is the same in both.
* **`DriverRefinesService`** (`ServiceProofs`): under `TakesTurns` and
  `HelpersKnown`, `Spec => Service!Init /\ [][Service!Next]_(Service!vars)`, the
  part of `ImplementsService` that is not fairness.  Each message that met a
  quiet driver is followed through register, handler, work item, header, words,
  heap and `BPF_PROG_RUN`; only the last is a step of the service, and by then
  `insns` is that message after the fixup.

* **`ReportSafety`** (`FreePageReportProofs`): `Spec => [](TypeOK /\
  ReportedAreFree /\ OnlyFirstMissing /\ NoLockLeft)`.  The invariant says that
  the handler owns exactly the first `k` zones (`OwnsFirst`), how many these are
  at each step (`LocksCounted`), and that the buffer holds free blocks
  (`EntriesFree`) and all but the first of every list walked
  (`ScannedRecorded`).  With all zones owned the allocator cannot change a list,
  so both last until the doorbell.
* **`ReportRoom`** (`ReportPictureProofs`): `Spec => []RoomForReport`.  It is a
  counting argument: `NothingTwice` (a block is on one list, in one place, or
  the block the handler's arrays live in), which the allocator preserves while
  the handler walks elsewhere, and `BufferCounted`: the buffer has exactly one
  entry for each block on the managed lists walked so far.  It needs that the
  nested loops come to each list once (`ScanOrderAssumption`), which is how
  `for_each_populated_zone` and the loops over orders and types work.  So more
  entries than `migration_buffer` holds means more free blocks than that.
* **`ReportIsAtomic`** (`ReportPictureProofs`): `Spec => Atomic!Init /\
  [][Atomic!Next]_(Atomic!vars)`, the part of `ImplementsAtomicReport` that is
  not fairness: from the first list to the doorbell the buffer is what the
  abstract report would record of the lists *as they are* (`BufferIsPicture`),
  though lists change until the last lock is taken.  `Records` is a recursive
  function; that it satisfies its recursion for every number of lists
  (`RecordsDef`) is proved by the least element of the counterexamples
  (`LeastNat`), an induction that first-order provers can take.

* **`LifecycleSafety`** (`DriverLifecycleProofs`): `Spec => [](TypeOK /\
  HandlerHasRegisters /\ WorkFindsDriver /\ ReleasesHeld /\ NothingLeaked /\
  OneProgramPerLoading)`, for any number of bindings.  `ProbeAt` and `RemoveAt`
  give the step at which each resource is acquired and released.  The invariant
  bounds what is held from both sides by the step counter: `HeldAtMost` always,
  `HeldAtLeast` if nothing is refused.  On it rest
  - `HeldIsLive`: a global is live exactly while its resource is held, so a
    stale one is never taken for one acquired;
  - `RegistersAsked`, `HandlerHeld`: with the interrupt, the registers are held
    or were refused to this very probe; a handler runs only with the interrupt;
  - `WorkReady`, `LeftAlone`: a bound driver has its work initialised, and one
    left alone has no work on its way at any other time;
  - `ProgramsLost`: a loading that has installed nothing yet has nothing to
    lose.

* **`MonitorSafety`** (`AffinityMonitorProofs`): `Spec => [](TypeOK /\
  SoloCallsLogged /\ LastCellWritten /\ CounterInMap)`, on every number of CPUs.
  The invariant says where each call is going to write: `WritesCounted` (into a
  cell the counter counts, never the counter itself, since the index is read
  after the increment), `SoloKept` (above every cell a call wrote that nobody
  overlapped; the index of such a call is outside the map only after overlaps), `LastCellCovered` (the last counted cell is written, or some call
  is going to write it) and `OneAtATime` (without overlaps there is one call,
  and what it checked is what it increments).  `CallsCounted` bounds the counter
  by the calls made, minus those that have yet to increment it.
* **`InjectorSafety`** (`HostInjectorProofs`): `Spec => []CompleteIsProgram`, for
  every file and every width of `payload_len`.  `LastTaken` says that the payload
  is the last candidate section so far, cut to its length modulo 2^16;
  `SentInOrder` that nothing but the header is in flight before the payload is
  sent, or the connection is down; `CountedByHeader` that the device counts by
  the header of this very message; `PayloadInOrder` that what is in flight
  continues what has arrived, wherever a reset cuts it.  The one assumption
  added for it, `WildAssumption`, says that the value that stands for an
  uninitialised pointer is not a payload.
* **`ExperimentTypes`** and **`ExperimentSafety`** (`MigrationExperimentProofs`):
  `Spec => []TypeOK` for all constants, and `Spec => [](GuestSurvives /\
  ResultIsFinal)` under `ScriptHasTime`, for any number of rounds and whatever
  time QEMU and the migrations take.  `ScriptHasTime` is `MaxLag <= 7`, an
  assumption about terminals (with 8 seconds `nc` may keep the monitor, 20
  seconds, until the client of `info migrate`, which comes after 25 and waits
  for 3, has given up), and `ResultAfter <= 25`, `QuitAfter <= 27`, which is the
  time the script has; a migration that takes longer is not excluded, but makes
  `slow` or `overdue` true.  The invariant, `OnTime` unless `overdue`,
  cuts a round into six parts (`Arrived`, `Starting`, `Ordered`, `Migrating`,
  `Asking`, `Quitting`).  Each says who may still connect to a monitor
  (`OnlyClients`), whom it serves (`Holding`), and relates the timers to the
  seconds the script still sleeps: `EndsWithin(wait + 2)` is that a migration
  under way is over before the source quits, or before its result is asked for
  unless it is slow; in `Asking` the monitor comes free before the client that
  asks gives up (`open[migrateClient] < open[infoClient]`); in `Arrived` the
  old source is told to quit before it is started again.  Each action, and each
  part as a second passes, has a lemma.

Only model-checked: all liveness and fairness (`InterruptStops`,
`LatestInjectionRuns`, `ReportCompletes`, `BackAndForth`, and that part of
`ImplementsService` and `ImplementsAtomicReport`), which the prover cannot
reach.  Every invariant of the passing runs is stated by a
theorem, under the conditions above.

## 5. Not modelled, and why

* The QEMU device and the host's side of a migration are not in the
  repository; they are external actions.
* Dead code: `mywrite()`, `prepare_bpf_message()` (which ignores its `type`),
  the wait queue, the character device whose operations are all NULL although
  `test_dev.sh` writes to it, `send_bpf_injection_message()`, `saveToFile()`.
* The driver never sends `PROGRAM_INJECTION_RESULT`, although both message
  headers say that the host will "receive from guest a result"; there is
  nothing to model.  `propagateHeaders.sh` copies what lies between two `//cut`
  marks of a header that has one, and the two copies of the header have
  different message types.  `driver.h` describes a select register the driver
  does not use.
* What an overrun of `migration_buffer`, `zones[]` or `flags[]` destroys: the
  model stops there.
* A second newdev device, whose probe would overwrite the driver's globals: the
  scripts start a guest with one.
* The benchmark harness (`test/`), the host's load and the plots: what they
  produce is time and throughput.  `script.sh` is the first half of a round of
  `script2.sh`; what its ssh does in the guest (filling memory) changes how
  long a migration takes, which is a free choice of the model.

## 6. Plan

Done in this order: `BpfProgram`, `InjectionDriver` with `InjectionService`,
their proofs; `FreeLists`, `FreePageReport` with `AtomicReport`, its proof;
`DriverLifecycle`; `AffinityMonitor`; `HostInjector`; then the capacities of
the report, the host's patience as history, programs across bindings with the
proof of the life cycle, and `MigrationExperiment`.

Next, the most important first:

1. *Model*: removal with an installed program and pending work, composing
   `DriverLifecycle` with `InjectionDriver`; `HostInjector` composed with the
   device end of `InjectionDriver`.
2. *Prove* the invariants of these compositions from those of their parts.

## 7. Running

```
tlc -config DriverAny.cfg MCInjectionDriver
tlapm InjectionDriverProofs.tla
```
