--------------------------- MODULE InjectionDriver ---------------------------
(***************************************************************************)
(* The guest driver at work: the interrupt handler, the work item that     *)
(* loads and runs an injected eBPF program, and the device registers and   *)
(* buffer both share with the host (shared/driver/driver.c).               *)
(*                                                                         *)
(* Three actors interleave: the device, which stores what the host sends   *)
(* and raises the interrupt; irq_handler(); and the kernel worker that     *)
(* runs execute_work(), on another CPU or interrupted by the handler.      *)
(* Each access to state another actor may change is a step of its own.     *)
(***************************************************************************)
EXTENDS BpfProgram, FiniteSets

CONSTANTS
  Injections,  \* the injection messages the host may send
  Events,      \* the other interrupt statuses the device may raise
  IrqStatus,   \* the values of the status register
  Raise(_, _), \* the status register after raising a type over a status
  Lower(_, _), \* the status register after an acknowledgement of a status
  BufWords,    \* 32-bit words of the device buffer after the header
  Progs,       \* the addresses the kernel may give a struct bpf_prog
  NULL,
  FREE,        \* what a heap address not allocated holds
  NONE,        \* nothing reported to the device yet
  HighAddr,    \* guest-physical address of migration_buffer, upper 32 bits
  LowAddr,     \*                                             lower 32 bits
  Counts,      \* how many free blocks a scan may record
  MayFail,     \* may kernel allocations fail, the JIT, or the scan?
  Pacing,      \* when the host may send, see HostMaySend
  MaxRaises    \* bound: interrupts the device raises in a behaviour

ASSUME InjectionsAssumption ==
  /\ Injections \subseteq InjectionMessage
  /\ \A m \in Injections : Len(m.payload) <= BufWords
ASSUME BufWordsAssumption == BufWords \in Nat /\ BufWords >= 3
ASSUME EventsAssumption == Events \subseteq IrqStatus \ ({0} \cup InjectionTypes)
ASSUME IrqStatusAssumption ==
  /\ {0} \cup InjectionTypes \subseteq IrqStatus
  /\ \A s, t \in IrqStatus : Raise(s, t) \in IrqStatus /\ Lower(s, t) \in IrqStatus
ASSUME NullAssumption == NULL \notin Progs
ASSUME FreeAssumption == FREE \notin Program
ASSUME CountsAssumption ==
  HighAddr \in Int /\ LowAddr \in Int /\ Counts \subseteq Nat
ASSUME MayFailAssumption == MayFail \in BOOLEAN
ASSUME MaxRaisesAssumption == MaxRaises \in Nat

VARIABLES
  \* The device, and what the host has done with it.
  irq_status, \* the status register; the interrupt line is up unless it is 0
  header,     \* the first word of the buffer, as struct bpf_injection_msg_header
  payload,    \* the words after it
  raised,     \* how many times the device has raised the interrupt
  sent,       \* history: the injection messages sent
  awaited,    \* history: every interrupt was raised over a clear status
  quietly,    \* history: every injection was sent to a quiet driver
  unread,     \* history: the buffer holds an injection no work item has met
  report,     \* history: what the buffer held when the doorbell rang
  \* irq_handler(): its program counter and locals.
  hpc, seen, count,
  \* Globals of the driver.
  program_type, flag, bpf_injected_prog,
  \* The work queue, and the worker's program counter and locals.
  work_pending, wpc, program_id, program_size, insns, prog,
  \* The kernel heap, and (history) the programs executed so far, and
  \* whether an injection has failed: no memory, no JIT, unknown helper.
  heap, executed, failed

host    == <<raised, sent, awaited, quietly>>
device  == <<irq_status, header, payload, report, host>>
handler == <<hpc, seen, count, flag, program_type>>
setup   == <<program_id, program_size, insns, prog>>
loaded  == <<bpf_injected_prog, heap>>
worker  == <<wpc, setup, loaded, executed, failed>>
vars    == <<device, unread, handler, work_pending, worker>>

-----------------------------------------------------------------------------
Header == [type : Nat, payload_len : Uint16]
Report == [header : Header, words : Seq(Int)]
Freed  == [name |-> BPFHV_PROG_NONE, insns |-> <<>>] \* running freed memory

Live(p) == heap[p] # FREE

HandlerPcs == {"idle", "dispatch", "schedule", "scan", "header", "high",
               "low", "count", "doorbell", "ack", "oops"}
WorkerPcs  == {"idle", "type", "header", "copy", "load", "select", "run",
               "oops"}

TypeOK ==
  /\ irq_status \in IrqStatus
  /\ header \in Header
  /\ payload \in [0 .. BufWords - 1 -> Int]
  /\ raised \in 0 .. MaxRaises
  /\ sent \in Seq(Injections)
  /\ {awaited, quietly, unread, failed} \subseteq BOOLEAN
  /\ report \in Report \cup {NONE}
  /\ hpc \in HandlerPcs
  /\ seen \in IrqStatus
  /\ count \in Counts \cup {0}
  /\ program_type \in InjectionTypes \cup {0}
  /\ flag \in BOOLEAN
  /\ bpf_injected_prog \in Progs \cup {NULL}
  /\ work_pending \in BOOLEAN
  /\ wpc \in WorkerPcs
  /\ program_id \in ProgIds
  /\ program_size \in Uint16
  /\ insns \in Seq(Int)
  /\ prog \in Progs \cup {NULL}
  /\ heap \in [Progs -> Program \cup {FREE}]
  /\ executed \in Seq(Program)

(* pci_probe() has completed; the device buffer is empty and quiet. *)
Init ==
  /\ irq_status = 0
  /\ header = [type |-> 0, payload_len |-> 0]
  /\ payload = [w \in 0 .. BufWords - 1 |-> 0]
  /\ raised = 0
  /\ sent = <<>> /\ awaited = TRUE /\ quietly = TRUE
  /\ unread = FALSE
  /\ report = NONE
  /\ hpc = "idle" /\ seen = 0 /\ count = 0
  /\ program_type = 0 /\ flag = FALSE
  /\ bpf_injected_prog = NULL
  /\ work_pending = FALSE
  /\ wpc = "idle" /\ program_id = BPFHV_PROG_NONE /\ program_size = 0
  /\ insns = <<>> /\ prog = NULL
  /\ heap = [p \in Progs |-> FREE]
  /\ executed = <<>> /\ failed = FALSE

-----------------------------------------------------------------------------
(***************************************************************************)
(* The device and the host behind it.                                      *)
(***************************************************************************)

(* The driver has nothing left to do, as when a person injects one program *)
(* after another.                                                          *)
Quiet ==
  /\ irq_status = 0 /\ hpc = "idle"
  /\ wpc \in {"idle", "oops"} /\ ~work_pending

(* When the host may send.  "any": at any time.  "ack": the driver has     *)
(* acknowledged the interrupt before.  "turns": moreover a migration       *)
(* starts only when the driver is quiet.                                   *)
HostMaySend(type) ==
  \/ Pacing = "any"
  \/ Pacing = "ack" /\ irq_status = 0
  \/ /\ Pacing = "turns" /\ irq_status = 0
     /\ type = FIRST_ROUND_MIGRATION_START => Quiet

RaiseIrq(type) ==
  /\ raised < MaxRaises
  /\ HostMaySend(type)
  /\ irq_status' = Raise(irq_status, type)
  /\ raised' = raised + 1
  /\ awaited' = (awaited /\ irq_status = 0)

(* The host injects a program: the device stores it and interrupts. *)
HostSend(m) ==
  /\ RaiseIrq(m.type)
  /\ header' = [type |-> m.type, payload_len |-> m.payload_len]
  /\ payload' = [w \in 0 .. BufWords - 1 |->
                   IF w < Len(m.payload) THEN m.payload[w + 1] ELSE payload[w]]
  /\ sent' = Append(sent, m)
  /\ quietly' = (quietly /\ Quiet)
  /\ unread' = TRUE
  /\ UNCHANGED <<report, handler, work_pending, worker>>

(* The hypervisor announces a migration phase, or anything else. *)
RaiseEvent(t) ==
  /\ RaiseIrq(t)
  /\ UNCHANGED <<header, payload, sent, quietly, unread, report, handler,
                 work_pending, worker>>

-----------------------------------------------------------------------------
(***************************************************************************)
(* irq_handler().  The line is shared (IRQF_SHARED), so it may also be     *)
(* entered while the status is 0; it is never entered twice at once.       *)
(***************************************************************************)
HandlerStep(from, to) == hpc = from /\ hpc' = to

IrqEntry ==
  /\ HandlerStep("idle", "dispatch")
  /\ seen' = irq_status
  /\ UNCHANGED <<device, unread, count, flag, program_type, work_pending,
                 worker>>

StoreType_Forgotten(type) == UNCHANGED program_type
StoreType(type) == program_type' = type

(* The cases of the switch that queue the injection work. *)
ProgramCases_MissingCase == {PROGRAM_INJECTION, PROGRAM_SET_MAXIMUM_ORDER}
ProgramCases ==
  {PROGRAM_INJECTION, PROGRAM_MEMORY_INFO, PROGRAM_SET_MAXIMUM_ORDER}

IrqProgram ==
  /\ HandlerStep("dispatch", "schedule")
  /\ seen \in ProgramCases
  /\ StoreType(seen)
  /\ UNCHANGED <<device, unread, seen, count, flag, work_pending, worker>>

(* schedule_work() does nothing if the work item is pending already; one  *)
(* that is running is queued to run again.                                *)
ScheduleWork ==
  /\ HandlerStep("schedule", "ack")
  /\ work_pending' = TRUE
  /\ UNCHANGED <<device, unread, seen, count, flag, program_type, worker>>

IrqInit ==
  /\ HandlerStep("dispatch", "ack")
  /\ seen = INIT_IRQ
  /\ flag' = TRUE \* and wake_up_interruptible(&wq): nobody waits on wq
  /\ UNCHANGED <<device, unread, seen, count, program_type, work_pending,
                 worker>>

(* The end of a migration round is only logged, any other status ignored. *)
IrqOther ==
  /\ HandlerStep("dispatch", "ack")
  /\ seen \notin ProgramCases \cup {FIRST_ROUND_MIGRATION_START, INIT_IRQ}
  /\ UNCHANGED <<device, unread, seen, count, flag, program_type,
                 work_pending, worker>>

IrqMigrationStart ==
  /\ HandlerStep("dispatch", "scan")
  /\ seen = FIRST_ROUND_MIGRATION_START
  /\ UNCHANGED <<device, unread, seen, count, flag, program_type,
                 work_pending, worker>>

(* write_guest_free_pages(), up to the report; see FreePageReport. *)
ScanFreePages ==
  /\ HandlerStep("scan", "header")
  /\ count' \in Counts
  /\ report' = NONE
  /\ UNCHANGED <<irq_status, header, payload, host, unread, seen, flag,
                 program_type, work_pending, worker>>

(* Without memory for the locks or flags, or with more blocks recorded     *)
(* than migration_buffer holds, the scan takes the guest with it: nothing  *)
(* of the driver runs after a fault in an interrupt.                       *)
ScanFails ==
  /\ MayFail
  /\ HandlerStep("scan", "oops")
  /\ UNCHANGED <<device, unread, seen, count, flag, program_type,
                 work_pending, worker>>

WriteReportHeader ==
  /\ HandlerStep("header", "high")
  /\ header' = [type |-> FIRST_ROUND_MIGRATION, payload_len |-> 12]
  /\ unread' = FALSE
  /\ UNCHANGED <<irq_status, payload, host, report, seen, count, flag,
                 program_type, work_pending, worker>>

AfterWord_CountForgotten(pc) ==
  CASE pc = "high" -> "low" [] pc = "low" -> "doorbell" [] OTHER -> "doorbell"
AfterWord(pc) ==
  CASE pc = "high" -> "low" [] pc = "low" -> "count" [] OTHER -> "doorbell"

WriteReportWord ==
  /\ hpc \in {"high", "low", "count"}
  /\ hpc' = AfterWord(hpc)
  /\ payload' = CASE hpc = "high"  -> [payload EXCEPT ![0] = HighAddr]
                  [] hpc = "low"   -> [payload EXCEPT ![1] = LowAddr]
                  [] hpc = "count" -> [payload EXCEPT ![2] = count]
  /\ UNCHANGED <<irq_status, header, host, unread, report, seen, count,
                 flag, program_type, work_pending, worker>>

(* The device takes the report from its buffer when the doorbell rings. *)
RingDoorbell ==
  /\ HandlerStep("doorbell", "ack")
  /\ report' = [header |-> header,
                words  |-> <<payload[0], payload[1], payload[2]>>]
  /\ UNCHANGED <<irq_status, header, payload, host, unread, seen, count,
                 flag, program_type, work_pending, worker>>

Acknowledge_Forgotten(status, s) == status
Acknowledge(status, s) == Lower(status, s)

IrqAck ==
  /\ HandlerStep("ack", "idle")
  /\ irq_status' = Acknowledge(irq_status, seen)
  /\ seen' = 0
  /\ UNCHANGED <<header, payload, host, unread, report, count, flag,
                 program_type, work_pending, worker>>

Handler ==
  \/ IrqEntry \/ IrqProgram \/ ScheduleWork \/ IrqInit \/ IrqOther
  \/ IrqMigrationStart \/ ScanFreePages \/ ScanFails
  \/ WriteReportHeader \/ WriteReportWord \/ RingDoorbell \/ IrqAck

-----------------------------------------------------------------------------
(***************************************************************************)
(* The worker: execute_work(), which calls bpf_programs_setup() and        *)
(* ignores its result, then runs bpf_injected_prog.                        *)
(***************************************************************************)
WorkerStep(from, to) == wpc = from /\ wpc' = to

(* The work queue clears the pending bit before it calls execute_work(). *)
WorkStart ==
  /\ WorkerStep("idle", "type")
  /\ work_pending
  /\ work_pending' = FALSE
  /\ UNCHANGED <<device, unread, handler, setup, loaded, executed, failed>>

ReadType ==
  /\ WorkerStep("type", "header")
  /\ program_id' = ProgTypeFromIrq(program_type)
  /\ UNCHANGED <<device, unread, handler, work_pending, program_size, insns,
                 prog, loaded, executed, failed>>

FreePrevious_Forgotten == heap
FreePrevious ==
  IF bpf_injected_prog = NULL THEN heap
  ELSE [heap EXCEPT ![bpf_injected_prog] = FREE]

Dangling == bpf_injected_prog # NULL /\ ~Live(bpf_injected_prog)

(* Read the message header; without memory for the instructions setup     *)
(* returns here, otherwise it frees the previous program.  Freeing freed  *)
(* memory may go unnoticed or stop the worker.                            *)
ReadHeader ==
  /\ wpc = "header"
  /\ program_size' = ProgramSize(header.payload_len)
  /\ unread' = FALSE
  /\ \/ MayFail /\ wpc' = "run" /\ failed' = TRUE /\ UNCHANGED heap
     \/ heap' = FreePrevious /\ wpc' = "copy" /\ UNCHANGED failed
     \/ Dangling /\ heap' = FreePrevious /\ wpc' = "oops" /\ UNCHANGED failed
  /\ UNCHANGED <<device, handler, work_pending, program_id, insns, prog,
                 bpf_injected_prog, executed>>

CopyWord ==
  /\ wpc = "copy"
  /\ Len(insns) < WordsToCopy(program_size)
  /\ insns' = Append(insns, payload[Len(insns)])
  /\ UNCHANGED <<device, unread, handler, work_pending, wpc, program_id,
                 program_size, prog, loaded, executed, failed>>

(* bpfhv_helper_calls_fixup(): an unknown helper ends the setup. *)
FixupCalls ==
  /\ wpc = "copy"
  /\ Len(insns) = WordsToCopy(program_size)
  /\ IF FixupAccepts(insns)
     THEN wpc' = "load" /\ insns' = Fixup(insns) /\ UNCHANGED failed
     ELSE wpc' = "run" /\ failed' = TRUE /\ UNCHANGED insns
  /\ UNCHANGED <<device, unread, handler, work_pending, program_id,
                 program_size, prog, loaded, executed>>

(* bpf_my_prog_alloc() gets memory for the program and fills it in.  A    *)
(* program id without a name stops the worker in strlcat().               *)
AllocProg ==
  /\ wpc = "load"
  /\ \E p \in Progs :
       /\ ~Live(p)
       /\ prog' = p
       /\ heap' = [heap EXCEPT ![p] = [name |-> program_id, insns |-> insns]]
  /\ wpc' = IF program_id = BPFHV_PROG_NONE THEN "oops" ELSE "select"
  /\ UNCHANGED <<device, unread, handler, work_pending, program_id,
                 program_size, insns, bpf_injected_prog, executed, failed>>

AllocProgFails ==
  /\ WorkerStep("load", "run")
  /\ MayFail /\ failed' = TRUE
  /\ bpf_injected_prog' = NULL
  /\ UNCHANGED <<device, unread, handler, work_pending, setup, heap, executed>>

Install_FirstOnly(p) ==
  bpf_injected_prog' = IF bpf_injected_prog = NULL THEN p ELSE bpf_injected_prog
Install(p) == bpf_injected_prog' = p

SelectRuntime ==
  /\ WorkerStep("select", "run")
  /\ prog' = NULL
  /\ Install(prog)
  /\ UNCHANGED <<device, unread, handler, work_pending, program_id,
                 program_size, insns, heap, executed, failed>>

SelectRuntimeFails ==
  /\ WorkerStep("select", "run")
  /\ MayFail /\ failed' = TRUE
  /\ prog' = NULL
  /\ heap' = [heap EXCEPT ![prog] = FREE]
  /\ bpf_injected_prog' = NULL
  /\ UNCHANGED <<device, unread, handler, work_pending, program_id,
                 program_size, insns, executed>>

(* BPF_PROG_RUN() reads through the pointer whatever setup returned.  A   *)
(* null pointer stops the worker; freed memory may too, or be executed.   *)
RunProgram ==
  /\ wpc = "run"
  /\ \/ /\ bpf_injected_prog # NULL
        /\ executed' = Append(executed, IF Dangling THEN Freed
                                        ELSE heap[bpf_injected_prog])
        /\ wpc' = "idle"
     \/ /\ bpf_injected_prog = NULL \/ Dangling
        /\ wpc' = "oops"
        /\ UNCHANGED executed
  /\ program_id' = BPFHV_PROG_NONE /\ program_size' = 0 /\ insns' = <<>>
  /\ UNCHANGED <<device, unread, handler, work_pending, prog, loaded, failed>>

Worker ==
  /\ hpc # "oops"
  /\ \/ WorkStart \/ ReadType \/ ReadHeader \/ CopyWord \/ FixupCalls
     \/ AllocProg \/ AllocProgFails \/ SelectRuntime \/ SelectRuntimeFails
     \/ RunProgram

-----------------------------------------------------------------------------
Next ==
  \/ \E m \in Injections : HostSend(m)
  \/ \E t \in Events : RaiseEvent(t)
  \/ Handler
  \/ Worker

Spec == Init /\ [][Next]_vars

(* An asserted level-triggered line is served, a handler that was entered *)
(* runs to its end, and the work queue runs its pending work to the end.  *)
(* Nothing makes the host send.                                           *)
Fairness ==
  /\ WF_vars(irq_status # 0 /\ IrqEntry)
  /\ WF_vars(hpc # "idle" /\ Handler)
  /\ WF_vars(Worker)

FairSpec == Spec /\ Fairness

-----------------------------------------------------------------------------
(***************************************************************************)
(* Safety.                                                                 *)
(***************************************************************************)

(* The driver loses no bpf_prog: whatever fails, and wherever, the only    *)
(* programs allocated are the installed one and the one being set up.      *)
NoProgLeak ==
  \A p \in Progs : Live(p) => p \in {bpf_injected_prog, prog}

(* Each helper call of an allocated program, a helper call being what the  *)
(* fixup recognises as one, goes to a function of the driver, even if its  *)
(* words were read while the host was replacing them.  Of a call with a    *)
(* register or the offset set, which the fixup passes over, it says        *)
(* nothing.                                                                *)
CallsResolved == \A p \in Progs : Live(p) => Resolved(heap[p].insns)

(* The worker reads only words of the device buffer, whichever message the *)
(* header it sized the program by belonged to.                             *)
CopyInBounds ==
  wpc = "copy" => WordsToCopy(program_size) <= BufWords

(* A work item finds the type of an injection in program_type, so that     *)
(* bpf_my_prog_alloc() is never given a program without a name.            *)
WorkHasType ==
  /\ work_pending \/ wpc = "type" => program_type \in InjectionTypes
  /\ wpc \in {"header", "copy", "load", "select"} =>
       program_id # BPFHV_PROG_NONE

(* The worker does not stop, at a null or freed pointer or a missing name, *)
(* before an injection has failed: for want of memory for its words or for *)
(* the program, at a helper it does not know, or in the JIT.  What         *)
(* bpf_programs_setup() returns would not tell execute_work() so much: it  *)
(* returns 0 too when bpf_my_prog_alloc() failed and the pointer is null.  *)
StopsOnlyAfterFailure == wpc = "oops" => failed

(* As long as the host awaits each acknowledgement, an injection in the    *)
(* buffer that no work item has met is on its way to one: its interrupt is *)
(* up or being handled, or the work is pending, or has yet to read the     *)
(* header.                                                                 *)
NoInjectionForgotten ==
  awaited /\ unread =>
    \/ irq_status \in InjectionTypes
    \/ hpc = "schedule"
    \/ work_pending
    \/ wpc \in {"type", "header"}

(* As long as the host awaits each acknowledgement, the buffer holds the   *)
(* handler's own report, and all of it, when the doorbell rings.           *)
DoorbellSeesReport ==
  awaited /\ report # NONE =>
    report = [header |-> [type |-> FIRST_ROUND_MIGRATION, payload_len |-> 12],
              words  |-> <<HighAddr, LowAddr, count>>]

(* Between two steps of the worker that use it, the pointer to the         *)
(* installed program is null or points to an allocated program: driver.c   *)
(* frees "previous eBPF programs", and runs one, through it.               *)
InstalledIsLive ==
  wpc \in {"idle", "type", "header", "run"} => ~Dangling

(* What runs in the guest is a program the host sent.                      *)
ExecutedWasSent ==
  \A e \in 1 .. Len(executed) : \E m \in 1 .. Len(sent) :
    executed[e].insns = Fixup(Insns(sent[m]))

-----------------------------------------------------------------------------
(***************************************************************************)
(* Liveness.                                                               *)
(***************************************************************************)

(* The interrupt does not "keep firing": when the device raises no more,   *)
(* the line stays down from some time on, unless the scan of the free      *)
(* pages took the guest with it before the handler's acknowledgement.      *)
InterruptStops == <>[](irq_status = 0) \/ <>(hpc = "oops")

(* When the last thing the host does is to inject a program, that program  *)
(* is eventually the last executed one, under the name of its type,        *)
(* whatever was being loaded when it came.                                 *)
LatestInjectionRuns ==
  (raised = MaxRaises /\ sent # <<>> /\ irq_status = sent[Len(sent)].type)
    ~> [](executed # <<>> /\ executed[Len(executed)] = ProgramOf(sent[Len(sent)]))

(* As long as the host injects only into a quiet driver, the driver gives  *)
(* the service it expects: each program once, and in order.                *)
Service == INSTANCE InjectionService WITH kept <- quietly
ImplementsService == Service!Spec
=============================================================================
