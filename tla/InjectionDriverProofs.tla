----------------------- MODULE InjectionDriverProofs -----------------------
(***************************************************************************)
(* Safety of the driver for every status register, buffer, number of       *)
(* injections and pacing of the host; and what awaiting the                *)
(* acknowledgement buys the host.                                          *)
(***************************************************************************)
EXTENDS InjectionDriver, TLAPS

-----------------------------------------------------------------------------
(***************************************************************************)
(* What bpfhv_helper_calls_fixup() guarantees, for every program.          *)
(***************************************************************************)

(* The fixup rewrites words in place: a program keeps its length and stays *)
(* a sequence of words.                                                    *)
LEMMA FixupKeepsShape ==
  ASSUME NEW words \in Seq(Int)
  PROVE  Fixup(words) \in Seq(Int) /\ Len(Fixup(words)) = Len(words)
<1>1. \A k \in 1 .. Len(words) :
        (IF k \in HelperCalls(words) /\ words[k] \in HelperIds
         THEN HelperOffset[words[k]] ELSE words[k]) \in Int
  BY HelperOffsetAssumption
<1> QED BY <1>1 DEF Fixup

(* The fixup changes immediates only, so it neither adds nor removes a     *)
(* call, of a helper or otherwise.                                         *)
LEMMA FixupKeepsCalls ==
  ASSUME NEW words \in Seq(Int)
  PROVE  /\ HelperCalls(Fixup(words)) = HelperCalls(words)
         /\ Calls(Fixup(words)) = Calls(words)
<1>1. Len(Fixup(words)) = Len(words)
  BY FixupKeepsShape
<1>2. DOMAIN Fixup(words) = DOMAIN words /\ DOMAIN words = 1 .. Len(words)
  BY DEF Fixup
<1>3. ASSUME NEW k \in DOMAIN words, k % 2 = 0
      PROVE  Fixup(words)[k - 1] = words[k - 1]
  <2>1. ASSUME NEW n \in Nat, NEW j \in 1 .. n, j % 2 = 0
        PROVE  j - 1 \in 1 .. n /\ (j - 1) % 2 # 0
    BY <2>1
  <2>2. Len(words) \in Nat /\ k \in 1 .. Len(words)
    BY <1>2
  <2>3. k - 1 \in 1 .. Len(words) /\ (k - 1) % 2 # 0
    BY <1>3, <2>1, <2>2
  <2>4. k - 1 \notin HelperCalls(words)
    BY <2>3 DEF HelperCalls
  <2> QED BY <2>3, <2>4 DEF Fixup
<1> QED BY <1>2, <1>3 DEF HelperCalls, Calls

(* In a program the fixup accepts, wherever its words came from, each call *)
(* it recognises as that of a helper was of a known one and goes to the    *)
(* function of that helper afterwards; every other word is as before, the  *)
(* immediates of other calls included.  So all calls of the program go to  *)
(* the driver if they are helper calls, or hold a function's offset        *)
(* already.                                                                *)
THEOREM FixupResolves ==
  ASSUME NEW words \in Seq(Int), FixupAccepts(words)
  PROVE  /\ Len(Fixup(words)) = Len(words)
         /\ \A k \in HelperCalls(words) :
              words[k] \in HelperIds /\ Fixup(words)[k] = HelperOffset[words[k]]
         /\ \A k \in (1 .. Len(words)) \ HelperCalls(words) :
              Fixup(words)[k] = words[k]
         /\ Resolved(Fixup(words))
         /\ GoToDriver(Fixup(words), Calls(Fixup(words)))
              <=> GoToDriver(words, Calls(words) \ HelperCalls(words))
<1>1. \A k \in HelperCalls(words) : k \in 1 .. Len(words)
  BY DEF HelperCalls
<1>2. \A k \in HelperCalls(words) :
        words[k] \in HelperIds /\ Fixup(words)[k] = HelperOffset[words[k]]
  BY <1>1 DEF FixupAccepts, Fixup
<1>3. \A k \in (1 .. Len(words)) \ HelperCalls(words) :
        Fixup(words)[k] = words[k]
  BY DEF Fixup
<1>4. Resolved(Fixup(words))
  BY <1>2, FixupKeepsCalls DEF Resolved, GoToDriver
<1>5. GoToDriver(Fixup(words), Calls(Fixup(words)))
        <=> GoToDriver(words, Calls(words) \ HelperCalls(words))
  <2>1. \A k \in Calls(words) : k \in 1 .. Len(words)
    BY DEF Calls
  <2> QED BY <1>2, <1>3, <2>1, FixupKeepsCalls DEF GoToDriver
<1> QED BY <1>2, <1>3, <1>4, <1>5, FixupKeepsShape

-----------------------------------------------------------------------------
(* Names for tuples of variables. *)
USE DEF host, setup, loaded

-----------------------------------------------------------------------------
(***************************************************************************)
(* The inductive invariant.                                                *)
(***************************************************************************)

(* Whoever wrote the header, host or handler, the length it announces fits *)
(* the buffer: what a program is sized by before its words are copied.     *)
HeaderInBounds == header.payload_len <= 4 * BufWords

(* From the release of the previous program to the installation of the     *)
(* next one, the program being set up is the only one allocated, although  *)
(* bpf_injected_prog still holds the address of the previous one.          *)
SetupOwnsHeap ==
  /\ wpc \notin {"select", "oops"} => prog = NULL
  /\ wpc = "select" => prog # NULL
  /\ wpc \in {"copy", "load"} => \A p \in Progs : ~Live(p)
  /\ wpc = "select" => \A p \in Progs : Live(p) => p = prog

(* Only a program whose calls were resolved is given to the kernel. *)
LoadIsResolved == wpc = "load" => Resolved(insns)

(* irq_handler() stores the type before it queues the work. *)
ScheduleHasType == hpc = "schedule" => program_type \in InjectionTypes

(* Until an injection fails the pointer that is run through is good, and   *)
(* the program about to be installed is allocated.                         *)
LiveUnlessFailed ==
  ~failed => /\ wpc # "oops"
             /\ wpc \in {"idle", "type", "header", "run"} => ~Dangling
             /\ wpc = "select" => prog # NULL /\ Live(prog)
             /\ wpc = "run" => bpf_injected_prog # NULL

IInv ==
  /\ TypeOK
  /\ HeaderInBounds /\ CopyInBounds
  /\ SetupOwnsHeap /\ NoProgLeak
  /\ LoadIsResolved /\ CallsResolved
  /\ ScheduleHasType /\ WorkHasType
  /\ LiveUnlessFailed

-----------------------------------------------------------------------------
(* A program sized by a length that fits the buffer is copied from it. *)
LEMMA CopyFits ==
  ASSUME NEW n \in Uint16, n <= 4 * BufWords
  PROVE  /\ ProgramSize(n) \in Uint16
         /\ WordsToCopy(ProgramSize(n)) \in Nat
         /\ WordsToCopy(ProgramSize(n)) <= BufWords
<1> DEFINE q == n \div 8
<1>1. n \in Nat /\ n < 65536
  BY DEF Uint16
<1>2. q \in Nat /\ 8 * q <= n
  BY <1>1
<1> HIDE DEF q
<1>3. q < 65536 /\ 2 * q <= BufWords
  BY <1>1, <1>2, BufWordsAssumption
<1> QED BY <1>2, <1>3 DEF ProgramSize, WordsToCopy, Uint16, q

(* A message that fits the buffer announces no more bytes than that holds. *)
LEMMA MessageFits ==
  ASSUME NEW m \in Injections
  PROVE  /\ m.type \in InjectionTypes /\ m.payload \in Seq(Int)
         /\ Len(m.payload) \in Nat /\ Len(m.payload) <= BufWords
         /\ m.payload_len \in Uint16 /\ m.payload_len \in Nat
         /\ m.payload_len <= 4 * Len(m.payload)
         /\ m.payload_len <= 4 * BufWords
<1> DEFINE n == m.payload_len  l == Len(m.payload)
<1>1. /\ m.type \in InjectionTypes /\ m.payload \in Seq(Int)
      /\ n \in Uint16 /\ l = (n + 3) \div 4
  BY InjectionsAssumption DEF InjectionMessage
<1>2. l \in Nat /\ l <= BufWords
  BY <1>1, InjectionsAssumption
<1>3. n \in Nat
  BY <1>1 DEF Uint16
<1> HIDE DEF n, l
<1>4. n <= 4 * l
  BY <1>1, <1>3
<1>5. n <= 4 * BufWords
  BY <1>2, <1>3, <1>4, BufWordsAssumption
<1> QED BY <1>1, <1>2, <1>3, <1>4, <1>5 DEF n, l

LEMMA TypesAreProgIds ==
  \A t : /\ ProgTypeFromIrq(t) \in ProgIds
         /\ t \in InjectionTypes => ProgTypeFromIrq(t) # BPFHV_PROG_NONE
BY DEF ProgTypeFromIrq, ProgIds, InjectionTypes, PROGRAM_INJECTION,
       PROGRAM_MEMORY_INFO, PROGRAM_SET_MAXIMUM_ORDER, BPFHV_PROG_NONE,
       BPFHV_PROG_TEST, BPFHV_PROG_GET_MEMORY_INFO,
       BPFHV_PROG_SET_MAXIMUM_PAGE_ORDER, BPFHV_PROG_MAX

LEMMA FreedIsProgram == Freed \in Program
BY DEF Freed, Program, ProgIds, BPFHV_PROG_NONE, BPFHV_PROG_MAX

LEMMA InitIInv == Init => IInv
<1> SUFFICES ASSUME Init PROVE IInv
  OBVIOUS
<1>1. TypeOK
  <2>1. irq_status \in IrqStatus /\ seen \in IrqStatus
    BY IrqStatusAssumption DEF Init
  <2>2. header \in Header /\ payload \in [0 .. BufWords - 1 -> Int]
    BY DEF Init, Header, Uint16
  <2>3. raised \in 0 .. MaxRaises
    BY MaxRaisesAssumption DEF Init
  <2>4. sent \in Seq(Injections) /\ insns \in Seq(Int) /\ executed \in Seq(Program)
    BY DEF Init
  <2>5. program_id \in ProgIds
    BY DEF Init, ProgIds, BPFHV_PROG_NONE, BPFHV_PROG_MAX
  <2>6. heap \in [Progs -> Program \cup {FREE}]
    BY DEF Init
  <2>7. hpc \in HandlerPcs /\ wpc \in WorkerPcs /\ program_size \in Uint16
    BY DEF Init, HandlerPcs, WorkerPcs, Uint16
  <2>8. /\ {awaited, quietly, unread, failed} \subseteq BOOLEAN
        /\ report \in Report \cup {NONE}
        /\ count \in Counts \cup {0}
        /\ program_type \in InjectionTypes \cup {0} /\ flag \in BOOLEAN
        /\ bpf_injected_prog \in Progs \cup {NULL} /\ work_pending \in BOOLEAN
        /\ prog \in Progs \cup {NULL}
    BY DEF Init
  <2> QED BY <2>1, <2>2, <2>3, <2>4, <2>5, <2>6, <2>7, <2>8 DEF TypeOK
<1>2. HeaderInBounds /\ CopyInBounds
  BY BufWordsAssumption DEF Init, HeaderInBounds, CopyInBounds
<1>3. SetupOwnsHeap /\ NoProgLeak /\ LoadIsResolved /\ CallsResolved
  BY DEF Init, SetupOwnsHeap, NoProgLeak, LoadIsResolved, CallsResolved, Live
<1>4. ScheduleHasType /\ WorkHasType /\ LiveUnlessFailed
  BY DEF Init, ScheduleHasType, WorkHasType, LiveUnlessFailed, Dangling
<1> QED BY <1>1, <1>2, <1>3, <1>4 DEF IInv

-----------------------------------------------------------------------------
(* The device: a message of the host fits header and buffer. *)
LEMMA DeviceStep ==
  ASSUME IInv,
         (\E m \in Injections : HostSend(m)) \/ (\E t \in Events : RaiseEvent(t))
  PROVE  IInv'
<1> USE DEF IInv
<1>1. UNCHANGED <<handler, work_pending, worker>>
  BY DEF HostSend, RaiseEvent
<1>2. /\ irq_status' \in IrqStatus /\ raised' \in 0 .. MaxRaises
      /\ awaited' \in BOOLEAN
  <2>1. \E t \in IrqStatus : RaiseIrq(t)
    BY InjectionsAssumption, EventsAssumption, IrqStatusAssumption
    DEF HostSend, RaiseEvent, InjectionMessage
  <2> QED BY <2>1, IrqStatusAssumption, MaxRaisesAssumption
          DEF RaiseIrq, TypeOK
<1>3. /\ header' \in Header /\ payload' \in [0 .. BufWords - 1 -> Int]
      /\ HeaderInBounds'
      /\ sent' \in Seq(Injections) /\ report' = report
      /\ {quietly', unread'} \subseteq BOOLEAN
  <2>1. CASE \E t \in Events : RaiseEvent(t)
    BY <2>1 DEF RaiseEvent, TypeOK, HeaderInBounds
  <2>2. CASE \E m \in Injections : HostSend(m)
    <3> PICK m \in Injections : HostSend(m)
      BY <2>2
    <3>1. /\ m.payload \in Seq(Int) /\ m.type \in InjectionTypes
          /\ m.payload_len \in Uint16 /\ m.payload_len <= 4 * BufWords
      BY MessageFits
    <3>2. header' \in Header /\ HeaderInBounds'
      BY <3>1 DEF HostSend, Header, HeaderInBounds, InjectionTypes,
          PROGRAM_INJECTION, PROGRAM_MEMORY_INFO, PROGRAM_SET_MAXIMUM_ORDER
    <3>3. payload' \in [0 .. BufWords - 1 -> Int]
      BY <3>1, BufWordsAssumption DEF HostSend, TypeOK
    <3>4. /\ sent' \in Seq(Injections) /\ report' = report
          /\ {quietly', unread'} \subseteq BOOLEAN
      BY DEF HostSend, TypeOK
    <3> QED BY <3>2, <3>3, <3>4
  <2> QED BY <2>1, <2>2
<1>4. TypeOK'
  BY <1>1, <1>2, <1>3 DEF TypeOK, handler, worker
<1>5. /\ CopyInBounds' /\ SetupOwnsHeap' /\ NoProgLeak' /\ LoadIsResolved'
      /\ CallsResolved' /\ ScheduleHasType' /\ WorkHasType' /\ LiveUnlessFailed'
  BY <1>1
  DEF handler, worker, CopyInBounds, SetupOwnsHeap, NoProgLeak,
      LoadIsResolved, CallsResolved, ScheduleHasType, WorkHasType,
      LiveUnlessFailed, Dangling, Live
<1> QED BY <1>3, <1>4, <1>5

-----------------------------------------------------------------------------
(* The handler: it leaves the worker's state alone, and what it writes to  *)
(* the buffer is a report, with a length of its own.                       *)
LEMMA HandlerLeavesWorker ==
  ASSUME Handler
  PROVE  /\ UNCHANGED <<worker, host>>
         /\ hpc # "schedule" => UNCHANGED work_pending
BY DEF Handler, IrqEntry, IrqProgram, ScheduleWork, IrqInit, IrqOther,
       IrqMigrationStart, ScanFreePages, ScanFails, WriteReportHeader, WriteReportWord,
       RingDoorbell, IrqAck, HandlerStep, device, worker

LEMMA HandlerTypes ==
  ASSUME TypeOK, Handler
  PROVE  TypeOK'
<1> USE DEF HandlerStep
<1>1. UNCHANGED <<worker, host>>
  BY HandlerLeavesWorker
<1>2. hpc' \in HandlerPcs
  BY DEF Handler, IrqEntry, IrqProgram, ScheduleWork, IrqInit, IrqOther,
         IrqMigrationStart, ScanFreePages, ScanFails, WriteReportHeader,
         WriteReportWord, RingDoorbell, IrqAck, AfterWord, HandlerPcs
<1>3. irq_status' \in IrqStatus /\ seen' \in IrqStatus
  BY IrqStatusAssumption
  DEF Handler, IrqEntry, IrqProgram, ScheduleWork, IrqInit, IrqOther,
      IrqMigrationStart, ScanFreePages, ScanFails, WriteReportHeader, WriteReportWord,
      RingDoorbell, IrqAck, Acknowledge, TypeOK, device
<1>4. /\ program_type' \in InjectionTypes \cup {0} /\ flag' \in BOOLEAN
      /\ work_pending' \in BOOLEAN /\ unread' \in BOOLEAN
      /\ count' \in Counts \cup {0}
  BY DEF Handler, IrqEntry, IrqProgram, ScheduleWork, IrqInit, IrqOther,
         IrqMigrationStart, ScanFreePages, ScanFails, WriteReportHeader,
         WriteReportWord, RingDoorbell, IrqAck, StoreType, ProgramCases,
         InjectionTypes, TypeOK, device
<1>5. /\ header' \in Header /\ payload' \in [0 .. BufWords - 1 -> Int]
      /\ report' \in Report \cup {NONE}
  <2>1. CASE WriteReportHeader
    BY <2>1 DEF WriteReportHeader, Header, TypeOK, Uint16, FIRST_ROUND_MIGRATION
  <2>2. CASE WriteReportWord
    <3>1. count \in Int
      BY CountsAssumption DEF TypeOK
    <3>2. \/ payload' = [payload EXCEPT ![0] = HighAddr]
          \/ payload' = [payload EXCEPT ![1] = LowAddr]
          \/ payload' = [payload EXCEPT ![2] = count]
      BY <2>2 DEF WriteReportWord
    <3>3. payload' \in [0 .. BufWords - 1 -> Int]
      BY <3>1, <3>2, BufWordsAssumption, CountsAssumption DEF TypeOK
    <3> QED BY <2>2, <3>3 DEF WriteReportWord, TypeOK
  <2>3. CASE RingDoorbell
    <3>1. <<payload[0], payload[1], payload[2]>> \in Seq(Int)
      BY BufWordsAssumption DEF TypeOK
    <3> QED BY <2>3, <3>1 DEF RingDoorbell, Report, TypeOK
  <2>4. CASE ScanFreePages
    BY <2>4 DEF ScanFreePages, TypeOK
  <2>5. CASE IrqEntry \/ IrqProgram \/ ScheduleWork \/ IrqInit \/ IrqOther
               \/ IrqMigrationStart \/ ScanFails \/ IrqAck
    BY <2>5 DEF IrqEntry, IrqProgram, ScheduleWork, IrqInit, IrqOther,
                IrqMigrationStart, ScanFails, IrqAck, TypeOK, device
  <2> QED BY <2>1, <2>2, <2>3, <2>4, <2>5 DEF Handler
<1> QED BY <1>1, <1>2, <1>3, <1>4, <1>5 DEF TypeOK, worker

LEMMA HandlerKeepsIInv ==
  ASSUME IInv, Handler
  PROVE  IInv'
<1> USE DEF IInv
<1>1. UNCHANGED <<worker, host>>
  BY HandlerLeavesWorker
<1>2. TypeOK'
  BY HandlerTypes
<1>3. HeaderInBounds'
  <2>1. CASE WriteReportHeader
    BY <2>1, BufWordsAssumption DEF WriteReportHeader, HeaderInBounds
  <2>2. CASE ~WriteReportHeader
    BY <2>2
    DEF Handler, IrqEntry, IrqProgram, ScheduleWork, IrqInit, IrqOther,
        IrqMigrationStart, ScanFreePages, ScanFails, WriteReportWord, RingDoorbell,
        IrqAck, HeaderInBounds, device
  <2> QED BY <2>1, <2>2
<1>4. ScheduleHasType' /\ WorkHasType'
  <2>1. CASE IrqProgram
    BY <2>1, <1>1 DEF IrqProgram, HandlerStep, StoreType, ProgramCases,
                 InjectionTypes, ScheduleHasType, WorkHasType, worker
  <2>2. CASE ScheduleWork
    BY <2>2, <1>1 DEF ScheduleWork, HandlerStep, ScheduleHasType, WorkHasType,
                 worker
  <2>3. CASE ~IrqProgram /\ ~ScheduleWork
    BY <2>3, <1>1
    DEF Handler, IrqEntry, IrqInit, IrqOther, IrqMigrationStart,
        ScanFreePages, ScanFails, WriteReportHeader, WriteReportWord, AfterWord,
        RingDoorbell, IrqAck, HandlerStep, ScheduleHasType, WorkHasType,
        worker
  <2> QED BY <2>1, <2>2, <2>3
<1>5. /\ CopyInBounds' /\ SetupOwnsHeap' /\ NoProgLeak' /\ LoadIsResolved'
      /\ CallsResolved' /\ LiveUnlessFailed'
  BY <1>1 DEF worker, CopyInBounds, SetupOwnsHeap, NoProgLeak,
              LoadIsResolved, CallsResolved, LiveUnlessFailed, Dangling, Live
<1> QED BY <1>2, <1>3, <1>4, <1>5

-----------------------------------------------------------------------------
(* The worker: it leaves the device and the handler alone. *)
LEMMA WorkerLeavesHandler ==
  ASSUME Worker
  PROVE  UNCHANGED <<device, handler>>
BY DEF Worker, WorkStart, ReadType, ReadHeader, CopyWord, FixupCalls,
       AllocProg, AllocProgFails, SelectRuntime, SelectRuntimeFails,
       RunProgram

(* Taking up the work, and reading the type it is for. *)
LEMMA StartKeepsIInv ==
  ASSUME IInv, WorkStart \/ ReadType
  PROVE  IInv'
<1> USE DEF IInv, WorkerStep
<1>1. UNCHANGED <<device, handler, unread, program_size, insns, prog,
                  loaded, executed, failed>>
  BY DEF WorkStart, ReadType
<1>2. /\ wpc' \in {"type", "header"} /\ wpc \in {"idle", "type"}
      /\ work_pending' \in BOOLEAN
      /\ program_id' \in ProgIds
  BY TypesAreProgIds DEF WorkStart, ReadType, TypeOK
<1>3. TypeOK'
  BY <1>1, <1>2 DEF TypeOK, device, handler, WorkerPcs
<1>4. WorkHasType' /\ ScheduleHasType'
  BY <1>1, TypesAreProgIds
  DEF WorkStart, ReadType, WorkHasType, ScheduleHasType, handler
<1>5. HeaderInBounds' /\ CopyInBounds' /\ LoadIsResolved'
  BY <1>1, <1>2 DEF HeaderInBounds, CopyInBounds, LoadIsResolved, device
<1>6. SetupOwnsHeap' /\ NoProgLeak' /\ CallsResolved'
  BY <1>1, <1>2 DEF SetupOwnsHeap, NoProgLeak, CallsResolved, Live
<1>7. LiveUnlessFailed'
  BY <1>1, <1>2 DEF LiveUnlessFailed, Dangling, Live
<1> QED BY <1>3, <1>4, <1>5, <1>6, <1>7

(* bpf_programs_setup() up to the loop over the words: the size is that of *)
(* a message that fits, and the previous program is gone.                  *)
LEMMA ReadHeaderKeepsIInv ==
  ASSUME IInv, ReadHeader
  PROVE  IInv'
<1> USE DEF IInv
<1>1. /\ UNCHANGED <<device, handler, work_pending, program_id, insns, prog,
                     bpf_injected_prog, executed>>
      /\ wpc = "header" /\ wpc' \in {"run", "copy", "oops"}
      /\ program_size' = ProgramSize(header.payload_len)
      /\ {unread', failed'} \subseteq BOOLEAN
      /\ failed' \/ (failed' = failed /\ (wpc' = "copy" \/ Dangling))
      /\ heap' \in {heap, FreePrevious}
      /\ wpc' # "run" => heap' = FreePrevious
  BY DEF ReadHeader, TypeOK
<1>2. /\ program_size' \in Uint16
      /\ WordsToCopy(program_size') <= BufWords
  BY <1>1, CopyFits DEF TypeOK, HeaderInBounds, Header
<1>3. /\ heap' \in [Progs -> Program \cup {FREE}]
      /\ \A p \in Progs : heap'[p] # FREE => heap'[p] = heap[p]
      /\ wpc' # "run" => \A p \in Progs : heap'[p] = FREE
  <2>1. FreePrevious \in [Progs -> Program \cup {FREE}]
    BY DEF FreePrevious, TypeOK
  <2>2. \A p \in Progs : FreePrevious[p] # FREE => FreePrevious[p] = heap[p]
    BY DEF FreePrevious, TypeOK
  <2>3. \A p \in Progs : FreePrevious[p] = FREE
    BY <1>1, NullAssumption
    DEF FreePrevious, NoProgLeak, SetupOwnsHeap, Live, TypeOK
  <2> QED BY <1>1, <2>1, <2>2, <2>3 DEF TypeOK
<1>4. TypeOK'
  BY <1>1, <1>2, <1>3 DEF TypeOK, device, handler, WorkerPcs
<1>5. /\ WorkHasType' /\ ScheduleHasType' /\ HeaderInBounds'
      /\ CopyInBounds' /\ LoadIsResolved'
  BY <1>1, <1>2 DEF WorkHasType, ScheduleHasType, HeaderInBounds,
                    CopyInBounds, LoadIsResolved, device, handler
<1>6. SetupOwnsHeap' /\ NoProgLeak' /\ CallsResolved'
  BY <1>1, <1>3 DEF SetupOwnsHeap, NoProgLeak, CallsResolved, Live
<1>7. LiveUnlessFailed'
  BY <1>1 DEF LiveUnlessFailed
<1> QED BY <1>4, <1>5, <1>6, <1>7

(* The loop over the words, and the fixup. *)
LEMMA CopyKeepsIInv ==
  ASSUME IInv, CopyWord \/ FixupCalls
  PROVE  IInv'
<1> USE DEF IInv
<1>1. UNCHANGED <<device, unread, handler, work_pending, program_id,
                  program_size, prog, loaded, executed>>
  BY DEF CopyWord, FixupCalls
<1>2. /\ wpc = "copy" /\ wpc' \in {"copy", "load", "run"}
      /\ failed' \in BOOLEAN /\ (wpc' = "run" => failed')
      /\ failed => failed'
  BY DEF CopyWord, FixupCalls, TypeOK
<1>3. insns' \in Seq(Int) /\ (wpc' = "load" => Resolved(insns'))
  <2>1. CASE CopyWord
    <3>1. payload[Len(insns)] \in Int
      <4>1. Len(insns) \in Nat /\ WordsToCopy(program_size) \in Nat
        BY DEF TypeOK, WordsToCopy, Uint16
      <4>2. Len(insns) \in 0 .. BufWords - 1
        BY <1>2, <2>1, <4>1, BufWordsAssumption DEF CopyWord, CopyInBounds
      <4> QED BY <4>2 DEF TypeOK
    <3> QED BY <2>1, <3>1 DEF CopyWord, TypeOK
  <2>2. CASE FixupCalls
    BY <2>2, FixupKeepsShape, FixupResolves DEF FixupCalls, TypeOK
  <2> QED BY <2>1, <2>2
<1>4. TypeOK'
  BY <1>1, <1>2, <1>3 DEF TypeOK, device, handler, WorkerPcs
<1>5. /\ WorkHasType' /\ ScheduleHasType' /\ HeaderInBounds'
      /\ CopyInBounds' /\ LoadIsResolved'
  BY <1>1, <1>2, <1>3 DEF WorkHasType, ScheduleHasType, HeaderInBounds,
                          CopyInBounds, LoadIsResolved, device, handler
<1>6. SetupOwnsHeap' /\ NoProgLeak' /\ CallsResolved' /\ LiveUnlessFailed'
  BY <1>1, <1>2
  DEF SetupOwnsHeap, NoProgLeak, CallsResolved, LiveUnlessFailed, Live
<1> QED BY <1>4, <1>5, <1>6

(* bpf_my_prog_alloc(): the address it is given may be the one that        *)
(* bpf_injected_prog still holds.                                          *)
LEMMA AllocKeepsIInv ==
  ASSUME IInv, AllocProg \/ AllocProgFails
  PROVE  IInv'
<1> USE DEF IInv, WorkerStep
<1>1. UNCHANGED <<device, unread, handler, work_pending, program_id,
                  program_size, insns, executed>>
  BY DEF AllocProg, AllocProgFails
<1>2. /\ wpc = "load" /\ wpc' \in {"select", "run", "oops"}
      /\ program_id # BPFHV_PROG_NONE
      /\ \A p \in Progs : ~Live(p)
  BY DEF AllocProg, AllocProgFails, WorkHasType, SetupOwnsHeap
<1>3. CASE AllocProg
  <2> PICK q \in Progs :
        /\ prog' = q
        /\ heap' = [heap EXCEPT ![q] = [name |-> program_id, insns |-> insns]]
    BY <1>3 DEF AllocProg
  <2>1. /\ wpc' = "select" /\ failed' = failed
        /\ bpf_injected_prog' = bpf_injected_prog
    BY <1>2, <1>3 DEF AllocProg
  <2>2. [name |-> program_id, insns |-> insns] \in Program
    BY DEF TypeOK, Program
  <2>3. /\ heap' \in [Progs -> Program \cup {FREE}]
        /\ \A p \in Progs : heap'[p] # FREE => p = q
        /\ heap'[q] # FREE /\ heap'[q].insns = insns
    BY <1>2, <2>2, FreeAssumption DEF Live, TypeOK
  <2>4. TypeOK'
    BY <1>1, <2>1, <2>3 DEF TypeOK, device, handler, WorkerPcs
  <2>5. SetupOwnsHeap' /\ NoProgLeak' /\ LiveUnlessFailed'
    BY <2>1, <2>3, NullAssumption
    DEF SetupOwnsHeap, NoProgLeak, LiveUnlessFailed, Live
  <2>6. CallsResolved'
    BY <1>2, <2>3 DEF CallsResolved, LoadIsResolved, Live
  <2>7. /\ WorkHasType' /\ ScheduleHasType' /\ HeaderInBounds'
        /\ CopyInBounds' /\ LoadIsResolved'
    BY <1>1, <1>2, <2>1 DEF WorkHasType, ScheduleHasType, HeaderInBounds,
                            CopyInBounds, LoadIsResolved, device, handler
  <2> QED BY <2>4, <2>5, <2>6, <2>7
<1>4. CASE AllocProgFails
  <2>1. /\ wpc' = "run" /\ failed' = TRUE
        /\ bpf_injected_prog' = NULL /\ UNCHANGED <<prog, heap>>
    BY <1>4 DEF AllocProgFails
  <2>2. TypeOK'
    BY <1>1, <2>1 DEF TypeOK, device, handler, WorkerPcs
  <2>3. SetupOwnsHeap' /\ NoProgLeak' /\ CallsResolved' /\ LiveUnlessFailed'
    BY <1>2, <2>1
    DEF SetupOwnsHeap, NoProgLeak, CallsResolved, LiveUnlessFailed, Live
  <2>4. /\ WorkHasType' /\ ScheduleHasType' /\ HeaderInBounds'
        /\ CopyInBounds' /\ LoadIsResolved'
    BY <1>1, <1>2, <2>1 DEF WorkHasType, ScheduleHasType, HeaderInBounds,
                            CopyInBounds, LoadIsResolved, device, handler
  <2> QED BY <2>2, <2>3, <2>4
<1> QED BY <1>3, <1>4

(* bpf_prog_select_runtime(): the pointer takes over the new program, or   *)
(* is cleared when that is freed.                                          *)
LEMMA SelectKeepsIInv ==
  ASSUME IInv, SelectRuntime \/ SelectRuntimeFails
  PROVE  IInv'
<1> USE DEF IInv, WorkerStep
<1>1. /\ UNCHANGED <<device, unread, handler, work_pending, program_id,
                     program_size, insns, executed>>
      /\ wpc = "select" /\ wpc' = "run" /\ prog' = NULL
  BY DEF SelectRuntime, SelectRuntimeFails
<1>2. prog \in Progs /\ \A p \in Progs : Live(p) => p = prog
  BY <1>1 DEF SetupOwnsHeap, TypeOK
<1>3. /\ heap' \in [Progs -> Program \cup {FREE}]
      /\ bpf_injected_prog' \in Progs \cup {NULL}
      /\ \A p \in Progs : heap'[p] # FREE =>
           heap'[p] = heap[p] /\ p = bpf_injected_prog'
      /\ failed' \in BOOLEAN
      /\ failed' \/ (failed' = failed /\ bpf_injected_prog' = prog /\ heap' = heap)
  <2>1. CASE SelectRuntime
    BY <1>2, <2>1 DEF SelectRuntime, Install, TypeOK, Live
  <2>2. CASE SelectRuntimeFails
    BY <1>2, <2>2 DEF SelectRuntimeFails, TypeOK, Live
  <2> QED BY <2>1, <2>2
<1>4. TypeOK'
  BY <1>1, <1>3 DEF TypeOK, device, handler, WorkerPcs
<1>5. /\ SetupOwnsHeap' /\ NoProgLeak' /\ CallsResolved'
      /\ LiveUnlessFailed'
  BY <1>1, <1>3 DEF SetupOwnsHeap, NoProgLeak, CallsResolved,
                    LiveUnlessFailed, Dangling, Live
<1>6. /\ WorkHasType' /\ ScheduleHasType' /\ HeaderInBounds'
      /\ CopyInBounds' /\ LoadIsResolved'
  BY <1>1 DEF WorkHasType, ScheduleHasType, HeaderInBounds, CopyInBounds,
              LoadIsResolved, device, handler
<1> QED BY <1>4, <1>5, <1>6

(* BPF_PROG_RUN(), through a live, a dangling or a null pointer. *)
LEMMA RunKeepsIInv ==
  ASSUME IInv, RunProgram
  PROVE  IInv'
<1> USE DEF IInv
<1>1. /\ UNCHANGED <<device, unread, handler, work_pending, prog, loaded,
                     failed>>
      /\ wpc' = "oops" => bpf_injected_prog = NULL \/ Dangling
      /\ wpc = "run" /\ wpc' \in {"idle", "oops"}
      /\ program_id' = BPFHV_PROG_NONE /\ program_size' = 0 /\ insns' = <<>>
  BY DEF RunProgram
<1>2. executed' \in Seq(Program)
  <2> DEFINE ran == IF Dangling THEN Freed ELSE heap[bpf_injected_prog]
  <2>1. executed' = executed \/ (bpf_injected_prog # NULL /\ executed' = Append(executed, ran))
    BY DEF RunProgram
  <2>2. bpf_injected_prog # NULL => ran \in Program
    BY FreedIsProgram DEF TypeOK, Dangling, Live
  <2>3. executed \in Seq(Program)
    BY DEF TypeOK
  <2> HIDE DEF ran
  <2> QED BY <2>1, <2>2, <2>3
<1>3. program_id' \in ProgIds /\ program_size' \in Uint16 /\ insns' \in Seq(Int)
  BY <1>1 DEF ProgIds, BPFHV_PROG_NONE, BPFHV_PROG_MAX, Uint16
<1>4. TypeOK'
  BY <1>1, <1>2, <1>3 DEF TypeOK, device, handler, WorkerPcs
<1>5. /\ SetupOwnsHeap' /\ NoProgLeak' /\ CallsResolved'
      /\ LiveUnlessFailed'
  BY <1>1 DEF SetupOwnsHeap, NoProgLeak, CallsResolved, LiveUnlessFailed,
              Dangling, Live
<1>6. /\ WorkHasType' /\ ScheduleHasType' /\ HeaderInBounds'
      /\ CopyInBounds' /\ LoadIsResolved'
  BY <1>1 DEF WorkHasType, ScheduleHasType, HeaderInBounds, CopyInBounds,
              LoadIsResolved, device, handler
<1> QED BY <1>4, <1>5, <1>6

-----------------------------------------------------------------------------
LEMMA NextIInv == IInv /\ [Next]_vars => IInv'
<1> SUFFICES ASSUME IInv, [Next]_vars PROVE IInv'
  OBVIOUS
<1>1. CASE (\E m \in Injections : HostSend(m)) \/ (\E t \in Events : RaiseEvent(t))
  BY <1>1, DeviceStep
<1>2. CASE Handler
  BY <1>2, HandlerKeepsIInv
<1>3. CASE Worker
  BY <1>3, StartKeepsIInv, ReadHeaderKeepsIInv, CopyKeepsIInv,
     AllocKeepsIInv, SelectKeepsIInv, RunKeepsIInv DEF Worker
<1>4. CASE UNCHANGED vars
  BY <1>4 DEF IInv, TypeOK, HeaderInBounds, CopyInBounds, SetupOwnsHeap,
              NoProgLeak, LoadIsResolved, CallsResolved, ScheduleHasType,
              WorkHasType, LiveUnlessFailed, Dangling, Live, vars, device, handler, worker
<1> QED BY <1>1, <1>2, <1>3, <1>4 DEF Next

(* The driver keeps its state well formed, reads only words of the device  *)
(* buffer, loses no bpf_prog, lets no program run whose helper calls are   *)
(* not its own functions, never sets up a program without a name, and does *)
(* not stop before an injection has failed: whatever the host sends and    *)
(* when, whatever the status register does when several interrupts merge,  *)
(* and whatever allocation fails.                                          *)
THEOREM Safety ==
  Spec => [](/\ TypeOK /\ CopyInBounds /\ NoProgLeak /\ CallsResolved
             /\ WorkHasType /\ StopsOnlyAfterFailure)
<1>1. IInv => /\ TypeOK /\ CopyInBounds /\ NoProgLeak /\ CallsResolved
              /\ WorkHasType /\ StopsOnlyAfterFailure
  BY DEF IInv, LiveUnlessFailed, StopsOnlyAfterFailure, TypeOK
<1> QED BY <1>1, InitIInv, NextIInv, PTL DEF Spec

-----------------------------------------------------------------------------
(***************************************************************************)
(* A host that awaits each acknowledgement: while the interrupt is up the  *)
(* driver has the device buffer to itself, so no injection is lost before  *)
(* a work item meets it and no report is torn.                             *)
(***************************************************************************)

(* A status raised over none is that status; acknowledging it clears it,   *)
(* and acknowledging none clears nothing.                                  *)
AckingRegister ==
  \A s \in IrqStatus : Raise(0, s) = s /\ Lower(s, s) = 0 /\ Lower(s, 0) = s

ReportPcs == {"scan", "header", "high", "low", "count", "doorbell"}
ReportHeader == [type |-> FIRST_ROUND_MIGRATION, payload_len |-> 12]

(* The status the handler has read stays up until it acknowledges it. *)
StatusHeld ==
  /\ seen # 0 => irq_status = seen
  /\ hpc = "idle" => seen = 0
  /\ hpc = "schedule" => seen \in InjectionTypes
  /\ hpc \in ReportPcs => seen = FIRST_ROUND_MIGRATION_START

(* What is about to be acknowledged has been passed on to the worker. *)
PassedOn ==
  hpc = "ack" /\ seen # 0 /\ unread => work_pending \/ wpc \in {"type", "header"}

(* The words of the report written so far. *)
ReportSoFar ==
  /\ hpc \in {"high", "low", "count", "doorbell"} => header = ReportHeader
  /\ hpc \in {"low", "count", "doorbell"} => payload[0] = HighAddr
  /\ hpc \in {"count", "doorbell"} => payload[1] = LowAddr
  /\ hpc = "doorbell" => payload[2] = count

AckInv ==
  awaited => /\ StatusHeld /\ PassedOn /\ ReportSoFar
             /\ NoInjectionForgotten /\ DoorbellSeesReport

LEMMA StartIsNoInjection ==
  /\ FIRST_ROUND_MIGRATION_START \notin InjectionTypes \cup {0}
  /\ 0 \notin InjectionTypes
  /\ InjectionTypes = ProgramCases
BY DEF FIRST_ROUND_MIGRATION_START, InjectionTypes, PROGRAM_INJECTION,
       PROGRAM_MEMORY_INFO, PROGRAM_SET_MAXIMUM_ORDER, ProgramCases

LEMMA InitAckInv == Init => AckInv
BY DEF Init, AckInv, StatusHeld, PassedOn, ReportSoFar, ReportPcs,
       NoInjectionForgotten, DoorbellSeesReport

-----------------------------------------------------------------------------
(* A host that still awaits steps only while the status is clear. *)
LEMMA DeviceKeepsAckInv ==
  ASSUME AckingRegister, TypeOK, AckInv,
         (\E m \in Injections : HostSend(m)) \/ (\E t \in Events : RaiseEvent(t))
  PROVE  AckInv'
<1> SUFFICES ASSUME awaited' PROVE AckInv'
  BY DEF AckInv
<1> USE DEF AckInv
<1>1. /\ awaited /\ irq_status = 0 /\ seen = 0
      /\ UNCHANGED <<report, handler, work_pending, worker>>
  BY DEF HostSend, RaiseEvent, RaiseIrq, StatusHeld, TypeOK
<1>2. hpc \notin ReportPcs \cup {"schedule"}
  BY <1>1, StartIsNoInjection DEF StatusHeld
<1>3. StatusHeld' /\ PassedOn' /\ ReportSoFar' /\ DoorbellSeesReport'
  BY <1>1, <1>2 DEF StatusHeld, PassedOn, ReportSoFar, ReportPcs,
                    DoorbellSeesReport, handler
<1>4. NoInjectionForgotten'
  <2>1. CASE \E m \in Injections : HostSend(m)
    <3> PICK m \in Injections : HostSend(m)
      BY <2>1
    <3>1. m.type \in InjectionTypes
      BY InjectionsAssumption DEF InjectionMessage
    <3>2. irq_status' = m.type
      BY <1>1, <3>1, IrqStatusAssumption
      DEF HostSend, RaiseIrq, AckingRegister
    <3> QED BY <3>1, <3>2 DEF NoInjectionForgotten
  <2>2. CASE \E t \in Events : RaiseEvent(t)
    BY <1>1, <2>2, StartIsNoInjection
    DEF RaiseEvent, NoInjectionForgotten, handler, worker
  <2> QED BY <2>1, <2>2
<1> QED BY <1>3, <1>4

LEMMA HandlerKeepsAckInv ==
  ASSUME AckingRegister, TypeOK, AckInv, Handler
  PROVE  AckInv'
<1>0. UNCHANGED <<wpc, awaited>>
  BY HandlerLeavesWorker DEF worker, host
<1> SUFFICES ASSUME awaited PROVE AckInv'
  BY <1>0 DEF AckInv
<1> USE DEF AckInv, HandlerStep
<1>1. CASE IrqEntry
  BY <1>0, <1>1 DEF IrqEntry, StatusHeld, PassedOn, ReportSoFar, ReportPcs,
                    NoInjectionForgotten, DoorbellSeesReport, device
<1>2. CASE IrqProgram
  BY <1>0, <1>2, StartIsNoInjection
  DEF IrqProgram, StatusHeld, PassedOn, ReportSoFar, ReportPcs,
      NoInjectionForgotten, DoorbellSeesReport, device
<1>3. CASE ScheduleWork
  BY <1>0, <1>3 DEF ScheduleWork, StatusHeld, PassedOn, ReportSoFar,
                    ReportPcs, NoInjectionForgotten, DoorbellSeesReport, device
<1>4. CASE IrqInit \/ IrqOther
  <2>1. /\ UNCHANGED <<device, unread, seen, count, work_pending>>
        /\ hpc = "dispatch" /\ hpc' = "ack"
    BY <1>4 DEF IrqInit, IrqOther
  <2>2. seen \notin InjectionTypes
    BY <1>4, StartIsNoInjection
    DEF IrqInit, IrqOther, INIT_IRQ, InjectionTypes, PROGRAM_INJECTION,
        PROGRAM_MEMORY_INFO, PROGRAM_SET_MAXIMUM_ORDER
  <2> QED BY <1>0, <2>1, <2>2
          DEF StatusHeld, PassedOn, ReportSoFar, ReportPcs,
              NoInjectionForgotten, DoorbellSeesReport, device
<1>5. CASE IrqMigrationStart \/ ScanFreePages \/ ScanFails
  BY <1>0, <1>5, StartIsNoInjection
  DEF IrqMigrationStart, ScanFreePages, ScanFails, StatusHeld, PassedOn, ReportSoFar,
      ReportPcs, NoInjectionForgotten, DoorbellSeesReport, device
<1>6. CASE WriteReportHeader
  BY <1>0, <1>6 DEF WriteReportHeader, StatusHeld, PassedOn, ReportSoFar,
                    ReportHeader, ReportPcs, NoInjectionForgotten,
                    DoorbellSeesReport
<1>7. CASE WriteReportWord
  <2>1. /\ UNCHANGED <<irq_status, header, unread, report, seen, count,
                       work_pending>>
        /\ hpc \in {"high", "low", "count"}
        /\ hpc' \in {"low", "count", "doorbell"}
    BY <1>7 DEF WriteReportWord, AfterWord
  <2>2. StatusHeld' /\ PassedOn' /\ NoInjectionForgotten' /\ DoorbellSeesReport'
    BY <1>0, <2>1 DEF StatusHeld, PassedOn, ReportPcs, NoInjectionForgotten,
                      DoorbellSeesReport
  <2>3. ReportSoFar'
    <3>1. DOMAIN payload = 0 .. BufWords - 1 /\ {0, 1, 2} \subseteq DOMAIN payload
      BY BufWordsAssumption DEF TypeOK
    <3>2. CASE hpc = "high"
      BY <1>7, <2>1, <3>1, <3>2 DEF WriteReportWord, AfterWord, ReportSoFar, TypeOK
    <3>3. CASE hpc = "low"
      BY <1>7, <2>1, <3>1, <3>3 DEF WriteReportWord, AfterWord, ReportSoFar, TypeOK
    <3>4. CASE hpc = "count"
      BY <1>7, <2>1, <3>1, <3>4 DEF WriteReportWord, AfterWord, ReportSoFar, TypeOK
    <3> QED BY <2>1, <3>2, <3>3, <3>4
  <2> QED BY <2>2, <2>3
<1>8. CASE RingDoorbell
  <2>1. report' = [header |-> ReportHeader, words |-> <<HighAddr, LowAddr, count>>]
    BY <1>8 DEF RingDoorbell, ReportSoFar
  <2> QED BY <1>0, <1>8, <2>1, StartIsNoInjection
          DEF RingDoorbell, StatusHeld, PassedOn, ReportSoFar, ReportHeader,
              ReportPcs, NoInjectionForgotten, DoorbellSeesReport
<1>9. CASE IrqAck
  <2>1. irq_status' = IF seen = 0 THEN irq_status ELSE 0
    BY <1>9 DEF IrqAck, Acknowledge, AckingRegister, StatusHeld, TypeOK
  <2> QED BY <1>0, <1>9, <2>1
          DEF IrqAck, StatusHeld, PassedOn, ReportSoFar, ReportPcs,
              NoInjectionForgotten, DoorbellSeesReport
<1> QED BY <1>1, <1>2, <1>3, <1>4, <1>5, <1>6, <1>7, <1>8, <1>9 DEF Handler

LEMMA WorkerKeepsAckInv ==
  ASSUME AckInv, Worker
  PROVE  AckInv'
<1>1. UNCHANGED <<device, handler>>
  BY WorkerLeavesHandler
<1> SUFFICES ASSUME awaited PROVE AckInv'
  BY <1>1 DEF AckInv, device, host
<1> USE DEF AckInv
<1>2. /\ unread' => unread
      /\ unread' /\ (work_pending \/ wpc \in {"type", "header"})
           => (work_pending \/ wpc \in {"type", "header"})'
  BY DEF Worker, WorkStart, ReadType, ReadHeader, CopyWord, FixupCalls,
         AllocProg, AllocProgFails, SelectRuntime, SelectRuntimeFails,
         RunProgram, WorkerStep
<1>3. NoInjectionForgotten' /\ PassedOn'
  BY <1>1, <1>2 DEF NoInjectionForgotten, PassedOn, device, handler
<1>4. StatusHeld' /\ ReportSoFar' /\ DoorbellSeesReport'
  BY <1>1 DEF StatusHeld, ReportSoFar, DoorbellSeesReport, device, handler
<1> QED BY <1>3, <1>4

LEMMA NextAckInv ==
  ASSUME AckingRegister, IInv, AckInv, [Next]_vars
  PROVE  AckInv'
<1>1. CASE (\E m \in Injections : HostSend(m)) \/ (\E t \in Events : RaiseEvent(t))
  BY <1>1, DeviceKeepsAckInv DEF IInv
<1>2. CASE Handler
  BY <1>2, HandlerKeepsAckInv DEF IInv
<1>3. CASE Worker
  BY <1>3, WorkerKeepsAckInv
<1>4. CASE UNCHANGED vars
  BY <1>4 DEF AckInv, StatusHeld, PassedOn, ReportSoFar,
              NoInjectionForgotten, DoorbellSeesReport, vars, device,
              host, handler, worker
<1> QED BY <1>1, <1>2, <1>3, <1>4 DEF Next

-----------------------------------------------------------------------------
(* As long as the host has raised each interrupt only once the last one    *)
(* was acknowledged, every injection in the buffer stays on its way to the *)
(* worker until a work item reads its header, and when the doorbell rings  *)
(* the buffer holds the whole report of this handler and nothing else.     *)
THEOREM AcknowledgedSafety ==
  ASSUME AckingRegister
  PROVE  Spec => [](NoInjectionForgotten /\ DoorbellSeesReport)
<1>1. IInv /\ AckInv /\ [Next]_vars => AckInv'
  BY NextAckInv
<1>2. AckInv => NoInjectionForgotten /\ DoorbellSeesReport
  BY DEF AckInv, NoInjectionForgotten, DoorbellSeesReport
<1> QED BY <1>1, <1>2, InitAckInv, InitIInv, NextIInv, PTL DEF Spec
=============================================================================
