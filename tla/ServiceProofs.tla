--------------------------- MODULE ServiceProofs ---------------------------
(***************************************************************************)
(* What a host may expect that takes turns with the driver: it awaits each *)
(* acknowledgement, and starts a migration only when the driver is quiet.  *)
(* InjectionDriver then takes the steps of InjectionService; and whatever  *)
(* it injects, and when, a program is not torn if all programs are alike.  *)
(***************************************************************************)
EXTENDS InjectionDriverProofs

(* Names for tuples of variables. *)
USE DEF host, setup, loaded

-----------------------------------------------------------------------------
(***************************************************************************)
(* The conditions of the theorems, on the constants.                       *)
(***************************************************************************)

(* The host takes turns, and the guest has memory and a working JIT.       *)
TakesTurns == AckingRegister /\ Pacing = "turns" /\ ~MayFail

(* The driver knows all helpers that are called.                           *)
HelpersKnown == \A m \in Injections : FixupAccepts(Insns(m))

(* Programs of one length that differ in one word at most, like those of   *)
(* shared/guest_programs: each calls one helper and returns.               *)
Alike(m, n, k) ==
  /\ Len(Insns(m)) = Len(Insns(n))
  /\ \A j \in 1 .. Len(Insns(m)) : j # k => Insns(m)[j] = Insns(n)[j]
ProgramsAlike == \E k \in Nat : \A m, n \in Injections : Alike(m, n, k)

-----------------------------------------------------------------------------
(***************************************************************************)
(* Taking turns.                                                           *)
(***************************************************************************)
Last == sent[Len(sent)]

(* During a migration start the worker has nothing to do ...               *)
ReportAlone ==
  irq_status = FIRST_ROUND_MIGRATION_START =>
    wpc \in {"idle", "oops"} /\ ~work_pending

(* ... so that while it has, the buffer holds the last program, whole.     *)
HoldsMessage(m) ==
  /\ header = [type |-> m.type, payload_len |-> m.payload_len]
  /\ \A j \in 1 .. Len(Insns(m)) : payload[j - 1] = Insns(m)[j]
BufferIsLast ==
  irq_status \in InjectionTypes \/ work_pending \/ wpc \notin {"idle", "oops"} =>
    sent # <<>> /\ HoldsMessage(Last)

StatusIsLast == irq_status \in InjectionTypes => irq_status = Last.type

(* The worker starts to copy into an empty program.                        *)
StartsEmpty == wpc \in {"idle", "type", "header"} => insns = <<>>

TurnsInv ==
  awaited /\ ReportAlone /\ BufferIsLast /\ StatusIsLast /\ StartsEmpty

-----------------------------------------------------------------------------
(***************************************************************************)
(* Programs alike: what is copied, loaded and run is a message.            *)
(***************************************************************************)
CopyOf(m) ==
  /\ WordsToCopy(program_size) = Len(Insns(m))
  /\ Len(insns) <= Len(Insns(m))
  /\ \A j \in 1 .. Len(insns) : insns[j] = Insns(m)[j]

LoadsSent ==
  /\ wpc = "copy" => \E s \in 1 .. Len(sent) : CopyOf(sent[s])
  /\ wpc = "load" => \E s \in 1 .. Len(sent) : insns = Fixup(Insns(sent[s]))
  /\ wpc = "select" =>
       \E s \in 1 .. Len(sent) : heap[prog].insns = Fixup(Insns(sent[s]))
  /\ wpc = "run" =>
       \E s \in 1 .. Len(sent) :
         heap[bpf_injected_prog].insns = Fixup(Insns(sent[s]))

AlikeInv == ~failed /\ LoadsSent /\ ExecutedWasSent

-----------------------------------------------------------------------------
(***************************************************************************)
(* A host that moreover injects into a quiet driver only: where its last   *)
(* injection is until it is executed, and that it is there unchanged.      *)
(***************************************************************************)
Raised    == irq_status \in InjectionTypes /\ hpc # "ack"
Executing == wpc # "idle"

(* It is in one place, or has been executed.                               *)
OnePlace ==
  /\ Raised => ~work_pending /\ ~Executing /\ (hpc = "idle" \/ seen = irq_status)
  /\ work_pending => ~Executing
  /\ irq_status \in InjectionTypes /\ hpc = "ack" => seen = irq_status
  /\ Len(sent) = Len(executed) + IF Raised \/ work_pending \/ Executing
                                 THEN 1 ELSE 0

CarriesLast ==
  /\ hpc = "schedule" \/ work_pending \/ wpc = "type" => program_type = Last.type
  /\ wpc \in {"header", "copy", "load", "select"} =>
       program_id = ProgTypeFromIrq(Last.type)
  /\ wpc = "copy"   => CopyOf(Last)
  /\ wpc = "load"   => insns = Fixup(Insns(Last))
  /\ wpc = "select" => heap[prog] = ProgramOf(Last)
  /\ wpc = "run"    => heap[bpf_injected_prog] = ProgramOf(Last)

QuietInv == quietly => ~failed /\ OnePlace /\ CarriesLast

-----------------------------------------------------------------------------
LEMMA InitTurnsInv == Init => TurnsInv
BY StartIsNoInjection
DEF Init, TurnsInv, ReportAlone, BufferIsLast, StatusIsLast, StartsEmpty

(* The program in a message: its words, as many as the driver copies, are  *)
(* the first of the payload.                                               *)
LEMMA InjectionFacts ==
  ASSUME NEW m \in Injections
  PROVE  /\ m.type \in InjectionTypes /\ Insns(m) \in Seq(Int)
         /\ Len(Insns(m)) \in Nat /\ Len(Insns(m)) <= Len(m.payload)
         /\ Len(Insns(m)) = WordsToCopy(ProgramSize(m.payload_len))
         /\ \A j \in 1 .. Len(Insns(m)) : Insns(m)[j] = m.payload[j]
<1> DEFINE n == WordsToCopy(ProgramSize(m.payload_len))
<1>1. /\ m.type \in InjectionTypes /\ m.payload \in Seq(Int)
      /\ Len(m.payload) \in Nat
      /\ m.payload_len \in Nat /\ m.payload_len <= 4 * Len(m.payload)
  BY MessageFits
<1>2. ASSUME NEW b \in Nat, NEW l \in Nat, b <= 4 * l
      PROVE  2 * (b \div 8) \in Nat /\ 2 * (b \div 8) <= l
  BY <1>2
<1>3. n \in Nat /\ n <= Len(m.payload)
  BY <1>1, <1>2 DEF WordsToCopy, ProgramSize
<1>4. Insns(m) = SubSeq(m.payload, 1, n)
  BY DEF Insns, WordsToCopy, ProgramSize
<1> HIDE DEF n
<1>5. /\ Insns(m) \in Seq(Int) /\ Len(Insns(m)) = n
      /\ \A j \in 1 .. n : Insns(m)[j] = m.payload[j]
  BY <1>1, <1>3, <1>4
<1> QED BY <1>1, <1>3, <1>5 DEF n

(* A message, once stored, fills the buffer from its first word on.        *)
LEMMA SendFacts ==
  ASSUME TakesTurns, IInv, NEW m \in Injections, HostSend(m)
  PROVE  /\ irq_status = 0 /\ irq_status' = m.type /\ m.type \in InjectionTypes
         /\ awaited => awaited'
         /\ sent' = Append(sent, m) /\ sent \in Seq(Injections)
         /\ Len(sent') = Len(sent) + 1 /\ Last' = m /\ sent' # <<>>
         /\ \A s \in 1 .. Len(sent) : sent'[s] = sent[s]
         /\ HoldsMessage(m)'
         /\ UNCHANGED <<handler, work_pending, worker>>
<1>1. /\ m.type \in InjectionTypes
      /\ Len(Insns(m)) \in Nat /\ Len(m.payload) \in Nat
      /\ Len(Insns(m)) <= Len(m.payload) /\ Len(m.payload) <= BufWords
      /\ \A j \in 1 .. Len(Insns(m)) : Insns(m)[j] = m.payload[j]
  BY MessageFits, InjectionFacts
<1>2. irq_status = 0 /\ irq_status' = m.type /\ (awaited => awaited')
  BY <1>1, IrqStatusAssumption
  DEF HostSend, RaiseIrq, HostMaySend, TakesTurns, AckingRegister
<1>3. /\ sent' = Append(sent, m) /\ sent \in Seq(Injections)
      /\ UNCHANGED <<handler, work_pending, worker>>
  BY DEF HostSend, IInv, TypeOK
<1>4. /\ Len(sent') = Len(sent) + 1 /\ Last' = m /\ sent' # <<>>
      /\ \A s \in 1 .. Len(sent) : sent'[s] = sent[s]
  BY <1>3 DEF Last
<1>5. \A j \in 1 .. Len(Insns(m)) :
        /\ j - 1 \in 0 .. BufWords - 1 /\ j - 1 < Len(m.payload)
        /\ (j - 1) + 1 = j
  BY <1>1, BufWordsAssumption
<1>6. HoldsMessage(m)'
  <2>1. \A j \in 1 .. Len(Insns(m)) : payload'[j - 1] = m.payload[j]
    BY <1>5 DEF HostSend
  <2> QED BY <1>1, <2>1 DEF HostSend, HoldsMessage
<1> QED BY <1>1, <1>2, <1>3, <1>4, <1>6

LEMMA EventFacts ==
  ASSUME TakesTurns, NEW t \in Events, RaiseEvent(t)
  PROVE  /\ irq_status = 0 /\ irq_status' = t /\ t \notin InjectionTypes
         /\ awaited => awaited'
         /\ t = FIRST_ROUND_MIGRATION_START => Quiet
         /\ UNCHANGED <<header, payload, sent, quietly, handler, work_pending,
                        worker>>
BY EventsAssumption
DEF RaiseEvent, RaiseIrq, HostMaySend, TakesTurns, AckingRegister

(* The handler clears the status or leaves it; queues work only for an     *)
(* injection; writes the buffer only during a migration start.             *)
LEMMA HandlerFacts ==
  ASSUME AckingRegister, IInv, AckInv, awaited, Handler
  PROVE  /\ irq_status' = irq_status \/ irq_status' = 0
         /\ UNCHANGED work_pending \/ irq_status \in InjectionTypes
         /\ \/ UNCHANGED <<header, payload>>
            \/ irq_status = FIRST_ROUND_MIGRATION_START /\ UNCHANGED work_pending
         /\ UNCHANGED <<host, worker>>
<1> USE DEF IInv, HandlerStep
<1>1. StatusHeld
  BY DEF AckInv
<1>2. UNCHANGED <<host, worker>>
  BY HandlerLeavesWorker
<1>3. irq_status' = irq_status \/ irq_status' = 0
  <2>1. CASE IrqAck
    BY <1>1, <2>1 DEF IrqAck, Acknowledge, AckingRegister, StatusHeld, TypeOK
  <2>2. CASE ~IrqAck
    BY <2>2 DEF Handler, IrqEntry, IrqProgram, ScheduleWork, IrqInit,
                IrqOther, IrqMigrationStart, ScanFreePages, ScanFails,
                WriteReportHeader, WriteReportWord, RingDoorbell, device
  <2> QED BY <2>1, <2>2
<1>4. UNCHANGED work_pending \/ irq_status \in InjectionTypes
  BY <1>1, HandlerLeavesWorker, StartIsNoInjection DEF StatusHeld
<1>5. \/ UNCHANGED <<header, payload>>
      \/ irq_status = FIRST_ROUND_MIGRATION_START /\ UNCHANGED work_pending
  <2>1. CASE hpc \in ReportPcs
    BY <1>1, <2>1, HandlerLeavesWorker, StartIsNoInjection
    DEF StatusHeld, ReportPcs
  <2>2. CASE hpc \notin ReportPcs
    BY <2>2 DEF Handler, IrqEntry, IrqProgram, ScheduleWork, IrqInit,
                IrqOther, IrqMigrationStart, ScanFreePages, ScanFails,
                WriteReportHeader, WriteReportWord, RingDoorbell, IrqAck,
                device, ReportPcs
  <2> QED BY <2>1, <2>2
<1> QED BY <1>2, <1>3, <1>4, <1>5

LEMMA NextTurnsInv ==
  ASSUME TakesTurns, IInv, AckInv, TurnsInv, [Next]_vars
  PROVE  TurnsInv'
<1> USE DEF TurnsInv
<1>1. ASSUME NEW m \in Injections, HostSend(m) PROVE TurnsInv'
  <2>1. /\ awaited' /\ irq_status' = Last'.type /\ irq_status' \in InjectionTypes
        /\ sent' # <<>> /\ HoldsMessage(Last)'
        /\ UNCHANGED <<wpc, insns>>
    BY <1>1, SendFacts DEF HoldsMessage, worker
  <2>2. ReportAlone' /\ BufferIsLast' /\ StatusIsLast' /\ StartsEmpty'
    BY <2>1, StartIsNoInjection
    DEF ReportAlone, BufferIsLast, StatusIsLast, StartsEmpty
  <2> QED BY <2>1, <2>2
<1>2. ASSUME NEW t \in Events, RaiseEvent(t) PROVE TurnsInv'
  <2>1. /\ awaited' /\ irq_status' = t /\ t \notin InjectionTypes
        /\ t = FIRST_ROUND_MIGRATION_START => Quiet
        /\ UNCHANGED <<header, payload, sent, work_pending, wpc, insns>>
    BY <1>2, EventFacts DEF worker
  <2>2. ReportAlone' /\ StatusIsLast' /\ StartsEmpty'
    BY <2>1 DEF ReportAlone, StatusIsLast, StartsEmpty, Quiet
  <2>3. BufferIsLast'
    BY <2>1 DEF BufferIsLast, HoldsMessage, Last
  <2> QED BY <2>1, <2>2, <2>3
<1>3. CASE Handler
  <2>1. /\ irq_status' = irq_status \/ irq_status' = 0
        /\ UNCHANGED work_pending \/ irq_status \in InjectionTypes
        /\ \/ UNCHANGED <<header, payload>>
           \/ irq_status = FIRST_ROUND_MIGRATION_START /\ UNCHANGED work_pending
        /\ UNCHANGED <<wpc, insns, sent, awaited>>
    BY <1>3, HandlerFacts DEF TakesTurns, host, worker
  <2>2. ReportAlone' /\ StatusIsLast' /\ StartsEmpty'
    BY <2>1, StartIsNoInjection
    DEF ReportAlone, StatusIsLast, StartsEmpty, Last
  <2>3. BufferIsLast'
    BY <2>1, StartIsNoInjection
    DEF ReportAlone, BufferIsLast, HoldsMessage, Last
  <2> QED BY <2>1, <2>2, <2>3
<1>4. CASE Worker
  <2>1. UNCHANGED <<irq_status, header, payload, sent, awaited>>
    BY <1>4, WorkerLeavesHandler DEF device, host
  <2>2. /\ work_pending' \/ wpc' \notin {"idle", "oops"}
             => work_pending \/ wpc \notin {"idle", "oops"}
        /\ wpc' \in {"idle", "type", "header"} => insns' = <<>>
    BY <1>4 DEF Worker, WorkStart, ReadType, ReadHeader, CopyWord, FixupCalls,
                AllocProg, AllocProgFails, SelectRuntime,
                SelectRuntimeFails, RunProgram, WorkerStep, StartsEmpty, setup
  <2>3. ReportAlone' /\ BufferIsLast' /\ StatusIsLast' /\ StartsEmpty'
    BY <2>1, <2>2
    DEF ReportAlone, BufferIsLast, StatusIsLast, StartsEmpty, HoldsMessage, Last
  <2> QED BY <2>1, <2>3
<1>5. CASE UNCHANGED vars
  BY <1>5 DEF ReportAlone, BufferIsLast, StatusIsLast, StartsEmpty,
              HoldsMessage, Last, vars, device, host, worker
<1> QED BY <1>1, <1>2, <1>3, <1>4, <1>5 DEF Next

-----------------------------------------------------------------------------
(***************************************************************************)
(* bpf_programs_setup() and execute_work() while nothing fails.            *)
(***************************************************************************)
LEMMA SentIsInjection ==
  ASSUME IInv
  PROVE  /\ Len(sent) \in Nat
         /\ \A s \in 1 .. Len(sent) : sent[s] \in Injections
         /\ sent # <<>> => Last \in Injections /\ Len(sent) \in 1 .. Len(sent)
<1>1. sent \in Seq(Injections)
  BY DEF IInv, TypeOK
<1> QED BY <1>1 DEF Last

(* The program is sized by the last message.                               *)
LEMMA HeaderRead ==
  ASSUME TakesTurns, IInv, TurnsInv, ~failed, ReadHeader
  PROVE  wpc' = "copy" /\ UNCHANGED failed /\ CopyOf(Last)'
<1>1. sent # <<>> /\ HoldsMessage(Last) /\ insns = <<>>
  BY DEF TurnsInv, BufferIsLast, StartsEmpty, ReadHeader
<1>2. PICK m \in Injections : m = Last
  BY <1>1, SentIsInjection
<1>3. wpc' = "copy" /\ UNCHANGED <<failed, insns, sent>>
  BY DEF ReadHeader, TakesTurns, IInv, LiveUnlessFailed, device
<1>4. program_size' = ProgramSize(m.payload_len)
  BY <1>1, <1>2 DEF ReadHeader, HoldsMessage
<1>5. /\ WordsToCopy(program_size') = Len(Insns(m)) /\ Len(insns') = 0
      /\ Len(Insns(m)) \in Nat /\ Last' = m
  BY <1>1, <1>2, <1>3, <1>4, InjectionFacts DEF Last
<1>6. CopyOf(Last)'
  BY <1>5 DEF CopyOf
<1> QED BY <1>3, <1>6

(* The word read next is that of the last message.                         *)
LEMMA WordRead ==
  ASSUME IInv, TurnsInv, CopyWord, NEW m \in Injections, CopyOf(m),
         Len(Insns(m)) = Len(Insns(Last))
  PROVE  /\ Len(insns) + 1 \in 1 .. Len(Insns(m))
         /\ insns' = Append(insns, Insns(Last)[Len(insns) + 1])
         /\ sent # <<>>
<1>1. insns \in Seq(Int) /\ Len(insns) \in Nat
  BY DEF IInv, TypeOK
<1>2. Len(Insns(m)) \in Nat
  BY InjectionFacts
<1>3. sent # <<>> /\ HoldsMessage(Last)
  BY DEF TurnsInv, BufferIsLast, CopyWord
<1>4. Len(insns) < Len(Insns(m)) /\ insns' = Append(insns, payload[Len(insns)])
  BY DEF CopyWord, CopyOf
<1>5. Len(insns) + 1 \in 1 .. Len(Insns(m)) /\ (Len(insns) + 1) - 1 = Len(insns)
  BY <1>1, <1>2, <1>4
<1>6. payload[Len(insns)] = Insns(Last)[Len(insns) + 1]
  BY <1>3, <1>5 DEF HoldsMessage
<1> QED BY <1>3, <1>4, <1>5, <1>6

(* A copy of part of a message stays one with the next word.               *)
LEMMA WordAdded ==
  ASSUME IInv, CopyWord, NEW m \in Injections,
         WordsToCopy(program_size) = Len(Insns(m)),
         Len(insns) + 1 \in 1 .. Len(Insns(m)),
         \A j \in 1 .. Len(insns) : insns[j] = Insns(m)[j],
         insns' = Append(insns, Insns(m)[Len(insns) + 1])
  PROVE  CopyOf(m)'
<1>1. insns \in Seq(Int) /\ Len(insns) \in Nat /\ Insns(m) \in Seq(Int)
  BY InjectionFacts DEF IInv, TypeOK
<1>2. Len(insns') = Len(insns) + 1 /\ UNCHANGED program_size
  BY <1>1 DEF CopyWord
<1>3. \A j \in 1 .. Len(insns') : insns'[j] = Insns(m)[j]
  <2> DEFINE words == Insns(m)
  <2>1. words \in Seq(Int) /\ Len(insns) + 1 \in 1 .. Len(words)
    BY <1>1
  <2>2. insns' = Append(insns, words[Len(insns) + 1])
    OBVIOUS
  <2>3. \A j \in 1 .. Len(insns) : insns[j] = words[j]
    OBVIOUS
  <2> HIDE DEF words
  <2>4. \A j \in 1 .. Len(insns') : insns'[j] = words[j]
    BY <1>1, <1>2, <2>1, <2>2, <2>3
  <2> QED BY <2>4 DEF words
<1>4. Len(insns') <= Len(Insns(m))
  BY <1>2
<1> QED BY <1>2, <1>3, <1>4 DEF CopyOf

LEMMA SameWords ==
  ASSUME NEW words \in Seq(Int), NEW others \in Seq(Int),
         Len(words) = Len(others),
         \A j \in 1 .. Len(words) : words[j] = others[j]
  PROVE  words = others
OBVIOUS

(* A complete copy is accepted, and resolved.                              *)
LEMMA CallsFixed ==
  ASSUME HelpersKnown, IInv, FixupCalls, NEW m \in Injections, CopyOf(m)
  PROVE  wpc' = "load" /\ UNCHANGED failed /\ insns' = Fixup(Insns(m))
<1>1. insns \in Seq(Int) /\ Insns(m) \in Seq(Int)
  BY InjectionFacts DEF IInv, TypeOK
<1>2. /\ Len(insns) = Len(Insns(m))
      /\ \A j \in 1 .. Len(insns) : insns[j] = Insns(m)[j]
  BY DEF FixupCalls, CopyOf
<1>3. insns = Insns(m)
  BY <1>1, <1>2, SameWords
<1> QED BY <1>3 DEF FixupCalls, HelpersKnown

LEMMA ProgAllocated ==
  ASSUME IInv, AllocProg
  PROVE  /\ wpc' = "select" /\ UNCHANGED <<failed, executed>>
         /\ heap'[prog'] = [name |-> program_id, insns |-> insns]
<1>1. program_id # BPFHV_PROG_NONE
  BY DEF IInv, WorkHasType, AllocProg
<1> QED BY <1>1 DEF AllocProg, IInv, TypeOK

(* Nothing but the installed program is run.                               *)
LEMMA InstalledRuns ==
  ASSUME IInv, ~failed, RunProgram
  PROVE  /\ wpc' = "idle" /\ UNCHANGED failed
         /\ executed' = Append(executed, heap[bpf_injected_prog])
BY DEF RunProgram, IInv, LiveUnlessFailed

-----------------------------------------------------------------------------
(***************************************************************************)
(* Programs alike are not torn, and what is run was sent.                  *)
(***************************************************************************)
LEMMA InitAlikeInv == Init => AlikeInv
BY DEF Init, AlikeInv, LoadsSent, ExecutedWasSent

(* Device and handler only add to what was sent.                           *)
LEMMA OthersKeepAlikeInv ==
  ASSUME AlikeInv, UNCHANGED worker,
         Len(sent) \in Nat, Len(sent') \in Nat, Len(sent) <= Len(sent'),
         \A s \in 1 .. Len(sent) : sent'[s] = sent[s]
  PROVE  AlikeInv'
<1> USE DEF AlikeInv
<1>1. UNCHANGED <<wpc, program_size, insns, prog, bpf_injected_prog, heap,
                  executed, failed>>
  BY DEF worker
<1>2. \A s \in 1 .. Len(sent) : s \in 1 .. Len(sent') /\ sent'[s] = sent[s]
  OBVIOUS
<1>3. LoadsSent'
  <2>1. ASSUME wpc = "copy" PROVE \E s \in 1 .. Len(sent') : CopyOf(sent[s])'
    <3>1. PICK s \in 1 .. Len(sent) : CopyOf(sent[s])
      BY <2>1 DEF LoadsSent
    <3>2. CopyOf(sent[s])'
      BY <1>1, <1>2, <3>1 DEF CopyOf
    <3> QED BY <1>2, <3>2
  <2> QED BY <1>1, <1>2, <2>1 DEF LoadsSent
<1>4. ExecutedWasSent'
  BY <1>1, <1>2 DEF ExecutedWasSent
<1> QED BY <1>1, <1>3, <1>4

LEMMA CopyKeepsAlikeInv ==
  ASSUME ProgramsAlike, IInv, TurnsInv, AlikeInv, CopyWord
  PROVE  AlikeInv'
<1> USE DEF AlikeInv
<1>1. UNCHANGED <<wpc, sent, executed, failed>> /\ wpc = "copy"
  BY DEF CopyWord, device
<1>2. PICK s \in 1 .. Len(sent) : CopyOf(sent[s])
  BY <1>1 DEF LoadsSent
<1>3. PICK m \in Injections : m = sent[s]
  BY SentIsInjection
<1>4. sent # <<>>
  BY <1>1 DEF TurnsInv, BufferIsLast
<1>5. PICK n \in Injections : n = Last
  BY <1>4, SentIsInjection
<1>6. PICK k \in Nat : Alike(m, n, k)
  BY DEF ProgramsAlike
<1>7. /\ WordsToCopy(program_size) = Len(Insns(m))
      /\ \A j \in 1 .. Len(insns) : insns[j] = Insns(m)[j]
      /\ Len(Insns(n)) = Len(Insns(m))
  BY <1>2, <1>3, <1>6 DEF CopyOf, Alike
<1>8. /\ Len(insns) + 1 \in 1 .. Len(Insns(m)) /\ Len(insns) \in Nat
      /\ insns' = Append(insns, Insns(n)[Len(insns) + 1])
  BY <1>2, <1>3, <1>5, <1>7, WordRead DEF IInv, TypeOK
<1>9. \E r \in 1 .. Len(sent') : CopyOf(sent[r])'
  <2>1. CASE Len(insns) + 1 # k
    <3>1. Insns(n)[Len(insns) + 1] = Insns(m)[Len(insns) + 1]
      BY <1>6, <1>8, <2>1 DEF Alike
    <3>2. CopyOf(m)'
      BY <1>7, <1>8, <3>1, WordAdded
    <3> QED BY <1>1, <1>3, <3>2 DEF CopyOf
  <2>2. CASE Len(insns) + 1 = k
    <3>1. \A j \in 1 .. Len(insns) : insns[j] = Insns(n)[j]
      BY <1>6, <1>7, <1>8, <2>2 DEF Alike
    <3>2. CopyOf(n)'
      BY <1>7, <1>8, <3>1, WordAdded
    <3>3. Len(sent) \in 1 .. Len(sent) /\ n = sent[Len(sent)]
      BY <1>4, <1>5, SentIsInjection DEF Last
    <3> QED BY <1>1, <3>2, <3>3 DEF CopyOf
  <2> QED BY <2>1, <2>2
<1>10. LoadsSent'
  BY <1>1, <1>9 DEF LoadsSent
<1> QED BY <1>1, <1>10 DEF ExecutedWasSent

LEMMA WorkerKeepsAlikeInv ==
  ASSUME TakesTurns, HelpersKnown, ProgramsAlike, IInv, TurnsInv, AlikeInv,
         Worker
  PROVE  AlikeInv'
<1> USE DEF AlikeInv, WorkerStep
<1>1. UNCHANGED sent
  BY WorkerLeavesHandler DEF device
<1>2. ASSUME UNCHANGED executed PROVE ExecutedWasSent'
  BY <1>1, <1>2 DEF ExecutedWasSent
<1>3. CASE WorkStart \/ ReadType
  BY <1>1, <1>2, <1>3 DEF WorkStart, ReadType, LoadsSent
<1>4. CASE ReadHeader
  <2>1. /\ wpc' = "copy" /\ ~failed' /\ UNCHANGED executed
        /\ CopyOf(Last)'
    <3>1. UNCHANGED executed
      BY <1>4 DEF ReadHeader
    <3> QED BY <1>4, <3>1, HeaderRead
  <2>2. sent # <<>>
    BY <1>4 DEF ReadHeader, TurnsInv, BufferIsLast
  <2>3. \E s \in 1 .. Len(sent') : CopyOf(sent[s])'
    BY <1>1, <2>1, <2>2, SentIsInjection DEF CopyOf, Last
  <2> QED BY <1>2, <2>1, <2>3 DEF LoadsSent
<1>5. CASE CopyWord
  BY <1>5, CopyKeepsAlikeInv
<1>6. CASE FixupCalls
  <2>1. PICK s \in 1 .. Len(sent) : CopyOf(sent[s])
    BY <1>6 DEF FixupCalls, LoadsSent
  <2>2. PICK m \in Injections : m = sent[s]
    BY SentIsInjection
  <2>3. wpc' = "load" /\ ~failed' /\ insns' = Fixup(Insns(sent[s]))
    BY <1>6, <2>1, <2>2, CallsFixed
  <2>4. UNCHANGED executed
    BY <1>6 DEF FixupCalls
  <2> QED BY <1>1, <1>2, <2>3, <2>4 DEF LoadsSent
<1>7. CASE AllocProg
  <2>1. PICK s \in 1 .. Len(sent) : insns = Fixup(Insns(sent[s]))
    BY <1>7 DEF AllocProg, LoadsSent
  <2>2. /\ wpc' = "select" /\ UNCHANGED <<failed, executed>>
        /\ heap'[prog'].insns = Fixup(Insns(sent[s]))
    BY <1>7, <2>1, ProgAllocated
  <2> QED BY <1>1, <1>2, <2>2 DEF LoadsSent
<1>8. CASE SelectRuntime
  <2>1. /\ wpc = "select" /\ wpc' = "run" /\ bpf_injected_prog' = prog
        /\ UNCHANGED <<heap, failed, executed>>
    BY <1>8 DEF SelectRuntime, Install
  <2> QED BY <1>1, <1>2, <2>1 DEF LoadsSent
<1>9. CASE AllocProgFails \/ SelectRuntimeFails
  BY <1>9 DEF AllocProgFails, SelectRuntimeFails, TakesTurns
<1>10. CASE RunProgram
  <2>1. PICK s \in 1 .. Len(sent) :
          heap[bpf_injected_prog].insns = Fixup(Insns(sent[s]))
    BY <1>10 DEF RunProgram, LoadsSent
  <2>2. /\ wpc' = "idle" /\ UNCHANGED failed
        /\ executed' = Append(executed, heap[bpf_injected_prog])
    BY <1>10, InstalledRuns
  <2>3. executed \in Seq(Program)
    BY DEF IInv, TypeOK
  <2>4. \A e \in 1 .. Len(executed') :
          \/ e \in 1 .. Len(executed) /\ executed'[e] = executed[e]
          \/ executed'[e] = heap[bpf_injected_prog]
    BY <2>2, <2>3
  <2>5. ExecutedWasSent'
    BY <1>1, <2>1, <2>4 DEF ExecutedWasSent
  <2> QED BY <2>2, <2>5 DEF LoadsSent
<1> QED BY <1>3, <1>4, <1>5, <1>6, <1>7, <1>8, <1>9, <1>10 DEF Worker

LEMMA NextAlikeInv ==
  ASSUME TakesTurns, HelpersKnown, ProgramsAlike, IInv, AckInv, TurnsInv,
         AlikeInv, [Next]_vars
  PROVE  AlikeInv'
<1>1. ASSUME NEW m \in Injections, HostSend(m) PROVE AlikeInv'
  <2>1. /\ UNCHANGED worker /\ Len(sent) \in Nat
        /\ Len(sent') = Len(sent) + 1
        /\ \A s \in 1 .. Len(sent) : sent'[s] = sent[s]
    BY <1>1, SendFacts, SentIsInjection
  <2> QED BY <2>1, OthersKeepAlikeInv
<1>2. CASE (\E t \in Events : RaiseEvent(t)) \/ Handler \/ UNCHANGED vars
  <2>1. UNCHANGED <<worker, sent>>
    BY <1>2, HandlerLeavesWorker DEF RaiseEvent, vars, device
  <2> QED BY <2>1, SentIsInjection, OthersKeepAlikeInv
<1>3. CASE Worker
  BY <1>3, WorkerKeepsAlikeInv
<1> QED BY <1>1, <1>2, <1>3 DEF Next

(* A host that takes turns with the driver finds the driver's pointer good *)
(* whenever it is used, and only programs that it sent executed, even if   *)
(* it replaces a program that is being read: as long as all its programs   *)
(* are alike.                                                              *)
THEOREM AlikeSafety ==
  ASSUME TakesTurns, HelpersKnown, ProgramsAlike
  PROVE  Spec => [](InstalledIsLive /\ ExecutedWasSent)
<1>1. IInv /\ AlikeInv => InstalledIsLive /\ ExecutedWasSent
  BY DEF IInv, LiveUnlessFailed, AlikeInv, InstalledIsLive
<1>2. IInv /\ AckInv /\ [Next]_vars => AckInv'
  BY NextAckInv DEF TakesTurns
<1>3. IInv /\ AckInv /\ TurnsInv /\ [Next]_vars => TurnsInv'
  BY NextTurnsInv
<1>4. IInv /\ AckInv /\ TurnsInv /\ AlikeInv /\ [Next]_vars => AlikeInv'
  BY NextAlikeInv
<1> QED
  BY <1>1, <1>2, <1>3, <1>4, InitIInv, InitAckInv, InitTurnsInv,
     InitAlikeInv, NextIInv, PTL DEF Spec

-----------------------------------------------------------------------------
(***************************************************************************)
(* Each injection is in one place until it is executed.                    *)
(***************************************************************************)
LEMMA InitQuietInv == Init => QuietInv
BY StartIsNoInjection
DEF Init, QuietInv, OnePlace, CarriesLast, Raised, Executing

LEMMA DeviceKeepsQuietInv ==
  ASSUME TakesTurns, IInv, QuietInv,
         (\E m \in Injections : HostSend(m)) \/ (\E t \in Events : RaiseEvent(t))
  PROVE  QuietInv'
<1> SUFFICES ASSUME quietly' PROVE ~failed' /\ OnePlace' /\ CarriesLast'
  BY DEF QuietInv
<1> USE DEF QuietInv
<1>1. ASSUME NEW m \in Injections, HostSend(m)
      PROVE  ~failed' /\ OnePlace' /\ CarriesLast'
  <2>1. quietly /\ Quiet /\ wpc = "idle"
    BY <1>1 DEF HostSend, Quiet, IInv, LiveUnlessFailed
  <2>2. /\ irq_status' \in InjectionTypes /\ Len(sent') = Len(sent) + 1
        /\ UNCHANGED <<hpc, seen, work_pending, wpc, executed, failed>>
    BY <1>1, SendFacts DEF handler, worker
  <2>3. Len(sent) = Len(executed)
    BY <2>1, StartIsNoInjection DEF OnePlace, Quiet, Raised, Executing
  <2>4. OnePlace'
    BY <2>1, <2>2, <2>3 DEF OnePlace, Quiet, Raised, Executing
  <2> QED BY <2>1, <2>2, <2>4 DEF CarriesLast, Quiet
<1>2. ASSUME NEW t \in Events, RaiseEvent(t)
      PROVE  ~failed' /\ OnePlace' /\ CarriesLast'
  <2>1. /\ irq_status = 0 /\ irq_status' \notin InjectionTypes
        /\ UNCHANGED <<sent, quietly, hpc, seen, program_type, work_pending,
                       wpc, program_id, program_size, insns, prog,
                       bpf_injected_prog, heap, executed, failed>>
    BY <1>2, EventFacts DEF handler, worker
  <2>2. OnePlace'
    BY <2>1, StartIsNoInjection DEF OnePlace, Raised, Executing
  <2>3. CarriesLast'
    BY <2>1 DEF CarriesLast, CopyOf, Last
  <2> QED BY <2>1, <2>2, <2>3
<1> QED BY <1>1, <1>2

(* The handler passes the injection from the register to the work queue.   *)
LEMMA HandlerKeepsQuietInv ==
  ASSUME AckingRegister, IInv, AckInv, TurnsInv, QuietInv, Handler
  PROVE  QuietInv'
<1>0. UNCHANGED <<wpc, program_id, program_size, insns, prog,
                  bpf_injected_prog, heap, executed, failed, sent, quietly>>
  BY HandlerLeavesWorker DEF worker
<1> SUFFICES ASSUME quietly PROVE ~failed' /\ OnePlace' /\ CarriesLast'
  BY <1>0 DEF QuietInv
<1>1. ~failed /\ OnePlace /\ CarriesLast /\ StatusHeld
  BY DEF QuietInv, AckInv, TurnsInv
<1> USE <1>1 DEF HandlerStep
<1>2. ASSUME UNCHANGED <<program_type, work_pending>>,
             hpc' = "schedule" => hpc = "schedule"
      PROVE  CarriesLast'
  BY <1>0, <1>2 DEF CarriesLast, CopyOf, Last
<1>3. CASE IrqProgram
  <2>1. /\ hpc = "dispatch" /\ hpc' = "schedule" /\ program_type' = seen
        /\ seen \in InjectionTypes /\ irq_status = seen
        /\ UNCHANGED <<irq_status, seen, work_pending>>
    BY <1>3, StartIsNoInjection DEF IrqProgram, StoreType, StatusHeld, device
  <2>2. Raised /\ Raised' /\ ~work_pending /\ ~Executing
    BY <2>1 DEF Raised, OnePlace
  <2>3. OnePlace'
    BY <1>0, <2>1, <2>2 DEF OnePlace, Executing
  <2>4. CarriesLast'
    BY <1>0, <2>1, <2>2 DEF CarriesLast, Executing, Last, TurnsInv, StatusIsLast
  <2> QED BY <1>0, <2>3, <2>4
<1>4. CASE ScheduleWork
  <2>1. /\ hpc = "schedule" /\ hpc' = "ack" /\ work_pending'
        /\ seen \in InjectionTypes /\ irq_status = seen
        /\ UNCHANGED <<irq_status, seen, program_type>>
    BY <1>4, StartIsNoInjection DEF ScheduleWork, StatusHeld, device
  <2>2. Raised /\ ~Raised' /\ ~work_pending /\ ~Executing
    BY <2>1 DEF Raised, OnePlace
  <2>3. OnePlace'
    BY <1>0, <2>1, <2>2 DEF OnePlace, Executing
  <2>4. CarriesLast'
    BY <1>0, <2>1, <2>2 DEF CarriesLast, Executing, Last
  <2> QED BY <1>0, <2>3, <2>4
<1>5. CASE IrqEntry
  <2>1. /\ hpc = "idle" /\ hpc' = "dispatch" /\ seen' = irq_status
        /\ UNCHANGED <<irq_status, program_type, work_pending>>
    BY <1>5 DEF IrqEntry, device
  <2> QED BY <1>0, <1>2, <2>1 DEF OnePlace, Raised, Executing
<1>6. CASE IrqInit \/ IrqOther
  <2>1. /\ hpc = "dispatch" /\ hpc' = "ack" /\ seen \notin InjectionTypes
        /\ UNCHANGED <<irq_status, seen, program_type, work_pending>>
    <3>1. CASE IrqInit
      BY <3>1 DEF IrqInit, device, INIT_IRQ, InjectionTypes,
                  PROGRAM_INJECTION, PROGRAM_MEMORY_INFO,
                  PROGRAM_SET_MAXIMUM_ORDER
    <3>2. CASE IrqOther
      BY <3>2, StartIsNoInjection DEF IrqOther, device
    <3> QED BY <1>6, <3>1, <3>2
  <2>2. irq_status \notin InjectionTypes
    BY <2>1 DEF OnePlace, Raised
  <2> QED BY <1>0, <1>2, <2>1, <2>2 DEF OnePlace, Raised, Executing
<1>7. CASE IrqMigrationStart \/ ScanFreePages \/ ScanFails \/ WriteReportHeader
             \/ WriteReportWord \/ RingDoorbell
  <2>1. /\ seen = FIRST_ROUND_MIGRATION_START /\ hpc' # "schedule"
        /\ UNCHANGED <<irq_status, seen, program_type, work_pending>>
    BY <1>7 DEF IrqMigrationStart, ScanFreePages, ScanFails, WriteReportHeader,
                WriteReportWord, AfterWord, RingDoorbell, StatusHeld,
                ReportPcs, device
  <2>2. irq_status \notin InjectionTypes
    BY <2>1, StartIsNoInjection DEF StatusHeld
  <2> QED BY <1>0, <1>2, <2>1, <2>2 DEF OnePlace, Raised, Executing
<1>8. CASE IrqAck
  <2>1. /\ hpc = "ack" /\ hpc' = "idle" /\ seen' = 0
        /\ UNCHANGED <<program_type, work_pending>>
        /\ irq_status' = IF seen = 0 THEN irq_status ELSE 0
    BY <1>8
    DEF IrqAck, Acknowledge, AckingRegister, StatusHeld, IInv, TypeOK
  <2>2. irq_status' \notin InjectionTypes /\ ~Raised
    BY <2>1, StartIsNoInjection DEF OnePlace, Raised
  <2> QED BY <1>0, <1>2, <2>1, <2>2 DEF OnePlace, Raised, Executing
<1> QED BY <1>3, <1>4, <1>5, <1>6, <1>7, <1>8 DEF Handler

(* The worker takes it from the queue, through loading, to its execution.  *)
LEMMA WorkerKeepsQuietInv ==
  ASSUME TakesTurns, HelpersKnown, IInv, AckInv, TurnsInv, QuietInv, Worker
  PROVE  QuietInv'
<1>0. UNCHANGED <<irq_status, sent, quietly, hpc, seen, program_type>>
  BY WorkerLeavesHandler DEF device, handler
<1> SUFFICES ASSUME quietly PROVE ~failed' /\ OnePlace' /\ CarriesLast'
  BY <1>0 DEF QuietInv
<1>1. ~failed /\ OnePlace /\ CarriesLast /\ StatusHeld
  BY DEF QuietInv, AckInv, TurnsInv
<1> USE <1>1 DEF WorkerStep
<1>2. ASSUME Executing, Executing', UNCHANGED <<work_pending, executed>>
      PROVE  OnePlace'
  BY <1>0, <1>2 DEF OnePlace, Raised
<1>3. ASSUME Executing PROVE ~Raised /\ ~work_pending /\ hpc # "schedule"
  BY <1>3, StartIsNoInjection DEF OnePlace, Raised, StatusHeld
<1>4. CASE WorkStart
  <2>1. /\ wpc = "idle" /\ wpc' = "type" /\ work_pending /\ ~work_pending'
        /\ UNCHANGED <<executed, failed>>
    BY <1>4 DEF WorkStart
  <2>2. OnePlace'
    BY <1>0, <2>1 DEF OnePlace, Raised, Executing
  <2>3. CarriesLast'
    BY <1>0, <2>1 DEF CarriesLast, Last
  <2> QED BY <2>1, <2>2, <2>3
<1>5. CASE ReadType
  <2>1. /\ wpc = "type" /\ wpc' = "header"
        /\ program_id' = ProgTypeFromIrq(program_type)
        /\ UNCHANGED <<work_pending, executed, failed>>
    BY <1>5 DEF ReadType
  <2>2. CarriesLast'
    BY <1>0, <2>1 DEF CarriesLast, Last
  <2> QED BY <1>2, <2>1, <2>2 DEF Executing
<1>6. CASE ReadHeader
  <2>1. wpc' = "copy" /\ UNCHANGED failed /\ CopyOf(Last)'
    BY <1>6, HeaderRead
  <2>2. wpc = "header" /\ UNCHANGED <<work_pending, executed, program_id>>
    BY <1>6 DEF ReadHeader
  <2>3. CarriesLast'
    BY <1>0, <1>3, <2>1, <2>2 DEF CarriesLast, Last, Executing
  <2> QED BY <1>2, <2>1, <2>2, <2>3 DEF Executing
<1>7. CASE CopyWord
  <2>1. /\ wpc = "copy" /\ wpc' = "copy"
        /\ UNCHANGED <<work_pending, executed, program_id, failed>>
    BY <1>7 DEF CopyWord
  <2>2. CopyOf(Last)'
    <3>1. sent # <<>> /\ CopyOf(Last)
      BY <2>1 DEF CarriesLast, TurnsInv, BufferIsLast
    <3>2. PICK m \in Injections : m = Last
      BY <3>1, SentIsInjection
    <3>3. CopyOf(m)
      BY <3>1, <3>2
    <3>4. /\ Len(insns) + 1 \in 1 .. Len(Insns(m))
          /\ insns' = Append(insns, Insns(m)[Len(insns) + 1])
      BY <1>7, <3>2, <3>3, WordRead
    <3>5. /\ WordsToCopy(program_size) = Len(Insns(m))
          /\ \A j \in 1 .. Len(insns) : insns[j] = Insns(m)[j]
      BY <3>3 DEF CopyOf
    <3>6. CopyOf(m)'
      BY <1>7, <3>4, <3>5, WordAdded
    <3>7. m = Last'
      BY <1>0, <3>2 DEF Last
    <3> QED BY <3>6, <3>7 DEF CopyOf
  <2>3. CarriesLast'
    BY <1>0, <1>3, <2>1, <2>2 DEF CarriesLast, Last, Executing
  <2> QED BY <1>2, <2>1, <2>3 DEF Executing
<1>8. CASE FixupCalls
  <2>1. wpc = "copy" /\ UNCHANGED <<work_pending, executed, program_id>>
    BY <1>8 DEF FixupCalls
  <2>2. sent # <<>> /\ CopyOf(Last)
    BY <2>1 DEF CarriesLast, TurnsInv, BufferIsLast
  <2>3. PICK m \in Injections : m = Last
    BY <2>2, SentIsInjection
  <2>4. wpc' = "load" /\ UNCHANGED failed /\ insns' = Fixup(Insns(m))
    BY <1>8, <2>2, <2>3, CallsFixed
  <2>5. CarriesLast'
    BY <1>0, <1>3, <2>1, <2>3, <2>4 DEF CarriesLast, Last, Executing
  <2> QED BY <1>2, <2>1, <2>4, <2>5 DEF Executing
<1>9. CASE AllocProg
  <2>1. wpc = "load" /\ UNCHANGED <<work_pending, executed, program_id>>
    BY <1>9 DEF AllocProg
  <2>2. /\ wpc' = "select" /\ UNCHANGED failed
        /\ heap'[prog'] = [name |-> program_id, insns |-> insns]
    BY <1>9, ProgAllocated
  <2>3. heap'[prog'] = ProgramOf(Last)
    BY <2>1, <2>2 DEF CarriesLast, ProgramOf
  <2>4. CarriesLast'
    BY <1>0, <1>3, <2>1, <2>2, <2>3 DEF CarriesLast, Last, Executing
  <2> QED BY <1>2, <2>1, <2>2, <2>4 DEF Executing
<1>10. CASE SelectRuntime
  <2>1. /\ wpc = "select" /\ wpc' = "run" /\ bpf_injected_prog' = prog
        /\ UNCHANGED <<heap, failed, executed, work_pending>>
    BY <1>10 DEF SelectRuntime, Install
  <2>2. CarriesLast'
    BY <1>0, <1>3, <2>1 DEF CarriesLast, Last, Executing
  <2> QED BY <1>2, <2>1, <2>2 DEF Executing
<1>11. CASE AllocProgFails \/ SelectRuntimeFails
  BY <1>11 DEF AllocProgFails, SelectRuntimeFails, TakesTurns
<1>12. CASE RunProgram
  <2>1. /\ wpc = "run" /\ wpc' = "idle" /\ UNCHANGED <<failed, work_pending>>
        /\ executed' = Append(executed, heap[bpf_injected_prog])
    BY <1>12, InstalledRuns DEF RunProgram
  <2>2. Len(executed') = Len(executed) + 1 /\ Len(executed) \in Nat
    BY <2>1 DEF IInv, TypeOK
  <2>3. ~Raised /\ ~work_pending /\ hpc # "schedule"
    BY <1>3, <2>1 DEF Executing
  <2>4. OnePlace'
    BY <1>0, <2>1, <2>2, <2>3 DEF OnePlace, Raised, Executing
  <2>5. CarriesLast'
    BY <1>0, <2>1, <2>3 DEF CarriesLast
  <2> QED BY <2>1, <2>4, <2>5
<1> QED BY <1>4, <1>5, <1>6, <1>7, <1>8, <1>9, <1>10, <1>11, <1>12 DEF Worker

LEMMA NextQuietInv ==
  ASSUME TakesTurns, HelpersKnown, IInv, AckInv, TurnsInv, QuietInv,
         [Next]_vars
  PROVE  QuietInv'
<1>1. CASE (\E m \in Injections : HostSend(m)) \/ (\E t \in Events : RaiseEvent(t))
  BY <1>1, DeviceKeepsQuietInv
<1>2. CASE Handler
  BY <1>2, HandlerKeepsQuietInv DEF TakesTurns
<1>3. CASE Worker
  BY <1>3, WorkerKeepsQuietInv
<1>4. CASE UNCHANGED vars
  BY <1>4 DEF QuietInv, OnePlace, CarriesLast, CopyOf, Raised, Executing,
              Last, vars, device, handler, worker
<1> QED BY <1>1, <1>2, <1>3, <1>4 DEF Next

-----------------------------------------------------------------------------
(***************************************************************************)
(* The refinement.                                                         *)
(***************************************************************************)

(* The abstract service executes the program this module does.             *)
LEMMA SameProgram ==
  \A m \in Injections : Service!ProgramOf(m) = ProgramOf(m)
BY DEF Service!ProgramOf, ProgramOf, Service!Fixup, Fixup,
       Service!HelperCalls, HelperCalls, Service!HelperIds, HelperIds,
       Service!HELPER_CALL, HELPER_CALL, Service!CALL, CALL,
       Service!Insns, Insns, Service!WordsToCopy, WordsToCopy,
       Service!ProgramSize, ProgramSize, Service!BPFHV_HELPER_MAGIC,
       BPFHV_HELPER_MAGIC, Service!ProgTypeFromIrq, ProgTypeFromIrq,
       Service!PROGRAM_INJECTION, PROGRAM_INJECTION,
       Service!PROGRAM_MEMORY_INFO, PROGRAM_MEMORY_INFO,
       Service!PROGRAM_SET_MAXIMUM_ORDER, PROGRAM_SET_MAXIMUM_ORDER,
       Service!BPFHV_PROG_NONE, BPFHV_PROG_NONE,
       Service!BPFHV_PROG_TEST, BPFHV_PROG_TEST,
       Service!BPFHV_PROG_GET_MEMORY_INFO, BPFHV_PROG_GET_MEMORY_INFO,
       Service!BPFHV_PROG_SET_MAXIMUM_PAGE_ORDER,
       BPFHV_PROG_SET_MAXIMUM_PAGE_ORDER

(* Only BPF_PROG_RUN() adds to what was executed.                          *)
LEMMA OnlyRunExecutes ==
  ASSUME Worker, ~RunProgram
  PROVE  UNCHANGED executed
BY DEF Worker, WorkStart, ReadType, ReadHeader, CopyWord, FixupCalls,
       AllocProg, AllocProgFails, SelectRuntime, SelectRuntimeFails

LEMMA StepRefines ==
  ASSUME IInv, QuietInv, [Next]_vars
  PROVE  [Service!Next]_(Service!vars)
<1> USE DEF Service!Next, Service!vars
<1>1. CASE ~quietly'
  BY <1>1 DEF Service!Unpromised
<1>2. ASSUME quietly', NEW m \in Injections, HostSend(m)
      PROVE  Service!Next
  <2>1. quietly /\ quietly' = quietly
    BY <1>2 DEF HostSend, IInv, TypeOK
  <2>2. sent' = Append(sent, m) /\ UNCHANGED executed
    BY <1>2 DEF HostSend, worker
  <2> QED BY <2>1, <2>2 DEF Service!Inject
<1>3. CASE (\E t \in Events : RaiseEvent(t)) \/ Handler \/ UNCHANGED vars
  <2>1. UNCHANGED <<quietly, sent, executed>>
    BY <1>3, HandlerLeavesWorker DEF RaiseEvent, vars, device, worker
  <2> QED BY <2>1
<1>4. CASE quietly' /\ Worker
  <2>1. UNCHANGED <<quietly, sent>> /\ quietly
    BY <1>4, WorkerLeavesHandler DEF device
  <2>2. CASE ~RunProgram
    BY <1>4, <2>1, <2>2, OnlyRunExecutes
  <2>3. CASE RunProgram
    <3>1. ~failed /\ OnePlace /\ CarriesLast /\ wpc = "run"
      BY <2>1, <2>3 DEF QuietInv, RunProgram
    <3>2. executed' = Append(executed, ProgramOf(Last))
      BY <2>3, <3>1, InstalledRuns DEF CarriesLast
    <3>3. Len(sent) = Len(executed) + 1 /\ Len(executed) \in Nat
      BY <3>1 DEF OnePlace, Executing, IInv, TypeOK
    <3>4. Last = sent[Len(executed) + 1] /\ Last \in Injections
      BY <3>3, SentIsInjection DEF Last
    <3>5. executed' = Append(executed, Service!ProgramOf(sent[Len(executed) + 1]))
      BY <3>2, <3>4, SameProgram
    <3>6. Service!Execute
      BY <2>1, <3>3, <3>5 DEF Service!Execute
    <3> QED BY <3>6
  <2> QED BY <2>2, <2>3
<1> QED BY <1>1, <1>2, <1>3, <1>4 DEF Next

(* The driver implements the abstract service, but for fairness: to a host *)
(* that takes turns it gives, for as long as each injection meets a quiet  *)
(* driver, one execution of each program, whole, and in order.             *)
THEOREM DriverRefinesService ==
  ASSUME TakesTurns, HelpersKnown
  PROVE  Spec => Service!Init /\ [][Service!Next]_(Service!vars)
<1>1. Init => Service!Init
  BY DEF Init, Service!Init
<1>2. IInv /\ AckInv /\ [Next]_vars => AckInv'
  BY NextAckInv DEF TakesTurns
<1>3. IInv /\ AckInv /\ TurnsInv /\ [Next]_vars => TurnsInv'
  BY NextTurnsInv
<1>4. IInv /\ AckInv /\ TurnsInv /\ QuietInv /\ [Next]_vars => QuietInv'
  BY NextQuietInv
<1>5. IInv /\ QuietInv /\ [Next]_vars => [Service!Next]_(Service!vars)
  BY StepRefines
<1> QED
  BY <1>1, <1>2, <1>3, <1>4, <1>5, InitIInv, InitAckInv, InitTurnsInv,
     InitQuietInv, NextIInv, PTL DEF Spec
=============================================================================
