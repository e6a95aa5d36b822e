----------------------------- MODULE BpfProgram -----------------------------
(***************************************************************************)
(* The data host and guest exchange: injection messages, and the eBPF      *)
(* programs they carry.  Pure operators, no state.                         *)
(*                                                                         *)
(* A payload is a sequence of the 32-bit words the driver reads with       *)
(* readl(); a struct bpf_insn is two of them: the first holds code,        *)
(* registers and offset, the second the immediate.                         *)
(***************************************************************************)
EXTENDS Integers, Sequences

CONSTANT
  HelperOffset \* what func - __bpf_call_base yields, for each helper id

-----------------------------------------------------------------------------
(* bpf_injection_msg.h: message types, which are also the IRQ statuses. *)
PROGRAM_INJECTION           == 1
PROGRAM_INJECTION_RESULT    == 2
PROGRAM_MEMORY_INFO         == 3
PROGRAM_SET_MAXIMUM_ORDER   == 4
FIRST_ROUND_MIGRATION_START == 5
FIRST_ROUND_MIGRATION       == 20
FIRST_ROUND_MIGRATION_ENDED == 21
INIT_IRQ                    == 22 \* the literal in irq_handler

(* driver.h: program ids, and the abstract ids of the helper functions. *)
BPFHV_PROG_NONE                   == 0
BPFHV_PROG_TEST                   == 1
BPFHV_PROG_GET_MEMORY_INFO        == 2
BPFHV_PROG_SET_MAXIMUM_PAGE_ORDER == 3
BPFHV_PROG_MAX                    == 4
ProgIds == BPFHV_PROG_NONE .. BPFHV_PROG_MAX - 1

BPFHV_HELPER_MAGIC == 1267662848 \* 0x4b8f0000
HelperIds == BPFHV_HELPER_MAGIC .. BPFHV_HELPER_MAGIC + 2

ASSUME HelperOffsetAssumption == HelperOffset \in [HelperIds -> Int]

-----------------------------------------------------------------------------
(* The types of the messages that carry a program to run in the guest. *)
InjectionTypes ==
  {PROGRAM_INJECTION, PROGRAM_MEMORY_INFO, PROGRAM_SET_MAXIMUM_ORDER}

ProgTypeFromIrq_NoBreak(type) ==
  IF type = PROGRAM_SET_MAXIMUM_ORDER THEN BPFHV_PROG_MAX ELSE type
ProgTypeFromIrq(type) ==
  CASE type = PROGRAM_INJECTION         -> BPFHV_PROG_TEST
    [] type = PROGRAM_MEMORY_INFO       -> BPFHV_PROG_GET_MEMORY_INFO
    [] type = PROGRAM_SET_MAXIMUM_ORDER -> BPFHV_PROG_SET_MAXIMUM_PAGE_ORDER
    [] OTHER                            -> BPFHV_PROG_NONE

Uint16 == {n \in Nat : n < 65536} \* the width of payload_len

(* A header's payload_len is in bytes, a program's size in instructions. *)
ProgramSize_InWords(payload_len) == payload_len \div 4
ProgramSize(payload_len) == payload_len \div 8
WordsToCopy_OneShort(program_size) == 2 * program_size - 1
WordsToCopy(program_size) == 2 * program_size

-----------------------------------------------------------------------------
(* The first word of an instruction holds its code in the low eight bits;  *)
(* the rest are dst_reg, src_reg and off.                                  *)
CALL        == 133  \* BPF_JMP | BPF_CALL
HELPER_CALL == CALL \* ... with both registers and off zero
Code(word)  == word % 256

(* Positions of the immediates of the calls the driver takes for calls of  *)
(* a helper, and of all the instructions the kernel executes as a call: it *)
(* looks at the code only, where no verifier has run before.               *)
HelperCalls(insns) ==
  {k \in DOMAIN insns : k % 2 = 0 /\ insns[k - 1] = HELPER_CALL}
Calls(insns) ==
  {k \in DOMAIN insns : k % 2 = 0 /\ Code(insns[k - 1]) = CALL}

(* bpfhv_helper_calls_fixup(): fails on the first helper it does not know, *)
(* and otherwise replaces each helper id by the offset of its function.    *)
FixupAccepts_SkipUnknown(insns) == TRUE
FixupAccepts(insns) == \A k \in HelperCalls(insns) : insns[k] \in HelperIds

Fixup(insns) ==
  [k \in 1 .. Len(insns) |->
     IF k \in HelperCalls(insns) /\ insns[k] \in HelperIds
     THEN HelperOffset[insns[k]]
     ELSE insns[k]]

(* Calls, by the positions of their immediates, that go to the driver.     *)
GoToDriver(insns, calls) ==
  \A k \in calls : \E h \in HelperIds : insns[k] = HelperOffset[h]
Resolved(insns) == GoToDriver(insns, HelperCalls(insns))

-----------------------------------------------------------------------------
(* What the host injects: payload_len bytes, and the words they lie in.    *)
InjectionMessage ==
  {m \in [type : InjectionTypes, payload_len : Uint16, payload : Seq(Int)] :
     Len(m.payload) = (m.payload_len + 3) \div 4}

(* What of it is a program: its whole instructions.                        *)
Insns(message) ==
  SubSeq(message.payload, 1, 2 * (message.payload_len \div 8))

Program == [name : ProgIds, insns : Seq(Int)]
ProgramOf(message) ==
  [name |-> ProgTypeFromIrq(message.type), insns |-> Fixup(Insns(message))]
=============================================================================
