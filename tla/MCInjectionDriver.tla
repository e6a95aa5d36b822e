-------------------------- MODULE MCInjectionDriver --------------------------
(***************************************************************************)
(* Values for model checking InjectionDriver: the status register of the   *)
(* device as a set of bits, the three programs of shared/guest_programs    *)
(* (without their middle instruction, r0 = 0), and programs of other       *)
(* shapes.                                                                 *)
(***************************************************************************)
EXTENDS InjectionDriver, Bitwise

FiveBits == 0 .. 31

(* Raising sets the bits of a type, acknowledging clears them. *)
BitsRaise(s, t) == s | t
BitsLower(s, t) == s - (s & t)

(* A device that keeps only the last status raised. *)
LastRaise(s, t) == t
LastLower(s, t) == IF s = t THEN 0 ELSE s

Offsets == [h \in HelperIds |-> h - BPFHV_HELPER_MAGIC + 100]

EXIT == 149
Calling(helper) == <<HELPER_CALL, helper, EXIT, 0>>
Message(type, payload_len, words) ==
  [type |-> type, payload_len |-> payload_len, payload |-> words]

TestProg   == Message(PROGRAM_INJECTION, 16, Calling(BPFHV_HELPER_MAGIC))
MemoryProg == Message(PROGRAM_MEMORY_INFO, 16, Calling(BPFHV_HELPER_MAGIC + 1))
OrderProg  ==
  Message(PROGRAM_SET_MAXIMUM_ORDER, 16, Calling(BPFHV_HELPER_MAGIC + 2))
(* Built against a driver.h with one helper more than the driver has. *)
NewerProg  == Message(PROGRAM_INJECTION, 16, Calling(BPFHV_HELPER_MAGIC + 3))
(* Shorter than the others, so that reading it over one of them tears, and *)
(* followed by half an instruction.                                        *)
ShortProg  == Message(PROGRAM_MEMORY_INFO, 12, <<EXIT, 0, EXIT>>)

Shipped == {TestProg, MemoryProg, OrderProg}
Mixed   == {TestProg, ShortProg, NewerProg}

AllEvents ==
  {FIRST_ROUND_MIGRATION_START, FIRST_ROUND_MIGRATION_ENDED, INIT_IRQ}
=============================================================================
