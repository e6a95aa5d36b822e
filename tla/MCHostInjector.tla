--------------------------- MODULE MCHostInjector ---------------------------
(***************************************************************************)
(* ELF files as clang makes them of shared/guest_programs (an empty .text, *)
(* the program's section, a symbol table), with a second program, without  *)
(* one, with one too long for payload_len, and no ELF file at all.         *)
(***************************************************************************)
EXTENDS HostInjector

Bytes(data)   == [progbits |-> TRUE, data |-> data]
Symbols(data) == [progbits |-> FALSE, data |-> data]

ElfFiles ==
  {<<Bytes(<<>>), Bytes(<<1, 2>>), Symbols(<<7>>)>>,
   <<Bytes(<<>>), Bytes(<<1, 2>>), Bytes(<<3, 4, 5>>), Symbols(<<7>>)>>,
   <<Bytes(<<>>), Symbols(<<7>>)>>,
   <<Bytes(<<1, 2, 3, 4, 5>>)>>,
   UNREADABLE}
=============================================================================
