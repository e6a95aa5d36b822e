---------------------------- MODULE HostInjector ----------------------------
(***************************************************************************)
(* injectProgram and its siblings (host_interface).  Three take a program  *)
(* out of an ELF file, connect to the device, and send the message as two  *)
(* send() calls of which no result is looked at; the other two send only a *)
(* header.  The device's end of the connection is external.                *)
(***************************************************************************)
EXTENDS Naturals, Sequences

CONSTANTS
  Files,      \* the sections of the ELF files the injectors may find
  UNREADABLE, \* a file that is missing or no ELF file
  WILD,       \* an uninitialised payload pointer
  NULL,
  Garbage,    \* what such a pointer may make send() send
  LenModulus  \* 2^16: payload_len has 16 bits

(* A section: is it SHT_PROGBITS, and what does it hold? *)
Section == [progbits : BOOLEAN, data : Seq(Nat)]

ASSUME FilesAssumption == Files \subseteq Seq(Section) \cup {UNREADABLE}
ASSUME LenModulusAssumption == LenModulus \in Nat \ {0}
ASSUME GarbageAssumption == Garbage \in Nat
ASSUME WildAssumption == WILD \notin Seq(Nat)

(* The injectors: the type of the message, and does it carry a program? *)
injectProgram          == [type |-> 1, carries |-> TRUE]
memoryInfoProgram      == [type |-> 3, carries |-> TRUE]
setMaximumOrderProgram == [type |-> 4, carries |-> TRUE]
enableOptimization     == [type |-> 10, carries |-> FALSE]
disableOptimization    == [type |-> 11, carries |-> FALSE]
Injectors ==
  {injectProgram, memoryInfoProgram, setMaximumOrderProgram,
   enableOptimization, disableOptimization}

VARIABLES
  \* The injector.
  self, file, pc, i, payload_len, payload,
  \* The connection.
  stream, open, \* what is in flight, and whether more may be sent
  \* The device.
  server, type, missing, got

message    == <<payload_len, payload>>
injector   == <<self, file, pc, i, message>>
connection == <<stream, open>>
device     == <<server, type, missing, got>>
vars       == <<injector, connection, device>>

HeaderItem(t, len) == [type |-> t, payload_len |-> len]

(* Where there is to be a program mymsg is not initialised. *)
Init ==
  /\ self \in Injectors
  /\ file \in Files
  /\ i = 1
  /\ IF self.carries
     THEN pc = "sections" /\ payload_len \in 0 .. LenModulus - 1 /\ payload = WILD
     ELSE pc = "connect" /\ payload_len = 0 /\ payload = NULL
  /\ stream = <<>> /\ open = FALSE
  /\ server = "accept" /\ type = 0 /\ missing = 0 /\ got = <<>>

-----------------------------------------------------------------------------
(***************************************************************************)
(* prepare_bpf_injection_message().                                        *)
(***************************************************************************)
Sections == IF file = UNREADABLE THEN <<>> ELSE file

Usable_AnyType(s) == s.data # <<>>
Usable(s) == s.progbits /\ s.data # <<>>

(* Each section that may hold a program replaces the one before, whatever  *)
(* its name: section_name only decides what is printed.  A section that is *)
(* too long for the width of payload_len is copied past the end of what    *)
(* was allocated: the process may come to its end, or not notice.          *)
CopySection ==
  /\ pc = "sections" /\ i <= Len(Sections)
  /\ LET data == Sections[i].data IN
       IF Usable(Sections[i])
       THEN /\ payload_len' = Len(data) % LenModulus
            /\ payload' = SubSeq(data, 1, payload_len')
            /\ pc' \in {pc} \cup IF Len(data) < LenModulus THEN {} ELSE {"exit"}
       ELSE UNCHANGED <<pc, message>>
  /\ i' = i + 1
  /\ UNCHANGED <<self, file, connection, device>>

(* The end of the sections, or err: straight away; mymsg is returned. *)
Prepared ==
  /\ pc = "sections" /\ i > Len(Sections)
  /\ pc' = "connect"
  /\ UNCHANGED <<self, file, i, message, connection, device>>

-----------------------------------------------------------------------------
(***************************************************************************)
(* main().  No socket, no host or no connection: exit(EXIT_FAILURE).       *)
(***************************************************************************)
Connect ==
  /\ pc = "connect" /\ pc' = "header"
  /\ open' = TRUE
  /\ server' = "header"
  /\ UNCHANGED <<self, file, i, message, stream, type, missing, got>>

ConnectFails ==
  /\ pc = "connect" /\ pc' = "exit"
  /\ UNCHANGED <<self, file, i, message, connection, device>>

(* send() to a connection that was reset ends the process: SIGPIPE. *)
SendItems(items, next) ==
  IF open THEN stream' = stream \o items /\ pc' = next
  ELSE pc' = "exit" /\ UNCHANGED stream

HeaderLength_Forgotten == 0
HeaderLength == payload_len

SendHeader ==
  /\ pc = "header"
  /\ SendItems(<<HeaderItem(self.type, HeaderLength)>>,
               IF self.carries THEN "payload" ELSE "close")
  /\ UNCHANGED <<self, file, i, message, open, device>>

(* A wild pointer yields EFAULT, or whatever it points to. *)
SendPayload ==
  /\ pc = "payload"
  /\ IF payload # WILD THEN SendItems(payload, "close")
     ELSE \/ SendItems(<<>>, "close")
          \/ SendItems([j \in 1 .. payload_len |-> Garbage], "close")
  /\ UNCHANGED <<self, file, i, message, open, device>>

(* free() and close(); freeing a wild pointer aborts, which closes too. *)
Close ==
  /\ pc = "close" /\ pc' = "exit"
  /\ open' = FALSE
  /\ UNCHANGED <<self, file, i, message, stream, device>>

-----------------------------------------------------------------------------
(***************************************************************************)
(* The connection and the device (external).                               *)
(***************************************************************************)

(* The connection is reset: some of what is in flight is lost. *)
Reset ==
  /\ open /\ open' = FALSE
  /\ \E j \in 0 .. Len(stream) : stream' = SubSeq(stream, 1, j)
  /\ UNCHANGED <<injector, device>>

Complete(m) == IF m = 0 THEN "done" ELSE "payload"

ReadHeader ==
  /\ server = "header" /\ stream # <<>>
  /\ type' = Head(stream).type
  /\ missing' = Head(stream).payload_len
  /\ server' = Complete(missing')
  /\ stream' = Tail(stream)
  /\ UNCHANGED <<injector, open, got>>

ReadPayload ==
  /\ server = "payload" /\ stream # <<>>
  /\ got' = Append(got, Head(stream))
  /\ missing' = missing - 1
  /\ server' = Complete(missing')
  /\ stream' = Tail(stream)
  /\ UNCHANGED <<injector, open, type>>

EndOfFile ==
  /\ server \in {"header", "payload"} /\ stream = <<>> /\ ~open
  /\ server' = "dropped"
  /\ UNCHANGED <<injector, connection, type, missing, got>>

-----------------------------------------------------------------------------
Next ==
  \/ CopySection \/ Prepared \/ Connect \/ ConnectFails \/ SendHeader
  \/ SendPayload \/ Close
  \/ Reset \/ ReadHeader \/ ReadPayload \/ EndOfFile

Spec == Init /\ [][Next]_vars

-----------------------------------------------------------------------------
(* The program in the file, when it is one the injector can handle: its    *)
(* last section of bytes, all such sections fitting payload_len.           *)
Candidates ==
  {j \in DOMAIN Sections : Sections[j].progbits /\ Sections[j].data # <<>>}
Good ==
  Candidates # {} /\ \A j \in Candidates : Len(Sections[j].data) < LenModulus
Program ==
  Sections[CHOOSE j \in Candidates : \A k \in Candidates : k <= j].data

(* A message the device takes for complete has the type of its injector,   *)
(* and carries the program, all of it, or nothing when there is none to    *)
(* carry; whatever the connection loses, part of a program never passes    *)
(* for a program.                                                          *)
CompleteIsProgram ==
  server = "done" =>
    /\ type = self.type
    /\ IF self.carries THEN Good => got = Program ELSE got = <<>>

(* "payload length": the length announced is that of the program taken out *)
(* of the file.                                                            *)
LengthIsPayload ==
  pc = "header" /\ self.carries /\ Candidates # {} =>
    payload_len = Len(Program)
=============================================================================
