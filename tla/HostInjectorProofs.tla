------------------------- MODULE HostInjectorProofs -------------------------
(***************************************************************************)
(* What the device gets of an injector's message, for every ELF file and   *)
(* every width of payload_len, whatever the connection loses.              *)
(***************************************************************************)
EXTENDS HostInjector, TLAPS

-----------------------------------------------------------------------------
(***************************************************************************)
(* The inductive invariant.                                                *)
(***************************************************************************)
Header == HeaderItem(self.type, HeaderLength)
Item   == [type : Nat, payload_len : Nat] \cup Nat

ShapeOK ==
  /\ self \in Injectors /\ file \in Files
  /\ pc \in {"sections", "connect", "header", "payload", "close", "exit"}
  /\ i \in Nat \ {0}
  /\ payload_len \in 0 .. LenModulus - 1
  /\ stream \in Seq(Item) /\ open \in BOOLEAN
  /\ server \in {"accept", "header", "payload", "done", "dropped"}
  /\ got \in Seq(Item)

(* The payload comes from section j, its length modulo that of the field.  *)
TakenFrom(j) ==
  LET data == Sections[j].data IN
  /\ payload_len = Len(data) % LenModulus
  /\ payload = SubSeq(data, 1, payload_len)

(* The payload comes from the last candidate so far, if there was one.     *)
LastTaken ==
  self.carries =>
    \/ payload = WILD /\ \A j \in Candidates : i <= j
    \/ \E j \in Candidates :
         /\ j < i /\ \A k \in Candidates : k < i => k <= j
         /\ TakenFrom(j)

(* The message is prepared before there is a connection: by then every     *)
(* section has been looked at.                                             *)
PreparedFirst ==
  IF self.carries
  THEN pc \notin {"sections", "exit"} \/ server # "accept" => i > Len(Sections)
  ELSE pc \notin {"sections", "payload"} /\ payload_len = 0

(* What has been sent, as long as nothing is lost.                         *)
SentInOrder ==
  /\ server = "accept" => pc \in {"sections", "connect", "exit"}
  /\ server \in {"accept", "dropped"} => ~open /\ stream = <<>>
  /\ server = "accept" => got = <<>>
  /\ pc \in {"sections", "connect"} => server = "accept"
  /\ pc = "header" => stream = <<>> /\ server \in {"header", "dropped"}
  /\ pc = "payload" =>
       /\ server = "header" => stream = <<Header>> \/ (~open /\ stream = <<>>)
       /\ server # "header" => stream = <<>>
       /\ got = <<>>

(* The device reads the header first and counts what is missing by it.     *)
CountedByHeader ==
  /\ server = "header" =>
       got = <<>> /\ (stream # <<>> => Head(stream) = Header)
  /\ server \in {"payload", "done"} =>
       /\ type = self.type
       /\ missing \in Nat /\ missing = payload_len - Len(got)
       /\ server = "done" <=> missing = 0

(* What is in flight continues what has arrived.                           *)
InFlight(k) == stream[k] = payload[Len(got) + k]
PayloadInOrder ==
  self.carries /\ payload # WILD =>
    /\ server = "header" =>
         \A k \in 2 .. Len(stream) : stream[k] = payload[k - 1]
    /\ server = "payload" => \A k \in 1 .. Len(stream) : InFlight(k)
    /\ \A k \in 1 .. Len(got) : got[k] = payload[k]

IInv ==
  /\ ShapeOK
  /\ LastTaken /\ PreparedFirst
  /\ SentInOrder /\ CountedByHeader /\ PayloadInOrder

-----------------------------------------------------------------------------
LEMMA SectionsAreSections ==
  ASSUME ShapeOK
  PROVE  /\ Sections \in Seq(Section)
         /\ Candidates \subseteq 1 .. Len(Sections)
         /\ \A j \in Candidates : Sections[j].data \in Seq(Nat)
<1>1. Sections \in Seq(Section)
  BY FilesAssumption DEF ShapeOK, Sections
<1>2. ASSUME NEW j \in 1 .. Len(Sections)
      PROVE  Sections[j].data \in Seq(Nat)
  <2>1. Sections[j] \in Section
    BY <1>1
  <2> QED BY <2>1 DEF Section
<1> QED BY <1>1, <1>2 DEF Candidates

LEMMA LengthModulo ==
  ASSUME NEW n \in Nat
  PROVE  /\ n % LenModulus \in 0 .. LenModulus - 1
         /\ n % LenModulus <= n
         /\ n < LenModulus => n % LenModulus = n
<1>1. n % LenModulus \in 0 .. LenModulus - 1
  BY LenModulusAssumption
<1>2. n < LenModulus => n % LenModulus = n
  BY LenModulusAssumption
<1> QED BY <1>1, <1>2, LenModulusAssumption

(* A payload is wild exactly when no section was taken, and otherwise as   *)
(* long as the header says.                                                *)
LEMMA TakenIsWhole ==
  ASSUME ShapeOK, NEW j \in Candidates, TakenFrom(j)
  PROVE  /\ payload \in Seq(Nat) /\ Len(payload) = payload_len
         /\ payload # WILD
         /\ Len(Sections[j].data) < LenModulus => payload = Sections[j].data
<1> DEFINE data == Sections[j].data
<1>1. data \in Seq(Nat) /\ Len(data) \in Nat
  BY SectionsAreSections
<1>2. /\ payload_len \in Nat /\ payload_len <= Len(data)
      /\ Len(data) < LenModulus => payload_len = Len(data)
  <2>1. payload_len = Len(data) % LenModulus
    BY DEF TakenFrom
  <2>2. /\ Len(data) % LenModulus <= Len(data)
        /\ Len(data) < LenModulus => Len(data) % LenModulus = Len(data)
    BY <1>1, LengthModulo
  <2>3. payload_len \in Nat
    BY LenModulusAssumption DEF ShapeOK
  <2> QED BY <2>1, <2>2, <2>3
<1>3. payload = SubSeq(data, 1, payload_len)
  BY DEF TakenFrom
<1> HIDE DEF data
<1>4. payload \in Seq(Nat) /\ Len(payload) = payload_len
  BY <1>1, <1>2, <1>3
<1>5. Len(data) < LenModulus => payload = data
  <2> SUFFICES ASSUME Len(data) < LenModulus PROVE payload = data
    OBVIOUS
  <2>1. Len(payload) = Len(data)
    BY <1>2, <1>4
  <2>2. \A k \in 1 .. Len(data) : payload[k] = data[k]
    BY <1>1, <1>2, <1>3
  <2> QED BY <1>1, <1>4, <2>1, <2>2
<1> QED BY <1>4, <1>5, WildAssumption DEF data

LEMMA TypesAreNumbers ==
  ASSUME NEW m \in Injectors
  PROVE  m.type \in Nat
BY DEF Injectors, injectProgram, memoryInfoProgram, setMaximumOrderProgram,
       enableOptimization, disableOptimization

LEMMA InitIInv == Init => IInv
<1> SUFFICES ASSUME Init PROVE IInv
  OBVIOUS
<1>2. ShapeOK
  <2>1. payload_len \in 0 .. LenModulus - 1
    BY LenModulusAssumption DEF Init
  <2>2. pc \in {"sections", "connect"}
    BY DEF Init
  <2>3. stream \in Seq(Item) /\ got \in Seq(Item)
    BY DEF Init
  <2>4. /\ self \in Injectors /\ file \in Files /\ i = 1
        /\ server = "accept"
    BY DEF Init
  <2>5. open \in BOOLEAN
    BY DEF Init
  <2> QED BY <2>1, <2>2, <2>3, <2>4, <2>5 DEF ShapeOK
<1>3. LastTaken
  <2>1. \A j \in Candidates : 1 <= j
    BY <1>2, SectionsAreSections
  <2> QED BY <2>1 DEF Init, LastTaken
<1>4. PreparedFirst
  BY DEF Init, PreparedFirst
<1>5. SentInOrder /\ CountedByHeader /\ PayloadInOrder
  BY DEF Init, SentInOrder, CountedByHeader, PayloadInOrder
<1> QED BY <1>2, <1>3, <1>4, <1>5 DEF IInv

-----------------------------------------------------------------------------
(***************************************************************************)
(* Preparing the message.                                                  *)
(***************************************************************************)

(* The section under consideration is the last candidate so far, when it   *)
(* is one.                                                                 *)
LEMMA CopySectionKeepsTaken ==
  ASSUME ShapeOK, LastTaken, CopySection
  PROVE  LastTaken'
<1> USE DEF CopySection
<1>1. /\ Sections' = Sections /\ Candidates' = Candidates
      /\ self' = self /\ i' = i + 1 /\ i \in 1 .. Len(Sections)
  <2>1. file' = file
    OBVIOUS
  <2>2. Sections \in Seq(Section) /\ i \in Nat \ {0}
    BY SectionsAreSections DEF ShapeOK
  <2> QED BY <2>1, <2>2 DEF Sections, Candidates
<1>2. Candidates \subseteq Nat /\ i \in Nat
  BY SectionsAreSections DEF ShapeOK
<1> SUFFICES ASSUME self.carries
             PROVE  \/ payload' = WILD /\ \A j \in Candidates : i + 1 <= j
                    \/ \E j \in Candidates :
                         /\ j < i + 1
                         /\ \A k \in Candidates : k < i + 1 => k <= j
                         /\ TakenFrom(j)'
  BY <1>1 DEF LastTaken
<1>3. CASE Usable(Sections[i])
  <2>1. PICK n \in Candidates : n = i
    BY <1>1, <1>3 DEF Usable, Candidates
  <2>2. Usable(Sections[n])
    BY <1>3, <2>1
  <2>3. /\ payload_len' = Len(Sections[n].data) % LenModulus
        /\ payload' = SubSeq(Sections[n].data, 1, payload_len')
    BY <2>1, <2>2
  <2>4. TakenFrom(n)'
    BY <1>1, <2>3 DEF TakenFrom
  <2>5. n < i + 1 /\ \A k \in Candidates : k < i + 1 => k <= n
    BY <1>2, <2>1
  <2> QED BY <2>4, <2>5
<1>4. CASE ~Usable(Sections[i])
  <2>1. i \notin Candidates
    BY <1>4 DEF Usable, Candidates
  <2>2. UNCHANGED message
    BY <1>4
  <2>3. \A j : TakenFrom(j)' <=> TakenFrom(j)
    BY <1>1, <2>2 DEF TakenFrom, message
  <2>4. CASE payload = WILD /\ \A j \in Candidates : i <= j
    <3>1. \A j \in Candidates : i + 1 <= j
      BY <1>2, <2>1, <2>4
    <3> QED BY <2>2, <2>4, <3>1 DEF message
  <2>5. ASSUME NEW j \in Candidates, j < i, TakenFrom(j),
               \A k \in Candidates : k < i => k <= j
        PROVE  /\ j < i + 1 /\ TakenFrom(j)'
               /\ \A k \in Candidates : k < i + 1 => k <= j
    BY <1>2, <2>1, <2>3, <2>5
  <2> QED BY <2>4, <2>5 DEF LastTaken
<1> QED BY <1>3, <1>4

LEMMA CopySectionKeepsIInv ==
  ASSUME IInv, CopySection
  PROVE  IInv'
<1> USE DEF IInv
<1>1. LastTaken'
  BY CopySectionKeepsTaken
<1>2. /\ pc = "sections" /\ pc' \in {"sections", "exit"}
      /\ i' = i + 1
      /\ UNCHANGED <<self, file, stream, open, server, type, missing, got>>
  BY DEF CopySection, connection, device, message
<1>3. server = "accept" /\ self.carries
  BY <1>2 DEF SentInOrder, PreparedFirst
<1>4. payload_len' \in 0 .. LenModulus - 1
  <2>1. CASE Usable(Sections[i])
    <3>1. Sections[i].data \in Seq(Nat)
      <4>1. i \in Candidates
        BY <2>1, SectionsAreSections DEF CopySection, Usable, Candidates, ShapeOK
      <4> QED BY <4>1, SectionsAreSections
    <3>2. Len(Sections[i].data) % LenModulus \in 0 .. LenModulus - 1
      BY <3>1, LengthModulo
    <3>3. payload_len' = Len(Sections[i].data) % LenModulus
      BY <2>1 DEF CopySection
    <3> QED BY <3>2, <3>3
  <2>2. CASE ~Usable(Sections[i])
    BY <2>2 DEF CopySection, message, ShapeOK
  <2> QED BY <2>1, <2>2
<1>5. ShapeOK'
  BY <1>2, <1>4 DEF ShapeOK
<1>6. PreparedFirst'
  BY <1>2, <1>3 DEF PreparedFirst
<1>7. SentInOrder' /\ CountedByHeader'
  BY <1>2, <1>3 DEF SentInOrder, CountedByHeader
<1>8. PayloadInOrder'
  <2>1. got = <<>>
    BY <1>3 DEF SentInOrder
  <2> QED BY <1>2, <1>3, <2>1 DEF PayloadInOrder
<1> QED BY <1>1, <1>5, <1>6, <1>7, <1>8

(* Once prepared, the message stays.                                       *)
LEMMA MessageStays ==
  ASSUME LastTaken, UNCHANGED <<self, file, i, message>>
  PROVE  LastTaken' /\ Sections' = Sections /\ Header' = Header
<1>1. /\ Sections' = Sections /\ Candidates' = Candidates
      /\ self' = self /\ i' = i
      /\ payload_len' = payload_len /\ payload' = payload
  BY DEF Sections, Candidates, message
<1>2. \A j : TakenFrom(j)' <=> TakenFrom(j)
  BY <1>1 DEF TakenFrom
<1>3. LastTaken'
  BY <1>1, <1>2 DEF LastTaken
<1> QED BY <1>1, <1>3 DEF Header, HeaderItem, HeaderLength

-----------------------------------------------------------------------------
(***************************************************************************)
(* Sending it.                                                             *)
(***************************************************************************)
LEMMA PreparedKeepsIInv ==
  ASSUME IInv, Prepared
  PROVE  IInv'
<1> USE DEF IInv
<1>1. /\ pc = "sections" /\ pc' = "connect" /\ i > Len(Sections)
      /\ UNCHANGED <<self, file, i, message, stream, open, server, type, missing,
                    got>>
  BY DEF Prepared, connection, device
<1>2. server = "accept"
  BY <1>1 DEF SentInOrder
<1>3. LastTaken' /\ Sections' = Sections /\ Header' = Header
  BY <1>1, MessageStays
<1>4. ShapeOK'
  BY <1>1 DEF ShapeOK, message
<1>5. PreparedFirst'
  BY <1>1, <1>3 DEF PreparedFirst, message
<1>6. SentInOrder' /\ CountedByHeader' /\ PayloadInOrder'
  BY <1>1, <1>2, <1>3
     DEF SentInOrder, CountedByHeader, PayloadInOrder, InFlight, message
<1> QED BY <1>3, <1>4, <1>5, <1>6

LEMMA ConnectKeepsIInv ==
  ASSUME IInv, Connect \/ ConnectFails
  PROVE  IInv'
<1> USE DEF IInv
<1>1. /\ pc = "connect"
      /\ UNCHANGED <<self, file, i, message, stream, type, missing, got>>
      /\ \/ pc' = "header" /\ open' = TRUE /\ server' = "header"
         \/ pc' = "exit" /\ UNCHANGED <<open, server>>
  BY DEF Connect, ConnectFails, connection, device
<1>2. server = "accept" /\ stream = <<>> /\ got = <<>>
  BY <1>1 DEF SentInOrder
<1>3. LastTaken' /\ Sections' = Sections /\ Header' = Header
  BY <1>1, MessageStays
<1>4. ShapeOK'
  <2>1. open' \in BOOLEAN
    BY <1>1 DEF ShapeOK
  <2>2. /\ pc' \in {"header", "exit"} /\ server' \in {"header", "accept"}
        /\ UNCHANGED <<self, file, i, payload_len, stream, got>>
    BY <1>1, <1>2 DEF message
  <2> QED BY <2>1, <2>2 DEF ShapeOK
<1>5. PreparedFirst'
  BY <1>1, <1>3 DEF PreparedFirst, message
<1>6. SentInOrder'
  BY <1>1, <1>2 DEF SentInOrder
<1>7. CountedByHeader'
  BY <1>1, <1>2 DEF CountedByHeader
<1>8. PayloadInOrder'
  BY <1>1, <1>2 DEF PayloadInOrder
<1> QED BY <1>3, <1>4, <1>5, <1>6, <1>7, <1>8

LEMMA SendHeaderKeepsIInv ==
  ASSUME IInv, SendHeader
  PROVE  IInv'
<1> USE DEF IInv
<1>1. /\ pc = "header"
      /\ UNCHANGED <<self, file, i, message, open, server, type, missing, got>>
      /\ \/ open /\ stream' = stream \o <<Header>>
            /\ pc' = (IF self.carries THEN "payload" ELSE "close")
         \/ ~open /\ stream' = stream /\ pc' = "exit"
  BY DEF SendHeader, SendItems, Header, HeaderLength, device
<1>2. stream = <<>> /\ server \in {"header", "dropped"}
  BY <1>1 DEF SentInOrder
<1>3. LastTaken' /\ Sections' = Sections /\ Header' = Header
  BY <1>1, MessageStays
<1>4. Header \in Item
  BY TypesAreNumbers, LenModulusAssumption
     DEF Header, HeaderItem, HeaderLength, Item, ShapeOK
<1>5. \/ stream' = <<Header>> /\ open
         /\ pc' = (IF self.carries THEN "payload" ELSE "close")
      \/ ~open /\ stream' = <<>> /\ pc' = "exit"
  BY <1>1, <1>2, <1>4
<1>6. server = "header" => got = <<>>
  BY DEF CountedByHeader
<1>7. server = "dropped" => ~open
  BY DEF SentInOrder
<1>8. ShapeOK'
  <2>1. stream' \in Seq(Item)
    <3>1. <<Header>> \in Seq(Item) /\ <<>> \in Seq(Item)
      BY <1>4
    <3> QED BY <1>5, <3>1
  <2>2. pc' \in {"payload", "close", "exit"}
    BY <1>5
  <2> QED BY <1>1, <2>1, <2>2 DEF ShapeOK, message
<1>9. PreparedFirst'
  BY <1>1, <1>2, <1>3, <1>5 DEF PreparedFirst, message
<1>10. SentInOrder'
  BY <1>1, <1>2, <1>3, <1>5, <1>6, <1>7 DEF SentInOrder
<1>11. CountedByHeader'
  BY <1>1, <1>2, <1>3, <1>4, <1>5 DEF CountedByHeader, message
<1>12. PayloadInOrder'
  <2>1. server # "payload"
    BY <1>2
  <2>2. \A k \in 2 .. Len(stream') : FALSE
    BY <1>4, <1>5
  <2> QED BY <1>1, <2>1, <2>2 DEF PayloadInOrder, message
<1> QED BY <1>3, <1>8, <1>9, <1>10, <1>11, <1>12

(* What send() takes of the payload, or of where a wild pointer points.    *)
LEMMA SendPayloadSends ==
  ASSUME IInv, SendPayload
  PROVE  /\ pc = "payload" /\ self.carries
         /\ UNCHANGED <<self, file, i, message, open, server, type, missing, got>>
         /\ \/ ~open /\ stream' = stream /\ pc' = "exit"
            \/ open /\ pc' = "close" /\ \E items \in Seq(Nat) :
                 /\ stream' = stream \o items
                 /\ payload # WILD => items = payload
<1> USE DEF IInv
<1>1. /\ pc = "payload"
      /\ UNCHANGED <<self, file, i, message, open, server, type, missing, got>>
  BY DEF SendPayload, device
<1>2. self.carries
  BY <1>1 DEF PreparedFirst
<1>3. payload # WILD => payload \in Seq(Nat)
  BY <1>2, TakenIsWhole DEF LastTaken
<1>4. PICK items \in Seq(Nat) :
        SendItems(items, "close") /\ (payload # WILD => items = payload)
  <2>1. CASE payload # WILD
    BY <1>3, <2>1 DEF SendPayload
  <2>2. CASE payload = WILD
    <3>1. <<>> \in Seq(Nat)
      OBVIOUS
    <3>2. [j \in 1 .. payload_len |-> Garbage] \in Seq(Nat)
      <4>1. payload_len \in Nat
        BY LenModulusAssumption DEF ShapeOK
      <4> QED BY <4>1, GarbageAssumption
    <3> QED BY <2>2, <3>1, <3>2 DEF SendPayload
  <2> QED BY <2>1, <2>2
<1> QED BY <1>1, <1>2, <1>4 DEF SendItems

LEMMA SendPayloadKeepsIInv ==
  ASSUME IInv, SendPayload
  PROVE  IInv'
<1> USE DEF IInv
<1>1. /\ pc = "payload" /\ self.carries
      /\ UNCHANGED <<self, file, i, message, open, server, type, missing, got>>
      /\ pc' \in {"close", "exit"}
  BY SendPayloadSends
<1>2. LastTaken' /\ Sections' = Sections /\ Header' = Header
  BY <1>1, MessageStays
<1>3. /\ server # "accept" /\ got = <<>>
      /\ server = "header" => stream = <<Header>> \/ (~open /\ stream = <<>>)
      /\ server # "header" => stream = <<>>
      /\ server = "dropped" => ~open
  BY <1>1 DEF SentInOrder
<1>4. Header \in Item /\ Nat \subseteq Item
  BY TypesAreNumbers, LenModulusAssumption
     DEF Header, HeaderItem, HeaderLength, Item, ShapeOK
<1>5. PreparedFirst'
  BY <1>1, <1>2, <1>3 DEF PreparedFirst, message
<1>6. CASE ~open /\ stream' = stream /\ pc' = "exit"
  <2>1. ShapeOK' /\ SentInOrder'
    BY <1>1, <1>3, <1>6 DEF ShapeOK, SentInOrder, message
  <2>2. CountedByHeader' /\ PayloadInOrder'
    BY <1>1, <1>2, <1>6 DEF CountedByHeader, PayloadInOrder, InFlight, message
  <2> QED BY <1>2, <1>5, <2>1, <2>2
<1>7. ASSUME open, pc' = "close", NEW items \in Seq(Nat),
             stream' = stream \o items, payload # WILD => items = payload
      PROVE  IInv'
  <2>1. CASE server = "header"
    <3>1. stream' = <<Header>> \o items
      BY <1>3, <1>7, <2>1
    <3>2. items \in Seq(Item)
      BY <1>4
    <3>3. /\ stream' \in Seq(Item) /\ stream' # <<>> /\ Head(stream') = Header
          /\ Len(stream') = Len(items) + 1
          /\ \A k \in 2 .. Len(stream') : stream'[k] = items[k - 1]
      BY <1>4, <3>1, <3>2
    <3>4. ShapeOK' /\ SentInOrder'
      BY <1>1, <1>7, <2>1, <3>3 DEF ShapeOK, SentInOrder, message
    <3>5. CountedByHeader'
      BY <1>1, <1>2, <1>3, <2>1, <3>3 DEF CountedByHeader
    <3>6. PayloadInOrder'
      BY <1>1, <1>3, <1>7, <2>1, <3>3 DEF PayloadInOrder, message
    <3> QED BY <1>2, <1>5, <3>4, <3>5, <3>6
  <2>2. CASE server # "header"
    <3>1. stream' = items /\ items \in Seq(Item)
      BY <1>3, <1>4, <1>7, <2>2
    <3>2. ShapeOK' /\ SentInOrder'
      BY <1>1, <1>3, <1>7, <2>2, <3>1 DEF ShapeOK, SentInOrder, message
    <3>3. CountedByHeader'
      BY <1>1, <1>2, <2>2 DEF CountedByHeader, message
    <3>4. PayloadInOrder'
      <4>1. payload' = payload /\ got' = <<>> /\ server' # "header"
        BY <1>1, <1>3, <2>2 DEF message
      <4> QED BY <1>7, <3>1, <4>1 DEF PayloadInOrder, InFlight
    <3> QED BY <1>2, <1>5, <3>2, <3>3, <3>4
  <2> QED BY <2>1, <2>2
<1> QED BY <1>6, <1>7, SendPayloadSends

LEMMA CloseKeepsIInv ==
  ASSUME IInv, Close
  PROVE  IInv'
<1> USE DEF IInv
<1>1. /\ pc = "close" /\ pc' = "exit" /\ open' = FALSE
      /\ UNCHANGED <<self, file, i, message, stream, server, type, missing, got>>
  BY DEF Close, device
<1>2. LastTaken' /\ Sections' = Sections /\ Header' = Header
  BY <1>1, MessageStays
<1>3. ShapeOK'
  <2>1. open' \in BOOLEAN
    BY <1>1
  <2> QED BY <1>1, <2>1 DEF ShapeOK, message
<1>4. PreparedFirst' /\ SentInOrder'
  BY <1>1, <1>2 DEF PreparedFirst, SentInOrder, message
<1>5. CountedByHeader' /\ PayloadInOrder'
  BY <1>1, <1>2 DEF CountedByHeader, PayloadInOrder, InFlight, message
<1> QED BY <1>2, <1>3, <1>4, <1>5

-----------------------------------------------------------------------------
(***************************************************************************)
(* The connection and the device.                                          *)
(***************************************************************************)
LEMMA ResetKeepsIInv ==
  ASSUME IInv, Reset
  PROVE  IInv'
<1> USE DEF IInv
<1>1. /\ open' = FALSE
      /\ UNCHANGED <<self, file, pc, i, message, server, type, missing, got>>
  BY DEF Reset, injector, device
<1>2. PICK j \in 0 .. Len(stream) : stream' = SubSeq(stream, 1, j)
  BY DEF Reset
<1>3. /\ stream' \in Seq(Item) /\ Len(stream') = j
      /\ \A k \in 1 .. j : stream'[k] = stream[k]
  BY <1>2 DEF ShapeOK
<1>4. /\ stream = <<>> => stream' = <<>>
      /\ stream' # <<>> => stream # <<>> /\ Head(stream') = Head(stream)
  BY <1>2, <1>3 DEF ShapeOK
<1>5. LastTaken' /\ Sections' = Sections /\ Header' = Header
  BY <1>1, MessageStays
<1>6. ShapeOK'
  <2>1. open' \in BOOLEAN
    BY <1>1
  <2> QED BY <1>1, <1>3, <2>1 DEF ShapeOK, message
<1>7. PreparedFirst'
  BY <1>1, <1>5 DEF PreparedFirst, message
<1>8. SentInOrder'
  <2>1. stream = <<Header>> => stream' = <<Header>> \/ stream' = <<>>
    <3> SUFFICES ASSUME stream = <<Header>>
                 PROVE  stream' = <<Header>> \/ stream' = <<>>
      OBVIOUS
    <3>1. j \in 0 .. 1
      BY <1>2
    <3>2. CASE j = 0
      BY <1>3, <3>2
    <3>3. CASE j = 1
      <4>1. Len(stream') = 1 /\ stream'[1] = Header
        BY <1>3, <3>3
      <4> QED BY <1>3, <4>1
    <3> QED BY <3>1, <3>2, <3>3
  <2> QED BY <1>1, <1>4, <1>5, <2>1 DEF SentInOrder
<1>9. CountedByHeader'
  BY <1>1, <1>4, <1>5 DEF CountedByHeader, message
<1>10. PayloadInOrder'
  <2>1. payload' = payload /\ self' = self /\ got' = got /\ server' = server
    BY <1>1 DEF message
  <2>2. /\ 1 .. j \subseteq 1 .. Len(stream) /\ 2 .. j \subseteq 2 .. Len(stream)
        /\ 2 .. j \subseteq 1 .. j
    BY <1>2 DEF ShapeOK
  <2> QED BY <1>3, <2>1, <2>2 DEF PayloadInOrder, InFlight
<1> QED BY <1>5, <1>6, <1>7, <1>8, <1>9, <1>10

(* Taking an item off the stream shifts what is in flight.                 *)
LEMMA TailShifts ==
  ASSUME ShapeOK, stream # <<>>
  PROVE  /\ Tail(stream) \in Seq(Item) /\ Head(stream) \in Item
         /\ Len(Tail(stream)) = Len(stream) - 1 /\ Len(stream) \in Nat \ {0}
         /\ Head(stream) = stream[1]
         /\ \A k \in 1 .. Len(Tail(stream)) : Tail(stream)[k] = stream[k + 1]
BY DEF ShapeOK

LEMMA ReadHeaderKeepsIInv ==
  ASSUME IInv, ReadHeader
  PROVE  IInv'
<1> USE DEF IInv
<1>1. /\ server = "header" /\ stream # <<>> /\ stream' = Tail(stream)
      /\ type' = Head(stream).type /\ missing' = Head(stream).payload_len
      /\ server' = Complete(missing')
      /\ UNCHANGED <<self, file, pc, i, message, open, got>>
  BY DEF ReadHeader, injector
<1>2. Head(stream) = Header /\ got = <<>>
  BY <1>1 DEF CountedByHeader
<1>3. /\ type' = self.type /\ missing' = payload_len /\ payload_len \in Nat
      /\ server' = (IF payload_len = 0 THEN "done" ELSE "payload")
  BY <1>1, <1>2, LenModulusAssumption
     DEF Header, HeaderItem, HeaderLength, Complete, ShapeOK
<1>4. LastTaken' /\ Sections' = Sections /\ Header' = Header
  BY <1>1, MessageStays
<1>5. server' \in {"payload", "done"}
  BY <1>3
<1>6. ShapeOK'
  BY <1>1, <1>5, TailShifts DEF ShapeOK, message
<1>7. PreparedFirst'
  BY <1>1, <1>4, <1>5 DEF PreparedFirst, message
<1>8. SentInOrder'
  <2>1. stream = <<Header>> => stream' = <<>>
    <3> SUFFICES ASSUME stream = <<Header>> PROVE stream' = <<>>
      OBVIOUS
    <3>1. Tail(stream) \in Seq(Item) /\ Len(Tail(stream)) = 0
      BY <1>1, TailShifts
    <3> QED BY <1>1, <3>1
  <2> QED BY <1>1, <1>2, <1>5, <2>1 DEF SentInOrder
<1>9. CountedByHeader'
  BY <1>1, <1>2, <1>3, <1>5 DEF CountedByHeader, message
<1>10. PayloadInOrder'
  <2> SUFFICES ASSUME self.carries, payload # WILD,
                      NEW k \in 1 .. Len(Tail(stream))
               PROVE  Tail(stream)[k] = payload[k]
    BY <1>1, <1>2, <1>5 DEF PayloadInOrder, InFlight, message
  <2>1. k + 1 \in 2 .. Len(stream) /\ Tail(stream)[k] = stream[k + 1]
    BY <1>1, TailShifts
  <2>2. stream[k + 1] = payload[(k + 1) - 1]
    BY <1>1, <2>1 DEF PayloadInOrder
  <2> QED BY <2>1, <2>2
<1> QED BY <1>4, <1>6, <1>7, <1>8, <1>9, <1>10

LEMMA ReadPayloadKeepsIInv ==
  ASSUME IInv, ReadPayload
  PROVE  IInv'
<1> USE DEF IInv
<1>1. /\ server = "payload" /\ stream # <<>> /\ stream' = Tail(stream)
      /\ got' = Append(got, stream[1]) /\ missing' = missing - 1
      /\ server' = (IF missing' = 0 THEN "done" ELSE "payload")
      /\ UNCHANGED <<self, file, pc, i, message, open, type>>
  BY TailShifts DEF ReadPayload, Complete, injector
<1>2. /\ missing \in Nat \ {0} /\ missing = payload_len - Len(got)
      /\ type = self.type
  BY <1>1 DEF CountedByHeader
<1>3. LastTaken' /\ Sections' = Sections /\ Header' = Header
  BY <1>1, MessageStays
<1>4. stream[1] \in Item /\ stream' \in Seq(Item)
  BY <1>1, TailShifts
<1>5. /\ got \in Seq(Item) /\ got' \in Seq(Item) /\ Len(got') = Len(got) + 1
      /\ got'[Len(got) + 1] = stream[1]
      /\ \A k \in 1 .. Len(got) : got'[k] = got[k]
  BY <1>1, <1>4 DEF ShapeOK
<1>6. server' \in {"payload", "done"}
  BY <1>1
<1>7. ShapeOK'
  BY <1>1, <1>4, <1>5, <1>6 DEF ShapeOK, message
<1>8. PreparedFirst'
  BY <1>1, <1>3, <1>6 DEF PreparedFirst, message
<1>9. SentInOrder'
  BY <1>1, <1>6 DEF SentInOrder
<1>10. CountedByHeader'
  <2>1. payload_len \in Nat /\ Len(got) \in Nat
    BY LenModulusAssumption DEF ShapeOK
  <2> QED BY <1>1, <1>2, <1>5, <1>6, <2>1 DEF CountedByHeader, message
<1>11. PayloadInOrder'
  <2> SUFFICES ASSUME self.carries, payload # WILD
               PROVE  /\ \A k \in 1 .. Len(stream') :
                           stream'[k] = payload[Len(got') + k]
                      /\ \A k \in 1 .. Len(got') : got'[k] = payload[k]
    BY <1>1, <1>6 DEF PayloadInOrder, InFlight, message
  <2>1. /\ \A k \in 1 .. Len(stream) : stream[k] = payload[Len(got) + k]
        /\ \A k \in 1 .. Len(got) : got[k] = payload[k]
    BY <1>1 DEF PayloadInOrder, InFlight
  <2>2. Len(got) \in Nat /\ Len(stream) \in Nat \ {0}
    BY <1>1, <1>5, TailShifts
  <2>3. ASSUME NEW k \in 1 .. Len(stream')
        PROVE  stream'[k] = payload[Len(got') + k]
    <3>1. k + 1 \in 1 .. Len(stream) /\ stream'[k] = stream[k + 1]
      BY <1>1, TailShifts
    <3>2. Len(got) + (k + 1) = Len(got') + k
      BY <1>5, <2>2
    <3>3. stream[k + 1] = payload[Len(got) + (k + 1)]
      BY <2>1, <3>1
    <3> QED BY <3>1, <3>2, <3>3
  <2>4. ASSUME NEW k \in 1 .. Len(got')
        PROVE  got'[k] = payload[k]
    <3>1. CASE k \in 1 .. Len(got)
      BY <1>5, <2>1, <3>1
    <3>2. CASE k = Len(got) + 1
      <4>1. stream[1] = payload[Len(got) + 1]
        BY <2>1, <2>2
      <4> QED BY <1>5, <3>2, <4>1
    <3> QED BY <1>5, <2>2, <3>1, <3>2
  <2> QED BY <2>3, <2>4
<1> QED BY <1>3, <1>7, <1>8, <1>9, <1>10, <1>11

LEMMA EndOfFileKeepsIInv ==
  ASSUME IInv, EndOfFile
  PROVE  IInv'
<1> USE DEF IInv
<1>1. /\ server \in {"header", "payload"} /\ stream = <<>> /\ ~open
      /\ server' = "dropped"
      /\ UNCHANGED <<self, file, pc, i, message, stream, open, type, missing, got>>
  BY DEF EndOfFile, injector, connection
<1>2. LastTaken' /\ Sections' = Sections /\ Header' = Header
  BY <1>1, MessageStays
<1>3. ShapeOK' /\ SentInOrder'
  BY <1>1, <1>2 DEF ShapeOK, SentInOrder, message
<1>4. PreparedFirst' /\ CountedByHeader'
  BY <1>1, <1>2 DEF PreparedFirst, CountedByHeader, message
<1>5. PayloadInOrder'
  BY <1>1 DEF PayloadInOrder, message
<1> QED BY <1>2, <1>3, <1>4, <1>5

LEMMA NextIInv == IInv /\ [Next]_vars => IInv'
<1> SUFFICES ASSUME IInv, [Next]_vars PROVE IInv'
  OBVIOUS
<1>1. CASE UNCHANGED vars
  <2> USE DEF IInv
  <2>1. UNCHANGED <<self, file, pc, i, message, stream, open, server, type,
                    missing, got>>
    BY <1>1 DEF vars, injector, connection, device
  <2>2. LastTaken' /\ Sections' = Sections /\ Header' = Header
    BY <2>1, MessageStays
  <2>3. ShapeOK' /\ PreparedFirst'
    BY <2>1, <2>2 DEF ShapeOK, PreparedFirst, message
  <2>4. SentInOrder' /\ CountedByHeader'
    BY <2>1, <2>2 DEF SentInOrder, CountedByHeader, message
  <2>5. PayloadInOrder'
    BY <2>1 DEF PayloadInOrder, InFlight, message
  <2> QED BY <2>2, <2>3, <2>4, <2>5
<1>2. CASE CopySection \/ Prepared
  BY <1>2, CopySectionKeepsIInv, PreparedKeepsIInv
<1>3. CASE Connect \/ ConnectFails \/ SendHeader \/ SendPayload \/ Close
  BY <1>3, ConnectKeepsIInv, SendHeaderKeepsIInv, SendPayloadKeepsIInv,
     CloseKeepsIInv
<1>4. CASE Reset \/ ReadHeader \/ ReadPayload \/ EndOfFile
  BY <1>4, ResetKeepsIInv, ReadHeaderKeepsIInv, ReadPayloadKeepsIInv,
     EndOfFileKeepsIInv
<1> QED BY <1>1, <1>2, <1>3, <1>4 DEF Next

-----------------------------------------------------------------------------
(* When the device has as many bytes as the header announces, they are the *)
(* payload, and that is the last candidate of the file, whole if it fits.  *)
LEMMA DoneIsProgram == IInv => CompleteIsProgram
<1> SUFFICES ASSUME IInv, server = "done"
             PROVE  /\ type = self.type
                    /\ IF self.carries THEN Good => got = Program ELSE got = <<>>
  BY DEF CompleteIsProgram
<1> USE DEF IInv
<1>1. /\ type = self.type /\ Len(got) = payload_len /\ got \in Seq(Item)
  <2>1. /\ type = self.type /\ missing = 0 /\ missing = payload_len - Len(got)
        /\ got \in Seq(Item) /\ Len(got) \in Nat /\ payload_len \in Nat
    BY LenModulusAssumption DEF CountedByHeader, ShapeOK
  <2> QED BY <2>1
<1>2. CASE ~self.carries
  <2>1. Len(got) = 0
    BY <1>1, <1>2 DEF PreparedFirst
  <2> QED BY <1>1, <1>2, <2>1
<1>3. ASSUME self.carries, Good
      PROVE  got = Program
  <2>1. i > Len(Sections) /\ Candidates # {}
    BY <1>3 DEF PreparedFirst, Good
  <2>2. \A k \in Candidates : k < i /\ k \in Nat
    BY <2>1, SectionsAreSections DEF ShapeOK
  <2>3. PICK j \in Candidates :
          (\A k \in Candidates : k <= j) /\ TakenFrom(j)
    <3>1. ~ \A j \in Candidates : i <= j
      BY <2>1, <2>2 DEF ShapeOK
    <3> QED BY <1>3, <2>2, <3>1 DEF LastTaken
  <2>4. payload = Sections[j].data /\ payload # WILD
        /\ payload \in Seq(Nat) /\ Len(payload) = payload_len
    <3>1. ShapeOK /\ j \in Candidates /\ TakenFrom(j)
      BY <2>3
    <3>2. Len(Sections[j].data) < LenModulus
      BY <1>3 DEF Good
    <3> QED BY <3>1, <3>2, TakenIsWhole
  <2>5. j = (CHOOSE n \in Candidates : \A k \in Candidates : k <= n)
    <3>1. \A n \in Candidates : (\A k \in Candidates : k <= n) => n = j
      BY <2>2, <2>3
    <3> QED BY <2>3, <3>1
  <2>6. payload = Program
    BY <2>4, <2>5 DEF Program
  <2>7. \A k \in 1 .. Len(got) : got[k] = payload[k]
    BY <1>3, <2>4 DEF PayloadInOrder
  <2>8. got = payload
    BY <1>1, <2>4, <2>7
  <2> QED BY <2>6, <2>8
<1> QED BY <1>1, <1>2, <1>3

(* However the connection fails and whatever sections the file has, a      *)
(* message the device takes for complete carries the program of the file,  *)
(* all of it, whenever that program fits payload_len.                      *)
THEOREM InjectorSafety == Spec => []CompleteIsProgram
<1>1. IInv => CompleteIsProgram
  BY DoneIsProgram
<1> QED BY InitIInv, NextIInv, <1>1, PTL DEF Spec
=============================================================================
