------------------------ MODULE FreePageReportProofs ------------------------
(***************************************************************************)
(* The report of free pages is sound and leaves no lock behind, for every  *)
(* number of zones, lists, blocks and CPUs.                                *)
(***************************************************************************)
EXTENDS FreePageReport, TLAPS

-----------------------------------------------------------------------------
(***************************************************************************)
(* The inductive invariant.                                                *)
(***************************************************************************)

(* The handler owns exactly the first k zones. *)
OwnsFirst ==
  \A i \in 1 .. Len(Zones) : owner[Zones[i]] = HANDLER <=> i <= k

(* How many these are: none outside the report, all from the walk over the *)
(* lists to the doorbell.                                                  *)
LocksCounted ==
  /\ hpc \in {"idle", "alloc", "kfree"} => k = 0
  /\ hpc = "lock" => k < Len(Zones)
  /\ hpc \in {"scan", "write", "doorbell"} => k = Len(Zones)
  /\ hpc = "unlock" => k > 0

(* The buffer holds blocks of the lists as they are, *)
EntryIsFree(e) == e.page # HEAD => e.page \in Range(lists[e.list])
EntriesFree ==
  hpc \in {"scan", "write", "doorbell"} =>
    \A i \in DOMAIN migration_buffer : EntryIsFree(migration_buffer[i])

(* and of the lists walked so far all but the first. *)
ListRecorded(l) ==
  l \in Managed =>
    \A i \in 2 .. Len(lists[l]) :
      [page |-> lists[l][i], list |-> l] \in Range(migration_buffer)
ScannedRecorded ==
  /\ hpc \in {"alloc", "lock"} => migration_buffer = <<>> /\ pos = 0
  /\ hpc \in {"scan", "write", "doorbell"} =>
       \A n \in 1 .. pos : ListRecorded(ScanOrder[n])
  /\ hpc \in {"write", "doorbell"} => pos = Len(ScanOrder)

MessageIsBuffer == hpc = "doorbell" => message = Len(migration_buffer)

IInv ==
  /\ TypeOK
  /\ OwnsFirst /\ LocksCounted
  /\ EntriesFree /\ ScannedRecorded /\ MessageIsBuffer

-----------------------------------------------------------------------------
LEMMA ZonesAreSeq ==
  /\ Zones \in Seq(ZoneSet) /\ Len(Zones) \in Nat /\ Len(Zones) > 0
  /\ \A i \in 1 .. Len(Zones) : Zones[i] \in ZoneSet
  /\ \A z \in ZoneSet : \E i \in 1 .. Len(Zones) : Zones[i] = z
<1>1. Zones \in Seq(ZoneSet) /\ Len(Zones) \in Nat /\ Len(Zones) > 0
  BY ZonesAssumption
<1>2. DOMAIN Zones = 1 .. Len(Zones)
  BY <1>1
<1>3. \A z \in ZoneSet : \E i \in 1 .. Len(Zones) : Zones[i] = z
  BY <1>2 DEF ZoneSet, Range
<1> QED BY <1>1, <1>3

(* While the handler holds all zones no list changes under it. *)
LEMMA OwnsAll ==
  ASSUME IInv, hpc \in {"scan", "write", "doorbell"}, NEW z \in ZoneSet
  PROVE  owner[z] = HANDLER
<1>1. PICK i \in 1 .. Len(Zones) : Zones[i] = z
  BY ZonesAreSeq
<1>2. k = Len(Zones)
  BY DEF IInv, LocksCounted
<1> QED BY <1>1, <1>2, ZonesAreSeq DEF IInv, OwnsFirst

(* What a walk over a list adds to the buffer. *)
LEMMA RecordedEntries ==
  ASSUME NEW l \in Lists, NEW blocks \in Seq(Blocks)
  PROVE  /\ Recorded(l, blocks) \in Seq(Entry)
         /\ Len(Recorded(l, blocks)) = Len(blocks)
         /\ \A i \in 1 .. Len(blocks) :
              /\ Recorded(l, blocks)[i].list = l
              /\ \/ Recorded(l, blocks)[i].page = HEAD
                 \/ Recorded(l, blocks)[i].page \in Range(blocks)
         /\ \A i \in 2 .. Len(blocks) :
              Recorded(l, blocks)[i - 1] = [page |-> blocks[i], list |-> l]
<1>1. \A i \in 1 .. Len(blocks) : blocks[i] \in Blocks /\ blocks[i] \in Range(blocks)
  BY DEF Range
<1>2. \A i \in 1 .. Len(blocks) :
        /\ PageAfter(blocks, i) \in Blocks \cup {HEAD}
        /\ PageAfter(blocks, i) = HEAD \/ PageAfter(blocks, i) \in Range(blocks)
  BY <1>1 DEF PageAfter
<1>3. Recorded(l, blocks) \in Seq(Entry) /\ Len(Recorded(l, blocks)) = Len(blocks)
  BY <1>2 DEF Recorded, Entry
<1>4. \A i \in 1 .. Len(blocks) :
        Recorded(l, blocks)[i] = [page |-> PageAfter(blocks, i), list |-> l]
  BY DEF Recorded
<1>5. \A i \in 2 .. Len(blocks) : PageAfter(blocks, i - 1) = blocks[i]
  BY DEF PageAfter
<1>6. \A i \in 2 .. Len(blocks) :
        Recorded(l, blocks)[i - 1] = [page |-> blocks[i], list |-> l]
  BY <1>4, <1>5
<1>7. \A i \in 1 .. Len(blocks) :
        /\ Recorded(l, blocks)[i].list = l
        /\ \/ Recorded(l, blocks)[i].page = HEAD
           \/ Recorded(l, blocks)[i].page \in Range(blocks)
  <2> SUFFICES ASSUME NEW i \in 1 .. Len(blocks)
               PROVE  /\ Recorded(l, blocks)[i].list = l
                      /\ \/ Recorded(l, blocks)[i].page = HEAD
                         \/ Recorded(l, blocks)[i].page \in Range(blocks)
    OBVIOUS
  <2>1. Recorded(l, blocks)[i] = [page |-> PageAfter(blocks, i), list |-> l]
    BY <1>4
  <2> QED BY <1>2, <2>1
<1> QED BY <1>3, <1>6, <1>7

LEMMA ThenOrder ==
  /\ Then("scan") = "write" /\ Then("write") = "doorbell"
  /\ Then("doorbell") = "unlock" /\ Then("unlock") = "kfree"
  /\ Then("kfree") = "idle"
BY DEF Then

LEMMA WithoutIsSeq ==
  ASSUME NEW blocks \in Seq(Blocks), NEW b \in Range(blocks)
  PROVE  Without(blocks, b) \in Seq(Blocks)
<1> DEFINE at == CHOOSE i \in DOMAIN blocks : blocks[i] = b
<1>1. at \in 1 .. Len(blocks)
  BY DEF Range
<1> HIDE DEF at
<1>2. /\ SubSeq(blocks, 1, at - 1) \in Seq(Blocks)
      /\ SubSeq(blocks, at + 1, Len(blocks)) \in Seq(Blocks)
  BY <1>1
<1> QED BY <1>2 DEF Without, at

LEMMA InitIInv == Init => IInv
<1> SUFFICES ASSUME Init PROVE IInv
  OBVIOUS
<1>1. TypeOK
  BY BootListsAssumption, BoundsAssumption, ScanOrderAssumption, ZonesAreSeq
  DEF Init, TypeOK, HandlerPcs
<1>2. OwnsFirst /\ LocksCounted
  BY OwnersAssumption, ZonesAreSeq DEF Init, OwnsFirst, LocksCounted
<1>3. EntriesFree /\ ScannedRecorded /\ MessageIsBuffer
  BY DEF Init, EntriesFree, ScannedRecorded, MessageIsBuffer
<1> QED BY <1>1, <1>2, <1>3 DEF IInv

-----------------------------------------------------------------------------
(* The page allocator changes the lists only of a zone that is its own, so *)
(* not between the walk and the doorbell; and no lock of the handler.      *)
LEMMA AllocatorStep ==
  ASSUME IInv, NEW c \in CPUs,
         \/ \E z \in ZoneSet : ZoneLock(c, z) \/ ZoneUnlock(c, z)
         \/ \E l \in Lists : TakeBlock(c, l) \/ \E b \in Blocks : PutBlock(c, l, b)
  PROVE  IInv'
<1> USE DEF IInv
<1>1. UNCHANGED <<handler, shared>>
  BY DEF ZoneLock, ZoneUnlock, TakeBlock, PutBlock
<1>2. lists' \in [Lists -> Seq(Blocks)]
  <2>1. CASE \E z \in ZoneSet : ZoneLock(c, z) \/ ZoneUnlock(c, z)
    BY <2>1 DEF ZoneLock, ZoneUnlock, TypeOK
  <2>2. CASE \E l \in Lists : TakeBlock(c, l)
    BY <2>2, WithoutIsSeq DEF TakeBlock, TypeOK
  <2>3. ASSUME NEW l \in Lists, NEW b \in Blocks, PutBlock(c, l, b)
        PROVE  lists' \in [Lists -> Seq(Blocks)]
    <3>1. <<b>> \o lists[l] \in Seq(Blocks) /\ lists[l] \o <<b>> \in Seq(Blocks)
      BY DEF TypeOK
    <3> QED BY <2>3, <3>1 DEF PutBlock, TypeOK
  <2> QED BY <2>1, <2>2, <2>3
<1>3. /\ owner' \in [ZoneSet -> CPUs \cup {HANDLER, NOBODY}]
      /\ \A z \in ZoneSet : owner'[z] = HANDLER <=> owner[z] = HANDLER
  BY OwnersAssumption DEF ZoneLock, ZoneUnlock, TakeBlock, PutBlock, TypeOK
<1>4. hpc \in {"scan", "write", "doorbell"} => UNCHANGED lists
  <2> SUFFICES ASSUME hpc \in {"scan", "write", "doorbell"}
               PROVE  UNCHANGED lists
    OBVIOUS
  <2>1. \A z \in ZoneSet : owner[z] # c
    BY OwnsAll, OwnersAssumption
  <2>2. \A l \in Lists : ZoneOf[l] \in ZoneSet
    BY ListsAssumption
  <2> QED BY <2>1, <2>2 DEF ZoneLock, ZoneUnlock, TakeBlock, PutBlock
<1>5. TypeOK'
  BY <1>1, <1>2, <1>3 DEF TypeOK, handler, shared
<1>6. OwnsFirst' /\ LocksCounted'
  BY <1>1, <1>3, ZonesAreSeq DEF OwnsFirst, LocksCounted, handler
<1>7. EntriesFree' /\ ScannedRecorded' /\ MessageIsBuffer'
  BY <1>1, <1>4 DEF EntriesFree, EntryIsFree, ScannedRecorded, ListRecorded,
     MessageIsBuffer, handler, shared
<1> QED BY <1>5, <1>6, <1>7

(* The handler before and after the report: it holds no lock. *)
LEMMA OutsideStep ==
  ASSUME IInv,
         \/ \E c \in CPUs : MigrationStart(c)
         \/ AllocArrays \/ AllocArraysFails \/ FreeArrays
  PROVE  IInv'
<1> USE DEF IInv
<1> DEFINE Done ==
      /\ k = 0 /\ k' = 0 /\ UNCHANGED <<owner, message, report>>
      /\ lists' \in [Lists -> Seq(Blocks)] /\ memory' \in Blocks \cup {NULL}
      /\ hcpu' \in CPUs \cup {NULL} /\ pos' \in 0 .. Len(ScanOrder)
      /\ migration_buffer' \in Seq(Entry) /\ reports' \in 0 .. MaxReports
      /\ hpc' \in {"alloc", "lock", "oops", "idle"}
      /\ hpc' \in {"alloc", "lock"} => migration_buffer' = <<>> /\ pos' = 0
<1>2. ASSUME NEW c \in CPUs, MigrationStart(c) PROVE Done
  BY <1>2, ScanOrderAssumption, BoundsAssumption
  DEF MigrationStart, LocksCounted, TypeOK, allocator
<1>3. ASSUME AllocArrays PROVE Done
  <2>1. lists' \in [Lists -> Seq(Blocks)] /\ memory' \in Blocks \cup {NULL}
    <3>1. CASE UNCHANGED <<lists, memory>>
      BY <3>1 DEF TypeOK
    <3>2. ASSUME NEW l \in Lists, lists[l] # <<>>, memory' = Head(lists[l]),
                 lists' = [lists EXCEPT ![l] = Tail(lists[l])]
          PROVE  lists' \in [Lists -> Seq(Blocks)] /\ memory' \in Blocks
      <4>1. lists[l] \in Seq(Blocks)
        BY DEF TypeOK
      <4>2. Head(lists[l]) \in Blocks /\ Tail(lists[l]) \in Seq(Blocks)
        BY <3>2, <4>1
      <4> QED BY <3>2, <4>2 DEF TypeOK
    <3> QED BY <1>3, <3>1, <3>2 DEF AllocArrays
  <2>2. /\ hpc = "alloc" /\ hpc' = "lock"
        /\ UNCHANGED <<owner, hcpu, k, pos, migration_buffer, message, report,
                       reports>>
    BY <1>3 DEF AllocArrays, shared
  <2>3. k = 0 /\ migration_buffer = <<>> /\ pos = 0
    BY <2>2 DEF LocksCounted, ScannedRecorded
  <2> QED BY <2>1, <2>2, <2>3 DEF TypeOK
<1>4. ASSUME AllocArraysFails PROVE Done
  BY <1>4
  DEF AllocArraysFails, LocksCounted, TypeOK, allocator, shared
<1>5. ASSUME FreeArrays PROVE Done
  <2>1. lists' \in [Lists -> Seq(Blocks)]
    <3>1. ASSUME NEW l \in Lists, memory # NULL,
                 lists' = [lists EXCEPT ![l] = <<memory>> \o lists[l]]
          PROVE  lists' \in [Lists -> Seq(Blocks)]
      <4>1. lists[l] \in Seq(Blocks) /\ memory \in Blocks
        BY <3>1 DEF TypeOK
      <4>2. <<memory>> \o lists[l] \in Seq(Blocks)
        BY <4>1
      <4> QED BY <3>1, <4>2 DEF TypeOK
    <3> QED BY <1>5, <3>1 DEF FreeArrays, TypeOK
  <2>2. /\ hpc = "kfree" /\ hpc' = "idle" /\ memory' = NULL /\ hcpu' = NULL
        /\ UNCHANGED <<owner, k, pos, migration_buffer, message, report, reports>>
    BY <1>5, ThenOrder DEF FreeArrays, shared
  <2>3. k = 0
    BY <2>2 DEF LocksCounted
  <2> QED BY <2>1, <2>2, <2>3 DEF TypeOK
<1>6. Done
  BY <1>2, <1>3, <1>4, <1>5
<1> HIDE DEF Done
<1>7. TypeOK'
  BY <1>6, ZonesAreSeq DEF Done, TypeOK, HandlerPcs
<1>8. OwnsFirst' /\ LocksCounted'
  BY <1>6, ZonesAreSeq DEF Done, OwnsFirst, LocksCounted
<1>9. EntriesFree' /\ ScannedRecorded' /\ MessageIsBuffer'
  BY <1>6 DEF Done, EntriesFree, ScannedRecorded, MessageIsBuffer
<1> QED BY <1>7, <1>8, <1>9

(* Each zone lock taken is the next one; with the last the walk starts,    *)
(* over an empty buffer.                                                   *)
LEMMA LockStep ==
  ASSUME IInv, LockZone
  PROVE  IInv'
<1> USE DEF IInv
<1>1. /\ hpc = "lock" /\ k < Len(Zones) /\ k' = k + 1
      /\ k + 1 \in 1 .. Len(Zones)
      /\ hpc' \in {"overrun", "lock", "scan"}
      /\ hpc' = "lock" => k' # Len(Zones)
      /\ hpc' = "scan" => k' = Len(Zones)
      /\ owner' = [owner EXCEPT ![Zones[k + 1]] = HANDLER]
      /\ UNCHANGED <<lists, hcpu, pos, memory, shared>>
  BY ZonesAreSeq DEF LockZone, LastZone, TypeOK
<1>2. TypeOK'
  <2>1. owner' \in [ZoneSet -> CPUs \cup {HANDLER, NOBODY}]
    BY <1>1, ZonesAreSeq DEF TypeOK
  <2>2. hpc' \in HandlerPcs /\ k' \in 0 .. Len(Zones)
    BY <1>1 DEF HandlerPcs
  <2> QED BY <1>1, <2>1, <2>2 DEF TypeOK, shared
<1>3. OwnsFirst'
  <2>1. \A i \in 1 .. Len(Zones) : Zones[i] = Zones[k + 1] => i = k + 1
    BY <1>1, ZonesAssumption
  <2>2. \A i \in 1 .. Len(Zones) :
          owner'[Zones[i]] = HANDLER <=> owner[Zones[i]] = HANDLER \/ i = k + 1
    BY <1>1, <2>1, ZonesAreSeq DEF TypeOK
  <2>3. \A i \in 1 .. Len(Zones) : i <= k + 1 <=> i <= k \/ i = k + 1
    BY DEF TypeOK
  <2> QED BY <1>1, <2>2, <2>3 DEF OwnsFirst
<1>4. LocksCounted'
  <2>1. hpc' = "lock" => k' < Len(Zones)
    BY <1>1, ZonesAreSeq
  <2> QED BY <1>1, <2>1 DEF LocksCounted
<1>5. migration_buffer' = <<>> /\ pos' = 0 /\ hpc' \notin {"write", "doorbell"}
  BY <1>1 DEF ScannedRecorded, shared
<1>6. EntriesFree' /\ ScannedRecorded' /\ MessageIsBuffer'
  BY <1>5 DEF EntriesFree, ScannedRecorded, MessageIsBuffer
<1> QED BY <1>2, <1>3, <1>4, <1>6

(* Walking the next list adds its blocks, and drops none of the others. *)
LEMMA ScanStep ==
  ASSUME IInv, ScanList
  PROVE  IInv'
<1> USE DEF IInv
<1>1. /\ hpc = "scan" /\ hpc' \in {"scan", "overrun"} /\ pos' = pos + 1
      /\ pos \in 0 .. Len(ScanOrder) /\ pos + 1 \in 1 .. Len(ScanOrder)
      /\ UNCHANGED <<lists, owner, hcpu, k, memory, message, report, reports>>
  BY ScanOrderAssumption DEF ScanList, LastList, TypeOK, allocator
<1>2. PICK l \in Lists : l = ScanOrder[pos + 1]
  BY <1>1, ScanOrderAssumption
<1> DEFINE new == IF l \in Managed THEN Recorded(l, lists[l]) ELSE <<>>
<1>3. migration_buffer \in Seq(Entry) /\ new \in Seq(Entry)
  BY RecordedEntries DEF TypeOK
<1>4. migration_buffer' = migration_buffer \o new
  BY <1>2, <1>3 DEF ScanList
<1>5. \A i \in DOMAIN migration_buffer' :
        \/ i \in DOMAIN migration_buffer /\ migration_buffer'[i] = migration_buffer[i]
        \/ \E j \in DOMAIN new : migration_buffer'[i] = new[j]
  <2> SUFFICES ASSUME NEW i \in 1 .. Len(migration_buffer) + Len(new)
               PROVE  \/ /\ i \in 1 .. Len(migration_buffer)
                         /\ migration_buffer'[i] = migration_buffer[i]
                      \/ \E j \in 1 .. Len(new) : migration_buffer'[i] = new[j]
    BY <1>3, <1>4
  <2>1. CASE i <= Len(migration_buffer)
    BY <1>3, <1>4, <2>1
  <2>2. CASE i > Len(migration_buffer)
    <3>1. i - Len(migration_buffer) \in 1 .. Len(new)
      BY <1>3, <2>2
    <3>2. migration_buffer'[i] = new[i - Len(migration_buffer)]
      BY <1>3, <1>4, <2>2
    <3> QED BY <3>1, <3>2
  <2> QED BY <1>3, <2>1, <2>2
<1>6. /\ Range(migration_buffer) \subseteq Range(migration_buffer')
      /\ Range(new) \subseteq Range(migration_buffer')
  <2>1. \A i \in 1 .. Len(migration_buffer) :
          /\ i \in 1 .. Len(migration_buffer')
          /\ migration_buffer'[i] = migration_buffer[i]
    BY <1>3, <1>4
  <2>2. \A j \in 1 .. Len(new) :
          /\ Len(migration_buffer) + j \in 1 .. Len(migration_buffer')
          /\ migration_buffer'[Len(migration_buffer) + j] = new[j]
    BY <1>3, <1>4
  <2>3. /\ DOMAIN migration_buffer = 1 .. Len(migration_buffer)
        /\ DOMAIN new = 1 .. Len(new)
        /\ DOMAIN migration_buffer' = 1 .. Len(migration_buffer')
    BY <1>3, <1>4
  <2> QED BY <2>1, <2>2, <2>3 DEF Range
<1>7. \A j \in DOMAIN new : EntryIsFree(new[j])
  BY RecordedEntries DEF EntryIsFree, TypeOK
<1>8. ListRecorded(l)'
  <2> SUFFICES ASSUME l \in Managed, NEW i \in 2 .. Len(lists[l])
               PROVE  [page |-> lists[l][i], list |-> l] \in Range(migration_buffer')
    BY <1>1 DEF ListRecorded
  <2>1. /\ new[i - 1] = [page |-> lists[l][i], list |-> l]
        /\ i - 1 \in DOMAIN new
    BY RecordedEntries DEF TypeOK
  <2> QED BY <1>6, <2>1 DEF Range
<1> HIDE DEF new
<1>9. TypeOK'
  <2>1. migration_buffer' \in Seq(Entry)
    BY <1>3, <1>4
  <2> QED BY <1>1, <2>1 DEF TypeOK, HandlerPcs
<1>10. OwnsFirst' /\ LocksCounted'
  BY <1>1 DEF OwnsFirst, LocksCounted
<1>11. EntriesFree'
  BY <1>1, <1>5, <1>7 DEF EntriesFree, EntryIsFree
<1>12. ScannedRecorded'
  <2>1. \A n \in 1 .. pos : ListRecorded(ScanOrder[n])'
    BY <1>1, <1>6 DEF ScannedRecorded, ListRecorded
  <2>2. \A n \in 1 .. Len(ScanOrder) : n = pos + 1 => ListRecorded(ScanOrder[n])'
    BY <1>2, <1>8
  <2>3. \A n \in 1 .. pos' : n \in 1 .. pos \/ n = pos + 1
    BY <1>1
  <2> QED BY <1>1, <2>1, <2>2, <2>3 DEF ScannedRecorded
<1>13. MessageIsBuffer'
  BY <1>1 DEF MessageIsBuffer
<1> QED BY <1>9, <1>10, <1>11, <1>12, <1>13

(* The end of the walk, the message and the doorbell, under all locks. *)
LEMMA TellStep ==
  ASSUME IInv, ScanEnds \/ WriteMessage \/ RingDoorbell
  PROVE  IInv'
<1> USE DEF IInv
<1>1. /\ \/ hpc = "scan" /\ hpc' = "write" /\ pos = Len(ScanOrder)
         \/ hpc = "write" /\ hpc' = "doorbell" /\ message' = Len(migration_buffer)
         \/ hpc = "doorbell" /\ hpc' = "unlock"
      /\ UNCHANGED <<lists, owner, hcpu, k, pos, memory, migration_buffer, reports>>
  BY ThenOrder DEF ScanEnds, WriteMessage, RingDoorbell, LastList, allocator, shared
<1>2. message' \in Nat
  BY DEF ScanEnds, WriteMessage, RingDoorbell, TypeOK, shared
<1>3. report' \in Seq(Entry) \cup {NONE}
  <2>1. CASE RingDoorbell
    <3>1. message = Len(migration_buffer) /\ migration_buffer \in Seq(Entry)
      BY <2>1 DEF RingDoorbell, MessageIsBuffer, TypeOK
    <3>2. SubSeq(migration_buffer, 1, message) \in Seq(Entry)
      BY <3>1
    <3> QED BY <2>1, <3>2 DEF RingDoorbell
  <2>2. CASE ~RingDoorbell
    BY <2>2 DEF ScanEnds, WriteMessage, TypeOK, shared
  <2> QED BY <2>1, <2>2
<1>4. TypeOK'
  BY <1>1, <1>2, <1>3 DEF TypeOK, HandlerPcs
<1>5. OwnsFirst' /\ LocksCounted'
  BY <1>1, ZonesAreSeq DEF OwnsFirst, LocksCounted
<1>6. EntriesFree'
  BY <1>1 DEF EntriesFree, EntryIsFree
<1>7. ScannedRecorded'
  BY <1>1 DEF ScannedRecorded, ListRecorded
<1>8. MessageIsBuffer'
  BY <1>1 DEF MessageIsBuffer
<1> QED BY <1>4, <1>5, <1>6, <1>7, <1>8

(* The last zone locked is the next unlocked, down to the first. *)
LEMMA UnlockStep ==
  ASSUME IInv, UnlockZone
  PROVE  IInv'
<1> USE DEF IInv
<1>1. /\ hpc = "unlock" /\ k \in 1 .. Len(Zones) /\ k' = k - 1
      /\ hpc' = IF k = 1 THEN "kfree" ELSE "unlock"
      /\ owner' = [owner EXCEPT ![Zones[k]] = NOBODY]
      /\ UNCHANGED <<lists, hcpu, pos, memory, shared>>
  BY ThenOrder, ZonesAreSeq DEF UnlockZone, FirstZone, LocksCounted, TypeOK
<1>2. TypeOK'
  <2>1. owner' \in [ZoneSet -> CPUs \cup {HANDLER, NOBODY}]
    BY <1>1, ZonesAreSeq DEF TypeOK
  <2>2. hpc' \in HandlerPcs /\ k' \in 0 .. Len(Zones)
    BY <1>1, ZonesAreSeq DEF HandlerPcs
  <2> QED BY <1>1, <2>1, <2>2 DEF TypeOK, shared
<1>3. OwnsFirst'
  <2>1. \A i \in 1 .. Len(Zones) : Zones[i] = Zones[k] => i = k
    BY <1>1, ZonesAssumption
  <2>2. \A i \in 1 .. Len(Zones) :
          owner'[Zones[i]] = HANDLER <=> owner[Zones[i]] = HANDLER /\ i # k
    BY <1>1, <2>1, ZonesAreSeq, OwnersAssumption DEF TypeOK
  <2>3. \A i \in 1 .. Len(Zones) : i <= k - 1 <=> i <= k /\ i # k
    BY <1>1
  <2> QED BY <1>1, <2>2, <2>3 DEF OwnsFirst
<1>4. LocksCounted'
  BY <1>1 DEF LocksCounted
<1>5. EntriesFree' /\ ScannedRecorded' /\ MessageIsBuffer'
  BY <1>1 DEF EntriesFree, ScannedRecorded, MessageIsBuffer
<1> QED BY <1>2, <1>3, <1>4, <1>5

LEMMA NextIInv == IInv /\ [Next]_vars => IInv'
<1> SUFFICES ASSUME IInv, [Next]_vars PROVE IInv'
  OBVIOUS
<1>1. CASE UNCHANGED vars
  BY <1>1 DEF IInv, TypeOK, OwnsFirst, LocksCounted, EntriesFree, EntryIsFree,
     ScannedRecorded, ListRecorded, MessageIsBuffer, vars, allocator, handler,
     shared
<1>2. CASE Handler
  BY <1>2, OutsideStep, LockStep, ScanStep, TellStep, UnlockStep DEF Handler
<1>3. CASE \E c \in CPUs :
             \/ MigrationStart(c)
             \/ \E z \in ZoneSet : ZoneLock(c, z) \/ ZoneUnlock(c, z)
             \/ \E l \in Lists :
                  TakeBlock(c, l) \/ \E b \in Blocks : PutBlock(c, l, b)
  BY <1>3, AllocatorStep, OutsideStep
<1> QED BY <1>1, <1>2, <1>3 DEF Next

-----------------------------------------------------------------------------
LEMMA IInvImplies ==
  IInv => TypeOK /\ ReportedAreFree /\ OnlyFirstMissing /\ NoLockLeft
<1> SUFFICES ASSUME IInv
             PROVE  ReportedAreFree /\ OnlyFirstMissing /\ NoLockLeft
  BY DEF IInv
<1> USE DEF IInv
<1>1. ReportedAreFree
  BY DEF ReportedAreFree, EntriesFree, EntryIsFree
<1>2. OnlyFirstMissing
  <2> SUFFICES ASSUME hpc \in {"write", "doorbell"}, NEW l \in Managed
               PROVE  ListRecorded(l)
    BY DEF OnlyFirstMissing, ListRecorded
  <2>1. PICK n \in 1 .. Len(ScanOrder) : ScanOrder[n] = l
    BY ListsAssumption, ScanOrderAssumption
  <2> QED BY <2>1 DEF ScannedRecorded
<1>3. NoLockLeft
  <2> SUFFICES ASSUME hpc \in {"idle", "alloc", "kfree"}, NEW z \in ZoneSet
               PROVE  owner[z] # HANDLER
    BY DEF NoLockLeft
  <2>1. PICK i \in 1 .. Len(Zones) : Zones[i] = z
    BY ZonesAreSeq
  <2>2. k = 0 /\ ~(i <= 0)
    BY ZonesAreSeq DEF LocksCounted
  <2> QED BY <2>1, <2>2 DEF OwnsFirst
<1> QED BY <1>1, <1>2, <1>3

(* For every number of zones, lists, blocks and CPUs: what the doorbell    *)
(* tells the device is still free, and all there is but the first block of *)
(* each list; and write_guest_free_pages() leaves no zone locked.          *)
THEOREM ReportSafety ==
  Spec => [](TypeOK /\ ReportedAreFree /\ OnlyFirstMissing /\ NoLockLeft)
<1>1. IInv /\ [Next]_vars => IInv'
  BY NextIInv
<1> QED BY <1>1, InitIInv, IInvImplies, PTL DEF Spec
=============================================================================
