--------------------------- MODULE FreePageReport ---------------------------
(***************************************************************************)
(* write_guest_free_pages() (shared/driver/driver.c), called by the        *)
(* handler of FIRST_ROUND_MIGRATION_START, against the page allocator of   *)
(* the guest kernel that the other CPUs are using.                         *)
(*                                                                         *)
(* The handler locks every populated zone, walks their free lists into     *)
(* migration_buffer, tells the device, and unlocks.  The allocator takes   *)
(* one zone lock at a time, with interrupts disabled.                      *)
(***************************************************************************)
EXTENDS FreeLists, FiniteSets

CONSTANTS
  Zones,      \* the populated zones, a sequence in the order of the loops
  ZoneOf,     \* the zone of each list
  BlockZone,  \* the zone of each block
  BootLists,  \* the free lists when the driver is loaded
  Managed,    \* the lists of zones with managed pages
  CPUs,
  HANDLER, NOBODY, \* owners of a zone lock, besides the CPUs
  NULL, NONE,
  NrZones,       \* nr_zones of the last online node, whatever it has populated
  BufferEntries, \* pairs of words that fit in migration_buffer
  MayFail,    \* may kmalloc(GFP_ATOMIC) fail?
  MaxReports  \* bound: reports asked for in a behaviour

ZoneSet == Range(Zones)

ASSUME ZonesAssumption ==
  /\ Zones \in Seq(ZoneSet) /\ Len(Zones) > 0
  /\ \A i, j \in 1 .. Len(Zones) : Zones[i] = Zones[j] => i = j
ASSUME ListsAssumption ==
  /\ ZoneOf \in [Lists -> ZoneSet] /\ BlockZone \in [Blocks -> ZoneSet]
  /\ Managed \subseteq Lists
(* Every block is on at most one list, of its own zone. *)
WellFormed(ls) ==
  /\ \A l \in Lists : \A i \in DOMAIN ls[l] : BlockZone[ls[l][i]] = ZoneOf[l]
  /\ \A l, m \in Lists : \A i \in DOMAIN ls[l], j \in DOMAIN ls[m] :
       ls[l][i] = ls[m][j] => l = m /\ i = j

ASSUME BootListsAssumption ==
  BootLists \in [Lists -> Seq(Blocks)] /\ WellFormed(BootLists)
ASSUME OwnersAssumption == HANDLER # NOBODY /\ {HANDLER, NOBODY} \cap CPUs = {}
ASSUME BoundsAssumption == MayFail \in BOOLEAN /\ MaxReports \in Nat
ASSUME SizesAssumption == NrZones \in Nat /\ BufferEntries \in Nat
ASSUME NullAssumption == NULL \notin Blocks

VARIABLES
  \* The page allocator.
  lists, \* the blocks on each free list
  owner, \* who holds the lock of each zone
  \* The handler: its program counter, its CPU, and its locals.
  hpc, hcpu,
  k,        \* zones locked
  pos,      \* lists scanned
  memory,   \* the block kmalloc() took for zones[] and flags[], or NULL
  \* What it shares with the host.
  migration_buffer, \* the entries written, [0 .. count - 1] in pairs
  message,  \* the number of entries in the message in the device buffer
  report,   \* history: what the last doorbell offered to the device
  reports   \* reports asked for so far

allocator == <<lists, owner>>
handler   == <<hpc, hcpu, k, pos, memory>>
shared    == <<migration_buffer, message, report, reports>>
vars      == <<allocator, handler, shared>>

HandlerPcs == {"idle", "alloc", "lock", "scan", "write", "doorbell",
               "unlock", "kfree", "oops", "overrun"}

TypeOK ==
  /\ lists \in [Lists -> Seq(Blocks)]
  /\ owner \in [ZoneSet -> CPUs \cup {HANDLER, NOBODY}]
  /\ hpc \in HandlerPcs
  /\ hcpu \in CPUs \cup {NULL}
  /\ k \in 0 .. Len(Zones)
  /\ pos \in 0 .. Len(ScanOrder)
  /\ memory \in Blocks \cup {NULL}
  /\ migration_buffer \in Seq(Entry)
  /\ message \in Nat
  /\ report \in Seq(Entry) \cup {NONE}
  /\ reports \in 0 .. MaxReports

Init ==
  /\ lists = BootLists
  /\ owner = [z \in ZoneSet |-> NOBODY]
  /\ hpc = "idle" /\ hcpu = NULL /\ k = 0 /\ pos = 0 /\ memory = NULL
  /\ migration_buffer = <<>> /\ message = 0 /\ report = NONE /\ reports = 0

-----------------------------------------------------------------------------
(***************************************************************************)
(* The page allocator on the other CPUs (external: the guest kernel).      *)
(***************************************************************************)
Without(blocks, b) ==
  LET at == CHOOSE i \in DOMAIN blocks : blocks[i] = b
  IN SubSeq(blocks, 1, at - 1) \o SubSeq(blocks, at + 1, Len(blocks))

HoldsNoLock(c) == \A z \in ZoneSet : owner[z] # c

(* A CPU whose handler is running runs nothing else. *)
Runs(c) == c # hcpu

ZoneLock(c, z) ==
  /\ Runs(c) /\ HoldsNoLock(c)
  /\ owner[z] = NOBODY
  /\ owner' = [owner EXCEPT ![z] = c]
  /\ UNCHANGED <<lists, handler, shared>>

TakeBlock(c, l) ==
  /\ owner[ZoneOf[l]] = c
  /\ \E b \in Range(lists[l]) : lists' = [lists EXCEPT ![l] = Without(@, b)]
  /\ UNCHANGED <<owner, handler, shared>>

PutBlock(c, l, b) ==
  /\ owner[ZoneOf[l]] = c
  /\ BlockZone[b] = ZoneOf[l] /\ b \notin FreeBlocks(lists) \cup {memory}
  /\ \/ lists' = [lists EXCEPT ![l] = <<b>> \o @]
     \/ lists' = [lists EXCEPT ![l] = @ \o <<b>>]
  /\ UNCHANGED <<owner, handler, shared>>

ZoneUnlock(c, z) ==
  /\ owner[z] = c
  /\ owner' = [owner EXCEPT ![z] = NOBODY]
  /\ UNCHANGED <<lists, handler, shared>>

-----------------------------------------------------------------------------
(***************************************************************************)
(* The handler.  It interrupts a CPU that holds no zone lock, as these are *)
(* only held with interrupts disabled.                                     *)
(***************************************************************************)
MigrationStart(c) ==
  /\ hpc = "idle" /\ reports < MaxReports
  /\ HoldsNoLock(c)
  /\ hpc' = "alloc" /\ hcpu' = c /\ reports' = reports + 1
  /\ k' = 0 /\ pos' = 0 /\ migration_buffer' = <<>>
  /\ UNCHANGED <<allocator, memory, message, report>>

(* kmalloc() of flags[] and zones[], from the slab or from a free list. *)
AllocArrays ==
  /\ hpc = "alloc" /\ hpc' = "lock"
  /\ \/ UNCHANGED <<lists, memory>>
     \/ \E l \in Lists :
          /\ owner[ZoneOf[l]] = NOBODY /\ lists[l] # <<>>
          /\ memory' = Head(lists[l])
          /\ lists' = [lists EXCEPT ![l] = Tail(@)]
  /\ UNCHANGED <<owner, hcpu, k, pos, shared>>

(* The result is not checked: the first zones[k] = zone faults. *)
AllocArraysFails ==
  /\ MayFail
  /\ hpc = "alloc" /\ hpc' = "oops"
  /\ UNCHANGED <<allocator, hcpu, k, pos, memory, shared>>

LastZone_OneShort == Len(Zones) - 1
LastZone == Len(Zones)

(* Of each zone the loop stores the address in zones[k] before it locks.   *)
(* What lies behind an array is not the handler's: once it has written     *)
(* there ("overrun") nothing is said of the guest any more.                *)
LockZone ==
  /\ hpc = "lock" /\ k < LastZone
  /\ owner[Zones[k + 1]] = NOBODY
  /\ owner' = [owner EXCEPT ![Zones[k + 1]] = HANDLER]
  /\ k' = k + 1
  /\ hpc' = IF k' > NrZones THEN "overrun"
            ELSE IF k' = LastZone THEN "scan" ELSE "lock"
  /\ UNCHANGED <<lists, hcpu, pos, memory, shared>>

(* The order of what follows the walk over the lists. *)
Then_UnlockFirst(pc) ==
  CASE pc = "scan" -> "unlock" [] pc = "unlock" -> "write"
    [] pc = "write" -> "doorbell" [] pc = "doorbell" -> "kfree"
Then_FreeFirst(pc) ==
  CASE pc = "scan" -> "write" [] pc = "write" -> "doorbell"
    [] pc = "doorbell" -> "kfree" [] pc = "unlock" -> "idle"
    [] pc = "kfree" -> "unlock"
Then(pc) ==
  CASE pc = "scan"     -> "write"
    [] pc = "write"    -> "doorbell"
    [] pc = "doorbell" -> "unlock"
    [] pc = "unlock"   -> "kfree"
    [] pc = "kfree"    -> "idle"

LastList_OneShort == Len(ScanOrder) - 1
LastList == Len(ScanOrder)

(* One list of the innermost loop; a zone without managed pages is skipped. *)
ScanList ==
  /\ hpc = "scan" /\ pos < LastList
  /\ LET l == ScanOrder[pos + 1] IN
       migration_buffer' = IF l \in Managed
                           THEN migration_buffer \o Recorded(l, lists[l])
                           ELSE migration_buffer
  /\ hpc' = IF Len(migration_buffer') > BufferEntries THEN "overrun" ELSE "scan"
  /\ pos' = pos + 1
  /\ UNCHANGED <<allocator, hcpu, k, memory, message, report, reports>>

ScanEnds ==
  /\ hpc = "scan" /\ pos = LastList
  /\ hpc' = Then("scan")
  /\ UNCHANGED <<allocator, hcpu, k, pos, memory, shared>>

(* The header, the address of migration_buffer, and count / 2. *)
WriteMessage ==
  /\ hpc = "write" /\ hpc' = Then("write")
  /\ message' = Len(migration_buffer)
  /\ UNCHANGED <<allocator, hcpu, k, pos, memory, migration_buffer, report,
                 reports>>

(* The device reads the entries the message announces. *)
RingDoorbell ==
  /\ hpc = "doorbell" /\ hpc' = Then("doorbell")
  /\ report' = SubSeq(migration_buffer, 1, message)
  /\ UNCHANGED <<allocator, hcpu, k, pos, memory, migration_buffer, message,
                 reports>>

FirstZone_OneShort == 2
FirstZone == 1

UnlockZone ==
  /\ hpc = "unlock"
  /\ owner' = [owner EXCEPT ![Zones[k]] = NOBODY]
  /\ k' = k - 1
  /\ hpc' = IF k = FirstZone THEN Then("unlock") ELSE "unlock"
  /\ UNCHANGED <<lists, hcpu, pos, memory, shared>>

(* kfree() of the arrays; a block taken for them goes back to a free list. *)
FreeArrays ==
  /\ hpc = "kfree" /\ hpc' = Then("kfree")
  /\ \/ memory = NULL /\ UNCHANGED lists
     \/ /\ memory # NULL
        /\ owner[BlockZone[memory]] = NOBODY
        /\ \E l \in Lists :
             /\ ZoneOf[l] = BlockZone[memory]
             /\ lists' = [lists EXCEPT ![l] = <<memory>> \o @]
  /\ memory' = NULL
  /\ hcpu' = NULL
  /\ UNCHANGED <<owner, k, pos, shared>>

Handler ==
  \/ AllocArrays \/ AllocArraysFails \/ LockZone \/ ScanList \/ ScanEnds
  \/ WriteMessage \/ RingDoorbell \/ UnlockZone \/ FreeArrays

-----------------------------------------------------------------------------
Next ==
  \/ \E c \in CPUs :
       \/ MigrationStart(c)
       \/ \E z \in ZoneSet : ZoneLock(c, z) \/ ZoneUnlock(c, z)
       \/ \E l \in Lists : TakeBlock(c, l) \/ \E b \in Blocks : PutBlock(c, l, b)
  \/ Handler

(* Spin locks are queued, so a waiting handler gets each lock in its turn, *)
(* and what runs under a zone lock comes to an end.                        *)
Fairness ==
  /\ SF_vars(Handler)
  /\ \A c \in CPUs, z \in ZoneSet : WF_vars(ZoneUnlock(c, z))

Spec == Init /\ [][Next]_vars /\ Fairness

-----------------------------------------------------------------------------
(***************************************************************************)
(* Properties.                                                             *)
(***************************************************************************)

(* When the device learns of the report, every block in it is still free,  *)
(* on the list of the order reported with it: the host may leave its pages *)
(* out of the migration.                                                   *)
ReportedAreFree ==
  hpc \in {"write", "doorbell"} =>
    \A i \in DOMAIN migration_buffer :
      LET e == migration_buffer[i]
      IN e.page # HEAD => e.page \in Range(lists[e.list])

(* Of every list all blocks but the first are reported. *)
OnlyFirstMissing ==
  hpc \in {"write", "doorbell"} =>
    \A l \in Managed : \A i \in 2 .. Len(lists[l]) :
      [page |-> lists[l][i], list |-> l] \in Range(migration_buffer)

(* Outside the report the handler holds no zone lock: the page allocator   *)
(* it calls itself, before and after, cannot wait for it.                  *)
NoLockLeft ==
  hpc \in {"idle", "alloc", "kfree"} => \A z \in ZoneSet : owner[z] # HANDLER

(* Neither zones[], flags[] nor migration_buffer is written past its end,  *)
(* unless it is too small for the guest as it is: with one element for     *)
(* each populated zone and one entry for each free block they suffice,     *)
(* whatever the allocator did while the handler was about to walk.         *)
RoomForReport ==
  hpc = "overrun" => \/ Len(Zones) > NrZones
                     \/ Cardinality(FreeBlocks(lists)) > BufferEntries

(* "GET GUEST FREE PAGES": the report lists the free blocks of the guest.  *)
ReportsFreePages ==
  hpc = "doorbell" =>
    {e.page : e \in Range(migration_buffer)} = FreeBlocks(lists)

(* A migration start is answered, unless the handler ran out of memory or  *)
(* overran one of its arrays.                                              *)
ReportCompletes == hpc = "alloc" ~> hpc \in {"idle", "oops", "overrun"}

(* The report is an atomic picture of all zones. *)
Atomic == INSTANCE AtomicReport
            WITH pending <- hpc \notin {"idle", "unlock", "kfree", "oops",
                                        "overrun"}
ImplementsAtomicReport == Atomic!Spec
=============================================================================
