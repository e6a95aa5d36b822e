------------------------- MODULE ReportPictureProofs -------------------------
(***************************************************************************)
(* The report of free pages is a picture of all lists at one instant, and  *)
(* no larger than the free memory it pictures, for every number of zones,  *)
(* lists, blocks and CPUs.                                                 *)
(***************************************************************************)
EXTENDS FreePageReportProofs, FiniteSetTheorems, NaturalsInduction,
        WellFoundedInduction

-----------------------------------------------------------------------------
(***************************************************************************)
(* The inductive invariant, on top of IInv.                                *)
(***************************************************************************)

(* A block is in one place: on one list, or in the handler's use.          *)
NothingTwice == WellFormed(lists) /\ memory \notin FreeBlocks(lists)

(* The blocks on the managed ones of the first n lists of the scan.        *)
BlocksUpTo(ls, n) ==
  UNION {Range(ls[ScanOrder[m]]) : m \in {i \in 1 .. n : ScanOrder[i] \in Managed}}

(* The walk has written one entry for each of them.                        *)
EntryPerBlock ==
  /\ IsFiniteSet(BlocksUpTo(lists, pos))
  /\ Cardinality(BlocksUpTo(lists, pos)) = Len(migration_buffer)

BufferCounted ==
  /\ hpc = "scan" => EntryPerBlock
  /\ hpc = "overrun" =>
       \/ Len(Zones) > NrZones
       \/ /\ k = Len(Zones) /\ EntryPerBlock
          /\ Len(migration_buffer) > BufferEntries

RoomInv == NothingTwice /\ BufferCounted

-----------------------------------------------------------------------------
(***************************************************************************)
(* Free lists.                                                             *)
(***************************************************************************)

LEMMA RangeOfSeq ==
  ASSUME NEW blocks \in Seq(Blocks)
  PROVE  /\ DOMAIN blocks = 1 .. Len(blocks) /\ Len(blocks) \in Nat
         /\ Range(blocks) \subseteq Blocks
         /\ \A b : b \in Range(blocks) <=> \E i \in 1 .. Len(blocks) : blocks[i] = b
BY DEF Range

LEMMA FreeBlocksAre ==
  ASSUME NEW ls \in [Lists -> Seq(Blocks)], NEW b
  PROVE  b \in FreeBlocks(ls) <=>
           \E l \in Lists : \E i \in 1 .. Len(ls[l]) : ls[l][i] = b
BY RangeOfSeq DEF FreeBlocks

(* A block on a list is on one list, in one place.                         *)
LEMMA WellFormedLists ==
  ASSUME NEW ls \in [Lists -> Seq(Blocks)], WellFormed(ls)
  PROVE  /\ \A m \in Lists : \A i \in 1 .. Len(ls[m]) :
              BlockZone[ls[m][i]] = ZoneOf[m] /\ ls[m][i] \in FreeBlocks(ls)
         /\ \A m, n \in Lists :
              \A i \in 1 .. Len(ls[m]), j \in 1 .. Len(ls[n]) :
                ls[m][i] = ls[n][j] => m = n /\ i = j
<1>1. \A l \in Lists : DOMAIN ls[l] = 1 .. Len(ls[l])
  OBVIOUS
<1>2. \A m \in Lists : \A i \in 1 .. Len(ls[m]) : ls[m][i] \in FreeBlocks(ls)
  BY FreeBlocksAre
<1> QED BY <1>1, <1>2 DEF WellFormed

LEMMA WellFormedIf ==
  ASSUME NEW ls \in [Lists -> Seq(Blocks)],
         \A m \in Lists : \A i \in 1 .. Len(ls[m]) :
           BlockZone[ls[m][i]] = ZoneOf[m],
         \A m, n \in Lists : \A i \in 1 .. Len(ls[m]), j \in 1 .. Len(ls[n]) :
           ls[m][i] = ls[n][j] => m = n /\ i = j
  PROVE  WellFormed(ls)
<1>1. \A l \in Lists : DOMAIN ls[l] = 1 .. Len(ls[l])
  OBVIOUS
<1> QED BY <1>1 DEF WellFormed

(* The block at position `at' is gone, the others are in their order.      *)
Removed(rest, blocks, at) ==
  /\ at \in 1 .. Len(blocks) /\ Len(rest) = Len(blocks) - 1
  /\ \A i \in 1 .. Len(rest) : rest[i] = blocks[IF i < at THEN i ELSE i + 1]

(* A block taken from a list is on none.                                   *)
LEMMA TakenIsOff ==
  ASSUME NEW ls \in [Lists -> Seq(Blocks)], WellFormed(ls), NEW l \in Lists,
         NEW at \in Nat, NEW rest \in Seq(Blocks), Removed(rest, ls[l], at)
  PROVE  /\ WellFormed([ls EXCEPT ![l] = rest])
         /\ FreeBlocks([ls EXCEPT ![l] = rest]) \subseteq FreeBlocks(ls)
         /\ ls[l][at] \notin FreeBlocks([ls EXCEPT ![l] = rest])
<1>0. PICK left : left = [ls EXCEPT ![l] = rest]
  OBVIOUS
<1> DEFINE was(m, i) == IF m = l /\ i >= at THEN i + 1 ELSE i
<1>1. left \in [Lists -> Seq(Blocks)] /\ left[l] = rest
  BY <1>0
<1>2. \A m \in Lists : m # l => left[m] = ls[m]
  BY <1>0
<1>3. Len(ls[l]) \in Nat
  OBVIOUS
<1>9. /\ \A m \in Lists : \A i \in 1 .. Len(ls[m]) :
           BlockZone[ls[m][i]] = ZoneOf[m] /\ ls[m][i] \in FreeBlocks(ls)
      /\ at \in 1 .. Len(ls[l])
  BY WellFormedLists DEF Removed
<1>10. \A m, n \in Lists : \A i \in 1 .. Len(ls[m]), j \in 1 .. Len(ls[n]) :
         ls[m][i] = ls[n][j] => m = n /\ i = j
  BY WellFormedLists
<1>4. ASSUME NEW m \in Lists, NEW i \in 1 .. Len(left[m])
      PROVE  was(m, i) \in 1 .. Len(ls[m]) /\ left[m][i] = ls[m][was(m, i)]
  <2>1. CASE m = l
    BY <1>1, <1>3, <2>1 DEF Removed
  <2>2. CASE m # l
    BY <1>2, <2>2
  <2> QED BY <2>1, <2>2
<1>5. ASSUME NEW m \in Lists, NEW n \in Lists,
             NEW i \in 1 .. Len(left[m]), NEW j \in 1 .. Len(left[n]),
             left[m][i] = left[n][j]
      PROVE  m = n /\ i = j
  <2>1. m = n /\ was(m, i) = was(n, j)
    <3> HIDE DEF was
    <3>1. was(m, i) \in 1 .. Len(ls[m]) /\ left[m][i] = ls[m][was(m, i)]
      BY <1>4
    <3>2. was(n, j) \in 1 .. Len(ls[n]) /\ left[n][j] = ls[n][was(n, j)]
      BY <1>4
    <3>3. ls[m][was(m, i)] = ls[n][was(n, j)]
      BY <1>5, <3>1, <3>2
    <3> QED BY <1>10, <3>1, <3>2, <3>3
  <2> QED BY <2>1
<1>6. ASSUME NEW m \in Lists, NEW i \in 1 .. Len(left[m])
      PROVE  /\ BlockZone[left[m][i]] = ZoneOf[m]
             /\ left[m][i] \in FreeBlocks(ls)
             /\ left[m][i] # ls[l][at]
  <2>1. m = l => was(m, i) # at
    BY <1>1, <1>3, <1>9 DEF Removed
  <2> HIDE DEF was
  <2>2. was(m, i) \in 1 .. Len(ls[m]) /\ left[m][i] = ls[m][was(m, i)]
    BY <1>4
  <2> QED BY <1>9, <1>10, <2>1, <2>2
<1>7. WellFormed(left)
  <2>1. \A m \in Lists : \A i \in 1 .. Len(left[m]) :
          BlockZone[left[m][i]] = ZoneOf[m]
    BY <1>6
  <2>2. \A m, n \in Lists :
          \A i \in 1 .. Len(left[m]), j \in 1 .. Len(left[n]) :
            left[m][i] = left[n][j] => m = n /\ i = j
    BY <1>5
  <2> QED BY <1>1, <2>1, <2>2, WellFormedIf
<1>8. ASSUME NEW b \in FreeBlocks(left)
      PROVE  b \in FreeBlocks(ls) /\ b # ls[l][at]
  <2>1. PICK m \in Lists : \E i \in 1 .. Len(left[m]) : left[m][i] = b
    BY <1>1, FreeBlocksAre
  <2> QED BY <1>6, <2>1
<1> QED BY <1>0, <1>7, <1>8

(* Position `at' is new, the others are as before, but for a shift.        *)
Inserted(longer, blocks, b, at, shift) ==
  /\ Len(longer) = Len(blocks) + 1
  /\ at \in 1 .. Len(longer) /\ longer[at] = b
  /\ \A i \in 1 .. Len(longer) :
       i # at => i - shift \in 1 .. Len(blocks) /\ longer[i] = blocks[i - shift]

(* A block that is on no list may be put on one of its zone,               *)
LEMMA PutAtIsOn ==
  ASSUME NEW ls \in [Lists -> Seq(Blocks)], WellFormed(ls), NEW l \in Lists,
         NEW b \in Blocks, b \notin FreeBlocks(ls), BlockZone[b] = ZoneOf[l],
         NEW longer \in Seq(Blocks), NEW at \in Nat, NEW shift \in {0, 1},
         Inserted(longer, ls[l], b, at, shift)
  PROVE  /\ WellFormed([ls EXCEPT ![l] = longer])
         /\ FreeBlocks([ls EXCEPT ![l] = longer]) \subseteq FreeBlocks(ls) \cup {b}
<1>0. PICK more : more = [ls EXCEPT ![l] = longer]
  OBVIOUS
<1>3. more \in [Lists -> Seq(Blocks)] /\ more[l] = longer
  BY <1>0
<1>4. \A m \in Lists : m # l => more[m] = ls[m]
  BY <1>0
<1> DEFINE isNew(m, i) == m = l /\ i = at
           was(m, i) == IF m = l THEN i - shift ELSE i
<1>5. ASSUME NEW m \in Lists, NEW i \in 1 .. Len(more[m])
      PROVE  \/ isNew(m, i) /\ more[m][i] = b
             \/ /\ ~isNew(m, i) /\ was(m, i) \in 1 .. Len(ls[m])
                /\ more[m][i] = ls[m][was(m, i)]
  <2>1. CASE m = l
    BY <1>3, <2>1 DEF Inserted
  <2>2. CASE m # l
    BY <1>4, <2>2
  <2> QED BY <2>1, <2>2
<1>1. \A m \in Lists : \A i \in 1 .. Len(ls[m]) :
        BlockZone[ls[m][i]] = ZoneOf[m] /\ ls[m][i] \in FreeBlocks(ls)
  BY WellFormedLists
<1>2. \A m, n \in Lists : \A i \in 1 .. Len(ls[m]), j \in 1 .. Len(ls[n]) :
        ls[m][i] = ls[n][j] => m = n /\ i = j
  BY WellFormedLists
<1>6. \A m \in Lists : \A i \in 1 .. Len(ls[m]) : ls[m][i] # b
  BY <1>1
<1>7. ASSUME NEW m \in Lists, NEW n \in Lists,
             NEW i \in 1 .. Len(more[m]), NEW j \in 1 .. Len(more[n]),
             more[m][i] = more[n][j]
      PROVE  m = n /\ i = j
  <2>1. \/ isNew(m, i) /\ isNew(n, j)
        \/ m = n /\ was(m, i) = was(n, j)
    <3> HIDE DEF was, isNew
    <3>1. \/ isNew(m, i) /\ more[m][i] = b
          \/ /\ ~isNew(m, i) /\ was(m, i) \in 1 .. Len(ls[m])
             /\ more[m][i] = ls[m][was(m, i)]
      BY <1>5
    <3>2. \/ isNew(n, j) /\ more[n][j] = b
          \/ /\ ~isNew(n, j) /\ was(n, j) \in 1 .. Len(ls[n])
             /\ more[n][j] = ls[n][was(n, j)]
      BY <1>5
    <3>3. CASE isNew(m, i)
      <4>1. more[n][j] = b
        BY <1>7, <3>1, <3>3
      <4>2. isNew(n, j)
        BY <1>6, <3>2, <4>1
      <4> QED BY <3>3, <4>2
    <3>4. CASE ~isNew(m, i)
      <4>1. /\ was(m, i) \in 1 .. Len(ls[m]) /\ was(n, j) \in 1 .. Len(ls[n])
            /\ ls[m][was(m, i)] = ls[n][was(n, j)]
        BY <1>6, <1>7, <3>1, <3>2, <3>4
      <4> QED BY <1>2, <4>1
    <3> QED BY <3>3, <3>4
  <2> QED BY <2>1
<1>8. ASSUME NEW m \in Lists, NEW i \in 1 .. Len(more[m])
      PROVE  /\ BlockZone[more[m][i]] = ZoneOf[m]
             /\ more[m][i] \in FreeBlocks(ls) \cup {b}
  <2>1. CASE isNew(m, i)
    BY <1>3, <2>1 DEF Inserted
  <2>2. CASE ~isNew(m, i)
    <3> HIDE DEF was, isNew
    <3>1. was(m, i) \in 1 .. Len(ls[m]) /\ more[m][i] = ls[m][was(m, i)]
      BY <1>5, <2>2
    <3> QED BY <1>1, <3>1
  <2> QED BY <2>1, <2>2
<1>9. WellFormed(more)
  <2>1. \A m \in Lists : \A i \in 1 .. Len(more[m]) :
          BlockZone[more[m][i]] = ZoneOf[m]
    BY <1>8
  <2>2. \A m, n \in Lists :
          \A i \in 1 .. Len(more[m]), j \in 1 .. Len(more[n]) :
            more[m][i] = more[n][j] => m = n /\ i = j
    BY <1>7
  <2> QED BY <1>3, <2>1, <2>2, WellFormedIf
<1>10. ASSUME NEW c \in FreeBlocks(more) PROVE c \in FreeBlocks(ls) \cup {b}
  <2>1. PICK m \in Lists : \E i \in 1 .. Len(more[m]) : more[m][i] = c
    BY <1>3, FreeBlocksAre
  <2> QED BY <1>8, <2>1
<1> QED BY <1>0, <1>9, <1>10

(* at either end of it.                                                    *)
LEMMA PutIsOn ==
  ASSUME NEW ls \in [Lists -> Seq(Blocks)], WellFormed(ls), NEW l \in Lists,
         NEW b \in Blocks, b \notin FreeBlocks(ls), BlockZone[b] = ZoneOf[l],
         NEW longer, longer = <<b>> \o ls[l] \/ longer = ls[l] \o <<b>>
  PROVE  /\ WellFormed([ls EXCEPT ![l] = longer])
         /\ FreeBlocks([ls EXCEPT ![l] = longer]) \subseteq FreeBlocks(ls) \cup {b}
<1>1. Len(ls[l]) \in Nat /\ ls[l] \in Seq(Blocks)
  OBVIOUS
<1>2. longer \in Seq(Blocks)
  <2>1. <<b>> \o ls[l] \in Seq(Blocks) /\ ls[l] \o <<b>> \in Seq(Blocks)
    BY <1>1
  <2> QED BY <2>1
<1>3. CASE longer = <<b>> \o ls[l]
  <2>1. Inserted(longer, ls[l], b, 1, 1)
    BY <1>1, <1>3 DEF Inserted
  <2> QED BY <1>2, <2>1, PutAtIsOn
<1>4. CASE longer = ls[l] \o <<b>>
  <2>1. PICK last \in Nat : last = Len(ls[l]) + 1
    BY <1>1
  <2>2. longer[last] = b /\ Len(longer) = last
    BY <1>1, <1>4, <2>1
  <2>3. \A i \in 1 .. Len(longer) :
          i # last => i \in 1 .. Len(ls[l]) /\ longer[i] = ls[l][i]
    BY <1>1, <1>4, <2>1
  <2>4. Inserted(longer, ls[l], b, last, 0)
    BY <1>1, <2>1, <2>2, <2>3 DEF Inserted
  <2> QED BY <1>2, <2>4, PutAtIsOn
<1> QED BY <1>3, <1>4

LEMMA WithoutIsRemoved ==
  ASSUME NEW blocks \in Seq(Blocks), NEW b \in Range(blocks)
  PROVE  \E at \in Nat :
           blocks[at] = b /\ Removed(Without(blocks, b), blocks, at)
<1> DEFINE at == CHOOSE i \in DOMAIN blocks : blocks[i] = b
<1>1. at \in 1 .. Len(blocks) /\ blocks[at] = b /\ Len(blocks) \in Nat
  BY DEF Range
<1> HIDE DEF at
<1> DEFINE before == SubSeq(blocks, 1, at - 1)
           after  == SubSeq(blocks, at + 1, Len(blocks))
<1>2. /\ before \in Seq(Blocks) /\ Len(before) = at - 1
      /\ \A i \in 1 .. at - 1 : before[i] = blocks[i]
  BY <1>1
<1>3. /\ after \in Seq(Blocks) /\ Len(after) = Len(blocks) - at
      /\ \A i \in 1 .. Len(blocks) - at : after[i] = blocks[at + i]
  BY <1>1
<1> DEFINE rest == before \o after
<1>4. Without(blocks, b) = rest
  BY DEF Without, at
<1> HIDE DEF before, after
<1>5. Len(rest) = Len(blocks) - 1
  <2>1. before \in Seq(Blocks) /\ after \in Seq(Blocks)
    BY <1>2, <1>3
  <2>2. Len(rest) = Len(before) + Len(after)
    BY <2>1
  <2>3. Len(before) = at - 1 /\ Len(after) = Len(blocks) - at
    BY <1>2, <1>3
  <2> QED BY <1>1, <2>2, <2>3
<1>6. ASSUME NEW i \in 1 .. Len(rest)
      PROVE  rest[i] = blocks[IF i < at THEN i ELSE i + 1]
  <2>1. i \in 1 .. Len(before) + Len(after)
    BY <1>1, <1>2, <1>3, <1>5
  <2>2. CASE i < at
    <3>1. i \in 1 .. Len(before)
      BY <1>1, <1>2, <2>2
    <3>2. rest[i] = before[i]
      BY <1>2, <1>3, <3>1
    <3> QED BY <1>2, <2>2, <3>1, <3>2
  <2>3. CASE i >= at
    <3>1. i - Len(before) \in 1 .. Len(after) /\ i > Len(before)
      BY <1>1, <1>2, <1>3, <2>1, <2>3
    <3>2. rest[i] = after[i - Len(before)]
      BY <1>2, <1>3, <2>1, <3>1
    <3>3. after[i - Len(before)] = blocks[at + (i - Len(before))]
      BY <1>3, <3>1
    <3>4. at + (i - Len(before)) = i + 1
      BY <1>1, <1>2
    <3> QED BY <1>1, <2>3, <3>2, <3>3, <3>4
  <2> QED BY <1>1, <2>2, <2>3
<1> HIDE DEF rest
<1>7. Removed(rest, blocks, at)
  BY <1>1, <1>5, <1>6 DEF Removed
<1> QED BY <1>1, <1>4, <1>7

LEMMA TailIsRemoved ==
  ASSUME NEW blocks \in Seq(Blocks), blocks # <<>>
  PROVE  /\ blocks[1] = Head(blocks) /\ Tail(blocks) \in Seq(Blocks)
         /\ Removed(Tail(blocks), blocks, 1)
BY DEF Removed

-----------------------------------------------------------------------------
LEMMA ScansLists ==
  ASSUME NEW n \in 1 .. Len(ScanOrder)
  PROVE  ScanOrder[n] \in Lists
BY ScanOrderAssumption

LEMMA NextNothingTwice ==
  ASSUME IInv, NothingTwice, [Next]_vars
  PROVE  NothingTwice'
<1> USE DEF NothingTwice
<1>0. lists \in [Lists -> Seq(Blocks)]
  BY DEF IInv, TypeOK
<1>1. ASSUME NEW c \in CPUs, NEW l \in Lists, TakeBlock(c, l)
      PROVE  NothingTwice'
  <2>1. PICK b \in Range(lists[l]) : lists' = [lists EXCEPT ![l] = Without(lists[l], b)]
    BY <1>1 DEF TakeBlock
  <2>2. lists[l] \in Seq(Blocks) /\ Without(lists[l], b) \in Seq(Blocks)
    BY <1>0, WithoutIsSeq
  <2>3. PICK at \in Nat : Removed(Without(lists[l], b), lists[l], at)
    BY <2>2, WithoutIsRemoved
  <2>4. WellFormed(lists') /\ FreeBlocks(lists') \subseteq FreeBlocks(lists)
    BY <1>0, <2>1, <2>2, <2>3, TakenIsOff
  <2>5. memory' = memory
    BY <1>1 DEF TakeBlock, handler
  <2> QED BY <2>4, <2>5
<1>2. ASSUME NEW c \in CPUs, NEW l \in Lists, NEW b \in Blocks, PutBlock(c, l, b)
      PROVE  NothingTwice'
  <2>1. PICK longer :
          /\ longer = <<b>> \o lists[l] \/ longer = lists[l] \o <<b>>
          /\ lists' = [lists EXCEPT ![l] = longer]
    BY <1>2 DEF PutBlock
  <2>2. /\ b \notin FreeBlocks(lists) /\ b # memory /\ memory' = memory
        /\ BlockZone[b] = ZoneOf[l]
    BY <1>2 DEF PutBlock, handler
  <2>3. WellFormed(lists') /\ FreeBlocks(lists') \subseteq FreeBlocks(lists) \cup {b}
    BY <1>0, <2>1, <2>2, PutIsOn
  <2> QED BY <2>2, <2>3
<1>3. CASE AllocArrays
  <2>1. CASE UNCHANGED <<lists, memory>>
    BY <2>1
  <2>2. ASSUME NEW l \in Lists, lists[l] # <<>>, memory' = Head(lists[l]),
               lists' = [lists EXCEPT ![l] = Tail(lists[l])]
        PROVE  NothingTwice'
    <3>1. /\ Tail(lists[l]) \in Seq(Blocks) /\ memory' = lists[l][1]
          /\ Removed(Tail(lists[l]), lists[l], 1)
      BY <1>0, <2>2, TailIsRemoved
    <3>2. /\ WellFormed([lists EXCEPT ![l] = Tail(lists[l])])
          /\ lists[l][1] \notin FreeBlocks([lists EXCEPT ![l] = Tail(lists[l])])
      BY <1>0, <3>1, TakenIsOff
    <3> QED BY <2>2, <3>1, <3>2
  <2> QED BY <1>3, <2>1, <2>2 DEF AllocArrays
<1>4. CASE FreeArrays
  <2>1. NULL \notin FreeBlocks(lists) /\ memory' = NULL
    <3>1. \A l \in Lists : Range(lists[l]) \subseteq Blocks
      BY <1>0, RangeOfSeq
    <3> QED BY <1>4, <3>1, NullAssumption DEF FreeArrays, FreeBlocks
  <2>2. CASE UNCHANGED lists
    BY <2>1, <2>2
  <2>3. ASSUME NEW l \in Lists, memory # NULL, ZoneOf[l] = BlockZone[memory],
               lists' = [lists EXCEPT ![l] = <<memory>> \o lists[l]]
        PROVE  NothingTwice'
    <3>1. memory \in Blocks
      BY <2>3 DEF IInv, TypeOK
    <3>2. PICK longer : longer = <<memory>> \o lists[l]
      OBVIOUS
    <3>3. /\ WellFormed([lists EXCEPT ![l] = longer])
          /\ FreeBlocks([lists EXCEPT ![l] = longer])
               \subseteq FreeBlocks(lists) \cup {memory}
      BY <1>0, <2>3, <3>1, <3>2, PutIsOn
    <3> QED BY <2>1, <2>3, <3>1, <3>2, <3>3, NullAssumption
  <2> QED BY <1>4, <2>2, <2>3 DEF FreeArrays
<1>5. CASE UNCHANGED <<lists, memory>>
  BY <1>5
<1> QED
  BY <1>1, <1>2, <1>3, <1>4, <1>5
  DEF Next, Handler, MigrationStart, ZoneLock, ZoneUnlock, AllocArraysFails,
      LockZone, ScanList, ScanEnds, WriteMessage, RingDoorbell, UnlockZone,
      vars, allocator, handler, shared

-----------------------------------------------------------------------------
(***************************************************************************)
(* Counting the entries.                                                   *)
(***************************************************************************)

LEMMA RangeCounted ==
  ASSUME NEW blocks \in Seq(Blocks),
         \A i, j \in 1 .. Len(blocks) : blocks[i] = blocks[j] => i = j
  PROVE  IsFiniteSet(Range(blocks)) /\ Cardinality(Range(blocks)) = Len(blocks)
<1>1. Len(blocks) \in Nat /\ DOMAIN blocks = 1 .. Len(blocks)
  OBVIOUS
<1>2. blocks \in Bijection(1 .. Len(blocks), Range(blocks))
  BY <1>1 DEF Bijection, Injection, IsInjective, Surjection, Range
<1>3. ExistsBijection(1 .. Len(blocks), Range(blocks))
  BY <1>2 DEF ExistsBijection
<1> QED BY <1>1, <1>3, FS_NatBijection, FS_CountingElements

LEMMA FreeBlocksFinite ==
  ASSUME NEW ls \in [Lists -> Seq(Blocks)], WellFormed(ls)
  PROVE  IsFiniteSet(FreeBlocks(ls))
<1>1. \A l \in Lists : IsFiniteSet(Range(ls[l]))
  BY WellFormedLists, RangeCounted
<1>2. IsFiniteSet(Lists)
  <2>1. Len(ScanOrder) \in Nat /\ ScanOrder \in [1 .. Len(ScanOrder) -> Lists]
    BY ScanOrderAssumption
  <2>2. ExistsSurjection(1 .. Len(ScanOrder), Lists)
    BY <2>1, ScanOrderAssumption DEF ExistsSurjection, Surjection
  <2> QED BY <2>1, <2>2, FS_NatSurjection
<1> DEFINE Ranges == {Range(ls[l]) : l \in Lists}
           f == [l \in Lists |-> Range(ls[l])]
<1>3. IsFiniteSet(Ranges)
  <2>1. f \in Surjection(Lists, Ranges)
    BY DEF Surjection
  <2> HIDE DEF f, Ranges
  <2> QED BY <1>2, <2>1, FS_Surjection
<1> QED BY <1>1, <1>3, FS_UNION DEF FreeBlocks

(* The walk over one more list.                                            *)
LEMMA OneListMore ==
  ASSUME NEW ls \in [Lists -> Seq(Blocks)], WellFormed(ls),
         NEW n \in Nat, n + 1 \in 1 .. Len(ScanOrder),
         NEW l \in Lists, l = ScanOrder[n + 1]
  PROVE  /\ l \notin Managed => BlocksUpTo(ls, n + 1) = BlocksUpTo(ls, n)
         /\ l \in Managed =>
              BlocksUpTo(ls, n + 1) = BlocksUpTo(ls, n) \cup Range(ls[l])
         /\ BlocksUpTo(ls, n) \cap Range(ls[l]) = {}
         /\ BlocksUpTo(ls, n) \subseteq FreeBlocks(ls)
<1>1. \A m \in 1 .. n + 1 : m \in 1 .. n \/ m = n + 1
  OBVIOUS
<1>2. \A m \in 1 .. n : m \in 1 .. n + 1 /\ m # n + 1
  OBVIOUS
<1>3. \A m \in 1 .. n : ScanOrder[m] \in Lists /\ ScanOrder[m] # l
  <2> SUFFICES ASSUME NEW m \in 1 .. n
               PROVE  ScanOrder[m] \in Lists /\ ScanOrder[m] # l
    OBVIOUS
  <2>1. m \in 1 .. Len(ScanOrder) /\ m # n + 1
    BY ScanOrderAssumption
  <2>2. ScanOrder[m] # ScanOrder[n + 1]
    BY <2>1, ScanOrderAssumption
  <2> QED BY <2>1, <2>2, ScanOrderAssumption
<1>4. \A m \in Lists : m # l => Range(ls[m]) \cap Range(ls[l]) = {}
  <2> SUFFICES ASSUME NEW m \in Lists, m # l,
                      NEW b \in Range(ls[m]), b \in Range(ls[l])
               PROVE  FALSE
    OBVIOUS
  <2>1. /\ \E i \in 1 .. Len(ls[m]) : ls[m][i] = b
        /\ \E i \in 1 .. Len(ls[l]) : ls[l][i] = b
    BY RangeOfSeq
  <2> QED BY <2>1, WellFormedLists
<1>5. BlocksUpTo(ls, n) \cap Range(ls[l]) = {}
  BY <1>3, <1>4 DEF BlocksUpTo
<1>6. BlocksUpTo(ls, n) \subseteq FreeBlocks(ls)
  BY <1>3 DEF BlocksUpTo, FreeBlocks
<1>7. CASE l \in Managed
  BY <1>1, <1>2, <1>5, <1>6, <1>7 DEF BlocksUpTo
<1>8. CASE l \notin Managed
  BY <1>1, <1>2, <1>5, <1>6, <1>8 DEF BlocksUpTo
<1> QED BY <1>7, <1>8

LEMMA ScanKeepsCount ==
  ASSUME IInv, NothingTwice, EntryPerBlock, ScanList
  PROVE  EntryPerBlock'
<1>1. /\ lists \in [Lists -> Seq(Blocks)] /\ WellFormed(lists)
      /\ pos \in Nat /\ pos + 1 \in 1 .. Len(ScanOrder)
      /\ lists' = lists /\ pos' = pos + 1
      /\ migration_buffer \in Seq(Entry)
  <2>1. pos \in 0 .. Len(ScanOrder) /\ pos < Len(ScanOrder)
    BY DEF ScanList, LastList, IInv, TypeOK
  <2>2. pos \in Nat /\ pos + 1 \in 1 .. Len(ScanOrder)
    BY <2>1, ScanOrderAssumption
  <2>3. lists' = lists /\ pos' = pos + 1
    BY DEF ScanList, allocator
  <2> QED BY <2>2, <2>3 DEF IInv, TypeOK, NothingTwice
<1>2. PICK l \in Lists : l = ScanOrder[pos + 1]
  BY <1>1, ScansLists
<1>3. CASE l \in Managed
  <2>1. /\ BlocksUpTo(lists, pos') = BlocksUpTo(lists, pos) \cup Range(lists[l])
        /\ BlocksUpTo(lists, pos) \cap Range(lists[l]) = {}
    BY <1>1, <1>2, <1>3, OneListMore
  <2>2. lists[l] \in Seq(Blocks) /\ Len(lists[l]) \in Nat
    BY <1>1
  <2>3. /\ IsFiniteSet(Range(lists[l]))
        /\ Cardinality(Range(lists[l])) = Len(lists[l])
    BY <1>1, <2>2, WellFormedLists, RangeCounted
  <2>4. Cardinality(BlocksUpTo(lists, pos) \cap Range(lists[l])) = 0
    BY <2>1, FS_EmptySet
  <2>5. /\ IsFiniteSet(BlocksUpTo(lists, pos'))
        /\ Cardinality(BlocksUpTo(lists, pos'))
             = Cardinality(BlocksUpTo(lists, pos)) + Len(lists[l])
    <3> DEFINE S == BlocksUpTo(lists, pos)
               T == Range(lists[l])
    <3>1. IsFiniteSet(S) /\ IsFiniteSet(T)
      BY <2>3 DEF EntryPerBlock
    <3>2. Cardinality(S) \in Nat /\ Cardinality(T) \in Nat
      BY <3>1, FS_CardinalityType
    <3>3. /\ IsFiniteSet(S \cup T)
          /\ Cardinality(S \cup T)
               = Cardinality(S) + Cardinality(T) - Cardinality(S \cap T)
      <4> HIDE DEF S, T
      <4> QED BY <3>1, FS_Union
    <3> QED BY <2>1, <2>2, <2>3, <2>4, <3>2, <3>3
  <2>6. Len(migration_buffer') = Len(migration_buffer) + Len(lists[l])
    <3>1. migration_buffer' = migration_buffer \o Recorded(l, lists[l])
      BY <1>2, <1>3 DEF ScanList
    <3>2. /\ Recorded(l, lists[l]) \in Seq(Entry)
          /\ Len(Recorded(l, lists[l])) = Len(lists[l])
      BY <2>2, RecordedEntries
    <3>3. PICK new \in Seq(Entry) : new = Recorded(l, lists[l])
      BY <3>2
    <3>4. Len(migration_buffer \o new) = Len(migration_buffer) + Len(new)
      BY <1>1
    <3> QED BY <3>1, <3>2, <3>3, <3>4
  <2> QED BY <1>1, <2>5, <2>6 DEF EntryPerBlock
<1>4. CASE l \notin Managed
  <2>1. BlocksUpTo(lists, pos') = BlocksUpTo(lists, pos)
    BY <1>1, <1>2, <1>4, OneListMore
  <2>2. migration_buffer' = migration_buffer
    BY <1>2, <1>4 DEF ScanList
  <2> QED BY <1>1, <2>1, <2>2 DEF EntryPerBlock
<1> QED BY <1>3, <1>4

(* Only the handler changes a list while it holds all zones.               *)
LEMMA HeldIsStill ==
  ASSUME IInv, k = Len(Zones), NEW c \in CPUs, NEW l \in Lists,
         TakeBlock(c, l) \/ \E b \in Blocks : PutBlock(c, l, b)
  PROVE  FALSE
<1>1. owner[ZoneOf[l]] = c /\ ZoneOf[l] \in ZoneSet
  BY ListsAssumption DEF TakeBlock, PutBlock
<1>2. PICK i \in 1 .. Len(Zones) : Zones[i] = ZoneOf[l]
  BY <1>1, ZonesAreSeq
<1>3. owner[Zones[i]] = HANDLER
  BY <1>2, ZonesAreSeq DEF IInv, OwnsFirst
<1> QED BY <1>1, <1>2, <1>3, OwnersAssumption

LEMMA NextBufferCounted ==
  ASSUME IInv, NothingTwice, BufferCounted, [Next]_vars
  PROVE  BufferCounted'
<1>0. /\ hpc = "scan" => k = Len(Zones)
      /\ hpc \in {"alloc", "lock"} => migration_buffer = <<>> /\ pos = 0
  BY DEF IInv, LocksCounted, ScannedRecorded
<1>1. CASE UNCHANGED <<hpc, k, pos, migration_buffer, lists>>
  BY <1>1 DEF BufferCounted, EntryPerBlock
<1>2. ASSUME NEW c \in CPUs, NEW l \in Lists,
             TakeBlock(c, l) \/ \E b \in Blocks : PutBlock(c, l, b)
      PROVE  BufferCounted'
  <2>1. k # Len(Zones)
    BY <1>2, HeldIsStill
  <2>2. UNCHANGED <<hpc, k>>
    BY <1>2 DEF TakeBlock, PutBlock, handler
  <2> QED BY <1>0, <2>1, <2>2 DEF BufferCounted
<1>3. CASE LockZone
  <2>1. /\ hpc = "lock" /\ pos' = pos /\ migration_buffer' = migration_buffer
        /\ hpc' \in {"overrun", "lock", "scan"}
        /\ hpc' = "overrun" => k' > NrZones
        /\ k' = k + 1 /\ k < Len(Zones) /\ k \in 0 .. Len(Zones)
    BY <1>3 DEF LockZone, LastZone, IInv, TypeOK, shared
  <2>2. hpc' = "overrun" => Len(Zones) > NrZones
    BY <2>1, ZonesAreSeq, SizesAssumption
  <2>3. EntryPerBlock'
    <3>1. pos' = 0 /\ migration_buffer' = <<>>
      BY <1>0, <2>1
    <3>2. BlocksUpTo(lists', 0) = {}
      BY DEF BlocksUpTo
    <3> QED BY <3>1, <3>2, FS_EmptySet DEF EntryPerBlock
  <2> QED BY <2>1, <2>2, <2>3 DEF BufferCounted
<1>4. CASE ScanList
  <2>1. /\ hpc = "scan" /\ UNCHANGED k
        /\ hpc' = "overrun" => Len(migration_buffer') > BufferEntries
        /\ hpc' \in {"scan", "overrun"}
    BY <1>4 DEF ScanList
  <2>2. EntryPerBlock'
    BY <1>4, <2>1, ScanKeepsCount DEF BufferCounted
  <2> QED BY <1>0, <2>1, <2>2 DEF BufferCounted
<1>5. CASE hpc' \notin {"scan", "overrun"}
  BY <1>5 DEF BufferCounted
<1>6. \/ UNCHANGED <<hpc, k, pos, migration_buffer, lists>>
      \/ \E c \in CPUs, l \in Lists :
           TakeBlock(c, l) \/ \E b \in Blocks : PutBlock(c, l, b)
      \/ LockZone \/ ScanList \/ hpc' \notin {"scan", "overrun"}
  <2>1. CASE Handler
    BY <2>1, ThenOrder
    DEF Handler, AllocArrays, AllocArraysFails, ScanEnds, WriteMessage,
        RingDoorbell, UnlockZone, FreeArrays
  <2>2. CASE \E c \in CPUs : MigrationStart(c)
    BY <2>2 DEF MigrationStart
  <2>3. CASE \E c \in CPUs : \E z \in ZoneSet : ZoneLock(c, z) \/ ZoneUnlock(c, z)
    BY <2>3 DEF ZoneLock, ZoneUnlock, handler, shared
  <2>4. CASE UNCHANGED vars
    BY <2>4 DEF vars, allocator, handler, shared
  <2> QED BY <2>1, <2>2, <2>3, <2>4 DEF Next
<1> QED BY <1>1, <1>2, <1>3, <1>4, <1>5, <1>6

LEMMA RoomInvImplies ==
  ASSUME IInv, RoomInv
  PROVE  RoomForReport
<1> SUFFICES ASSUME hpc = "overrun", ~(Len(Zones) > NrZones)
             PROVE  Cardinality(FreeBlocks(lists)) > BufferEntries
  BY DEF RoomForReport
<1>1. EntryPerBlock /\ Len(migration_buffer) > BufferEntries
  BY DEF RoomInv, BufferCounted
<1>2. lists \in [Lists -> Seq(Blocks)] /\ pos \in 0 .. Len(ScanOrder)
  BY DEF IInv, TypeOK
<1>3. IsFiniteSet(FreeBlocks(lists))
  BY <1>2, FreeBlocksFinite DEF RoomInv, NothingTwice
<1>4. BlocksUpTo(lists, pos) \subseteq FreeBlocks(lists)
  <2>1. \A m \in 1 .. pos : ScanOrder[m] \in Lists
    BY <1>2, ScanOrderAssumption
  <2> QED BY <2>1 DEF BlocksUpTo, FreeBlocks
<1>5. /\ Cardinality(BlocksUpTo(lists, pos)) <= Cardinality(FreeBlocks(lists))
      /\ Cardinality(BlocksUpTo(lists, pos)) \in Nat
      /\ Cardinality(FreeBlocks(lists)) \in Nat
  BY <1>1, <1>3, <1>4, FS_Subset, FS_CardinalityType DEF EntryPerBlock
<1> QED BY <1>1, <1>5, SizesAssumption DEF EntryPerBlock

LEMMA InitRoomInv == Init => RoomInv
<1> SUFFICES ASSUME Init PROVE RoomInv
  OBVIOUS
<1>1. \A l \in Lists : Range(BootLists[l]) \subseteq Blocks
  BY BootListsAssumption, RangeOfSeq
<1> QED BY <1>1, BootListsAssumption, NullAssumption
        DEF Init, RoomInv, NothingTwice, BufferCounted, FreeBlocks

(* The arrays of write_guest_free_pages() are written past their ends only *)
(* in a guest with more populated zones than nr_zones or more free blocks  *)
(* than migration_buffer has room for, for every number of each.           *)
THEOREM ReportRoom == Spec => []RoomForReport
<1>1. IInv /\ [Next]_vars => IInv'
  BY NextIInv
<1>2. IInv /\ RoomInv /\ [Next]_vars => RoomInv'
  BY NextNothingTwice, NextBufferCounted DEF RoomInv
<1> QED BY <1>1, <1>2, InitIInv, InitRoomInv, RoomInvImplies, PTL DEF Spec

-----------------------------------------------------------------------------
(***************************************************************************)
(* The picture.                                                            *)
(***************************************************************************)

LEMMA LeastNat ==
  ASSUME NEW T \in SUBSET Nat, T # {}
  PROVE  \E x \in T : \A y \in T : x <= y
<1> DEFINE R == {ss \in Nat \X Nat : ss[1] < ss[2]}
<1>1. IsWellFoundedOn(OpToRel(<, Nat), Nat)
  BY NatLessThanWellFounded
<1>2. IsWellFoundedOn(R, Nat)
  BY <1>1 DEF OpToRel
<1>3. PICK x \in T : \A y \in T : ~(<<y, x>> \in R)
  <2> HIDE DEF R
  <2> QED BY <1>2, WFMin
<1>4. \A y \in T : ~(y < x)
  BY <1>3
<1> QED BY <1>4

(* What Records() says of its n-th value, given the one before.            *)
NextRecord(ls, scanned, n, before) ==
  IF n = 0 THEN <<>>
  ELSE IF ScanOrder[n] \in scanned
       THEN before \o Recorded(ScanOrder[n], ls[ScanOrder[n]])
       ELSE before
Record(f, n, ls, scanned) ==
  f = [i \in 0 .. n |-> NextRecord(ls, scanned, i, f[i - 1])]

LEMMA RecordExists ==
  ASSUME NEW ls, NEW scanned, NEW n \in Nat
  PROVE  \E f : Record(f, n, ls, scanned)
<1> DEFINE None == {m \in Nat : ~ \E f : Record(f, m, ls, scanned)}
<1> SUFFICES ASSUME None # {} PROVE FALSE
  OBVIOUS
<1>1. PICK m \in None : \A y \in None : m <= y
  BY LeastNat
<1>2. CASE m = 0
  <2> DEFINE f == [i \in 0 .. 0 |-> <<>>]
  <2>1. f = [i \in 0 .. 0 |-> NextRecord(ls, scanned, i, f[i - 1])]
    BY DEF NextRecord
  <2> QED BY <1>2, <2>1 DEF Record
<1>3. CASE m # 0
  <2>1. PICK f : Record(f, m - 1, ls, scanned)
    BY <1>1, <1>3
  <2> DEFINE g == [i \in 0 .. m |-> IF i < m THEN f[i]
                                    ELSE NextRecord(ls, scanned, m, f[m - 1])]
  <2>2. \A i \in 0 .. m - 1 :
          g[i] = f[i] /\ f[i] = NextRecord(ls, scanned, i, f[i - 1])
    BY <2>1 DEF Record
  <2> HIDE DEF g
  <2>3. ASSUME NEW i \in 0 .. m
        PROVE  g[i] = NextRecord(ls, scanned, i, g[i - 1])
    <3>1. CASE i = 0
      <4>1. i \in 0 .. m - 1
        BY <1>1, <1>3, <3>1
      <4> QED BY <2>2, <3>1, <4>1 DEF NextRecord
    <3>2. CASE i \in 1 .. m - 1
      <4>1. g[i] = NextRecord(ls, scanned, i, f[i - 1]) /\ i - 1 \in 0 .. m - 1
        BY <1>1, <2>2, <3>2
      <4> QED BY <2>2, <4>1
    <3>3. CASE i = m
      <4>1. g[i] = NextRecord(ls, scanned, i, f[i - 1]) /\ i - 1 \in 0 .. m - 1
        BY <1>1, <1>3, <3>3 DEF g
      <4> QED BY <2>2, <4>1
    <3> QED BY <3>1, <3>2, <3>3
  <2>4. g = [i \in 0 .. m |-> NextRecord(ls, scanned, i, g[i - 1])]
    BY <2>3 DEF g
  <2> QED BY <2>4 DEF Record
<1> QED BY <1>2, <1>3

LEMMA RecordsDef ==
  ASSUME NEW ls, NEW scanned
  PROVE  \A n \in 0 .. Len(ScanOrder) :
           Records(ls, scanned)[n] =
             NextRecord(ls, scanned, n, Records(ls, scanned)[n - 1])
<1>1. \E f : Record(f, Len(ScanOrder), ls, scanned)
  BY RecordExists, ScanOrderAssumption
<1>2. Record(Records(ls, scanned), Len(ScanOrder), ls, scanned)
  BY <1>1 DEF Records, Record, NextRecord
<1> QED BY <1>2 DEF Record

(* From the first lock to the doorbell the buffer is the picture of the    *)
(* lists walked so far, as they are.                                       *)
BufferIsPicture ==
  hpc \in {"scan", "write", "doorbell"} =>
    migration_buffer = Records(lists, Managed)[pos]

LEMMA NextBufferIsPicture ==
  ASSUME IInv, BufferIsPicture, [Next]_vars
  PROVE  BufferIsPicture'
<1>0. /\ hpc \in {"scan", "write", "doorbell"} => k = Len(Zones)
      /\ hpc \in {"alloc", "lock"} => migration_buffer = <<>> /\ pos = 0
  BY DEF IInv, LocksCounted, ScannedRecorded
<1>1. CASE UNCHANGED <<hpc, pos, migration_buffer, lists>>
  BY <1>1 DEF BufferIsPicture
<1>2. ASSUME NEW c \in CPUs, NEW l \in Lists,
             TakeBlock(c, l) \/ \E b \in Blocks : PutBlock(c, l, b)
      PROVE  BufferIsPicture'
  <2>1. k # Len(Zones)
    BY <1>2, HeldIsStill
  <2>2. UNCHANGED hpc
    BY <1>2 DEF TakeBlock, PutBlock, handler
  <2> QED BY <1>0, <2>1, <2>2 DEF BufferIsPicture
<1>3. CASE LockZone
  <2>1. /\ hpc = "lock" /\ pos' = pos /\ migration_buffer' = migration_buffer
        /\ hpc' \notin {"write", "doorbell"}
    BY <1>3 DEF LockZone, shared
  <2>2. pos' = 0 /\ migration_buffer' = <<>>
    BY <1>0, <2>1
  <2>3. 0 \in 0 .. Len(ScanOrder)
    BY ScanOrderAssumption
  <2>4. Records(lists', Managed)[0] = <<>>
    BY <2>3, RecordsDef DEF NextRecord
  <2> QED BY <2>2, <2>4 DEF BufferIsPicture
<1>4. CASE ScanList
  <2>1. /\ hpc = "scan" /\ lists' = lists /\ pos' = pos + 1
        /\ LET l == ScanOrder[pos + 1]
           IN migration_buffer' = IF l \in Managed
                                  THEN migration_buffer \o Recorded(l, lists[l])
                                  ELSE migration_buffer
    BY <1>4 DEF ScanList, allocator
  <2>2. pos \in 0 .. Len(ScanOrder) /\ pos + 1 \in 0 .. Len(ScanOrder)
    BY <1>4, ScanOrderAssumption DEF ScanList, LastList, IInv, TypeOK
  <2>3. migration_buffer = Records(lists, Managed)[pos]
    BY <2>1 DEF BufferIsPicture
  <2>4. Records(lists, Managed)[pos + 1]
          = NextRecord(lists, Managed, pos + 1, Records(lists, Managed)[pos])
    <3>1. pos + 1 - 1 = pos
      BY <2>2
    <3> QED BY <2>2, <3>1, RecordsDef
  <2>5. migration_buffer' = Records(lists, Managed)[pos + 1]
    BY <2>1, <2>2, <2>3, <2>4 DEF NextRecord
  <2> QED BY <2>1, <2>5 DEF BufferIsPicture
<1>5. CASE ScanEnds \/ WriteMessage
  BY <1>5
  DEF ScanEnds, WriteMessage, BufferIsPicture, allocator, shared
<1>6. CASE hpc' \notin {"scan", "write", "doorbell"}
  BY <1>6 DEF BufferIsPicture
<1>7. \/ UNCHANGED <<hpc, pos, migration_buffer, lists>>
      \/ \E c \in CPUs, l \in Lists :
           TakeBlock(c, l) \/ \E b \in Blocks : PutBlock(c, l, b)
      \/ LockZone \/ ScanList \/ ScanEnds \/ WriteMessage
      \/ hpc' \notin {"scan", "write", "doorbell"}
  <2>1. CASE Handler
    BY <2>1, ThenOrder
    DEF Handler, AllocArrays, AllocArraysFails, RingDoorbell, UnlockZone,
        FreeArrays
  <2>2. CASE \E c \in CPUs : MigrationStart(c)
    BY <2>2 DEF MigrationStart
  <2>3. CASE \E c \in CPUs : \E z \in ZoneSet : ZoneLock(c, z) \/ ZoneUnlock(c, z)
    BY <2>3 DEF ZoneLock, ZoneUnlock, handler, shared
  <2>4. CASE UNCHANGED vars
    BY <2>4 DEF vars, allocator, handler, shared
  <2> QED BY <2>1, <2>2, <2>3, <2>4 DEF Next
<1> QED BY <1>1, <1>2, <1>3, <1>4, <1>5, <1>6, <1>7

LEMMA StepIsAtomic ==
  ASSUME IInv, IInv', BufferIsPicture, [Next]_vars
  PROVE  [Atomic!Next]_(Atomic!vars)
<1> DEFINE Pending == hpc \notin {"idle", "unlock", "kfree", "oops", "overrun"}
<1>1. lists' \in [Lists -> Seq(Blocks)]
  BY DEF IInv, TypeOK
<1>2. CASE UNCHANGED <<report, Pending>>
  <2>1. Atomic!Allocate
    BY <1>1, <1>2 DEF Atomic!Allocate
  <2> QED BY <2>1 DEF Atomic!Next
<1>3. CASE \E c \in CPUs : MigrationStart(c)
  <2>1. Atomic!Request
    BY <1>3 DEF MigrationStart, allocator, Atomic!Request
  <2> QED BY <2>1 DEF Atomic!Next
<1>4. CASE /\ Pending /\ ~Pending' /\ UNCHANGED <<lists, report>>
  <2>1. Atomic!GiveUp
    BY <1>4 DEF Atomic!GiveUp
  <2> QED BY <2>1 DEF Atomic!Next
<1>5. CASE RingDoorbell
  <2>1. /\ hpc = "doorbell" /\ hpc' = "unlock" /\ lists' = lists
        /\ report' = SubSeq(migration_buffer, 1, message)
    BY <1>5, ThenOrder DEF RingDoorbell, allocator
  <2>2. /\ message = Len(migration_buffer) /\ pos = Len(ScanOrder)
        /\ migration_buffer \in Seq(Entry)
    BY <2>1 DEF IInv, MessageIsBuffer, ScannedRecorded, TypeOK
  <2>3. report' = migration_buffer
    BY <2>1, <2>2
  <2>4. migration_buffer = RecordedUpTo(lists, Managed)
    BY <2>1, <2>2 DEF BufferIsPicture, RecordedUpTo
  <2>5. RecordedUpTo(lists, Managed) = Atomic!RecordedUpTo(lists, Managed)
    BY DEF RecordedUpTo, Records, Recorded, PageAfter,
           Atomic!RecordedUpTo, Atomic!Records, Atomic!Recorded,
           Atomic!PageAfter
  <2>6. Atomic!Answer
    BY <2>1, <2>3, <2>4, <2>5 DEF Atomic!Answer
  <2> QED BY <2>6 DEF Atomic!Next
<1>6. \/ UNCHANGED <<report, Pending>>
      \/ \E c \in CPUs : MigrationStart(c)
      \/ Pending /\ ~Pending' /\ UNCHANGED <<lists, report>>
      \/ RingDoorbell
  <2>1. CASE AllocArrays \/ AllocArraysFails \/ LockZone
    BY <2>1 DEF AllocArrays, AllocArraysFails, LockZone, allocator, shared
  <2>2. CASE ScanList \/ ScanEnds \/ WriteMessage
    BY <2>2, ThenOrder DEF ScanList, ScanEnds, WriteMessage, allocator, shared
  <2>3. CASE UnlockZone \/ FreeArrays
    BY <2>3, ThenOrder DEF UnlockZone, FreeArrays, shared
  <2>4. ASSUME NEW c \in CPUs,
               \/ \E z \in ZoneSet : ZoneLock(c, z) \/ ZoneUnlock(c, z)
               \/ \E l \in Lists :
                    TakeBlock(c, l) \/ \E b \in Blocks : PutBlock(c, l, b)
        PROVE  UNCHANGED <<report, Pending>>
    BY <2>4 DEF ZoneLock, ZoneUnlock, TakeBlock, PutBlock, handler, shared
  <2>5. CASE UNCHANGED vars
    BY <2>5 DEF vars, handler, shared
  <2> QED BY <2>1, <2>2, <2>3, <2>4, <2>5 DEF Next, Handler
<1> QED BY <1>2, <1>3, <1>4, <1>5, <1>6

(* The report implements the abstract one, but for fairness: though the    *)
(* allocator works on every CPU, what write_guest_free_pages() tells the   *)
(* device is what all lists hold at the instant of the doorbell.           *)
THEOREM ReportIsAtomic == Spec => Atomic!Init /\ [][Atomic!Next]_(Atomic!vars)
<1>1. Init => Atomic!Init
  BY BootListsAssumption DEF Init, Atomic!Init
<1>2. Init => BufferIsPicture
  BY DEF Init, BufferIsPicture
<1>3. IInv /\ [Next]_vars => IInv'
  BY NextIInv
<1>4. IInv /\ BufferIsPicture /\ [Next]_vars => BufferIsPicture'
  BY NextBufferIsPicture
<1>5. IInv /\ IInv' /\ BufferIsPicture /\ [Next]_vars
        => [Atomic!Next]_(Atomic!vars)
  BY StepIsAtomic
<1> QED BY <1>1, <1>2, <1>3, <1>4, <1>5, InitIInv, PTL DEF Spec

=============================================================================
