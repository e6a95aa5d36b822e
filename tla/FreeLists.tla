------------------------------ MODULE FreeLists ------------------------------
(***************************************************************************)
(* The guest kernel's free lists, and what a walk over one of them writes  *)
(* to migration_buffer.  Pure operators, no state.                         *)
(*                                                                         *)
(* A list is the free_list of one migrate type in the free_area of one     *)
(* order of one zone: it stands for the order recorded with its blocks.    *)
(***************************************************************************)
EXTENDS Naturals, Sequences, Functions

CONSTANTS
  Blocks,    \* blocks of free pages
  HEAD,      \* the page a list head yields when it is taken for a block
  Lists,     \* the free lists
  ScanOrder  \* the lists in the order of the loops: zone, order, type

ASSUME BlocksAssumption == HEAD \notin Blocks
(* The loops come to every list, and to each once. *)
ASSUME ScanOrderAssumption ==
  /\ ScanOrder \in Seq(Lists)
  /\ \A l \in Lists : \E n \in 1 .. Len(ScanOrder) : ScanOrder[n] = l
  /\ \A m, n \in 1 .. Len(ScanOrder) : ScanOrder[m] = ScanOrder[n] => m = n

Entry == [page : Blocks \cup {HEAD}, list : Lists]

(* list_for_each() visits the nodes e1 .. en of a list, and for each of    *)
(* them list_first_entry_or_null() takes the node after it: e2, ..., en,   *)
(* and last the head of the list, which is in no struct page.              *)
PageAfter(blocks, i) == IF i < Len(blocks) THEN blocks[i + 1] ELSE HEAD

Recorded_PageOnly(l, blocks) ==
  [i \in 1 .. Len(blocks) |-> PageAfter(blocks, i)]
Recorded(l, blocks) ==
  [i \in 1 .. Len(blocks) |-> [page |-> PageAfter(blocks, i), list |-> l]]

(* The buffer after the first n lists of the scan, of which the loops skip *)
(* some.                                                                   *)
Records(lists, scanned) ==
  LET rec[n \in 0 .. Len(ScanOrder)] ==
        IF n = 0 THEN <<>>
        ELSE IF ScanOrder[n] \in scanned
             THEN rec[n - 1] \o Recorded(ScanOrder[n], lists[ScanOrder[n]])
             ELSE rec[n - 1]
  IN rec
RecordedUpTo(lists, scanned) == Records(lists, scanned)[Len(ScanOrder)]

FreeBlocks(lists) == UNION {Range(lists[l]) : l \in Lists}
=============================================================================
