--------------------------- MODULE AffinityMonitor ---------------------------
(***************************************************************************)
(* bpf_prog1() (bpfProg/myprog.c): the eBPF program that logs the CPU sets *)
(* given to sched_setaffinity() in an array map whose first cell counts    *)
(* the others.  A kprobe runs to its end on its CPU, but CPUs interleave.  *)
(***************************************************************************)
EXTENDS Naturals, FiniteSets

CONSTANTS
  CPUs,
  CpuSets,     \* the sets given to sched_setaffinity(), not empty: in the
               \* map an empty set looks like a cell never written
  MAX_ENTRIES, \* cells of the map
  MaxCalls     \* bound: calls of sched_setaffinity() in a behaviour

ASSUME CpuSetsAssumption == CpuSets \subseteq Nat \ {0}
ASSUME MaxEntriesAssumption == MAX_ENTRIES \in Nat \ {0}
ASSUME MaxCallsAssumption == MaxCalls \in Nat

VARIABLES
  values, \* the map
  pc, cpu_set, index, \* of bpf_prog1() on each CPU
  alone,  \* history: no other call has overlapped this one so far
  solo,   \* history: what calls that nobody overlapped gave to log, and where
  overlapped, \* history: some calls have overlapped
  calls

locals == <<pc, cpu_set, index>>
vars   == <<values, locals, alone, solo, overlapped, calls>>

Indexes == 0 .. MAX_ENTRIES - 1
top == values[0]

TypeOK ==
  /\ values \in [Indexes -> Nat]
  /\ pc \in [CPUs -> {"idle", "check", "add", "index", "update"}]
  /\ cpu_set \in [CPUs -> CpuSets \cup {0}]
  /\ index \in [CPUs -> 0 .. MaxCalls]
  /\ alone \in [CPUs -> BOOLEAN]
  /\ solo \subseteq [index : 0 .. MaxCalls, cpu_set : CpuSets]
  /\ overlapped \in BOOLEAN
  /\ calls \in 0 .. MaxCalls

Init ==
  /\ values = [i \in Indexes |-> 0]
  /\ pc = [c \in CPUs |-> "idle"]
  /\ cpu_set = [c \in CPUs |-> 0]
  /\ index = [c \in CPUs |-> 0]
  /\ alone = [c \in CPUs |-> FALSE]
  /\ solo = {} /\ overlapped = FALSE /\ calls = 0

Step(c, from, to) == pc[c] = from /\ pc' = [pc EXCEPT ![c] = to]
Busy == {c \in CPUs : pc[c] # "idle"}

-----------------------------------------------------------------------------
Call(c, set) ==
  /\ calls < MaxCalls /\ calls' = calls + 1
  /\ Step(c, "idle", "check")
  /\ cpu_set' = [cpu_set EXCEPT ![c] = set]
  /\ alone' = [d \in CPUs |-> d = c /\ Busy = {}]
  /\ overlapped' = (overlapped \/ Busy # {})
  /\ UNCHANGED <<values, index, solo>>

Full_OffByOne(t) == t = MAX_ENTRIES
Full(t) == t = MAX_ENTRIES - 1

CheckFull(c) ==
  /\ Step(c, "check", IF Full(top) THEN "idle" ELSE "add")
  /\ UNCHANGED <<values, cpu_set, index, alone, solo, overlapped, calls>>

Add(c) ==
  /\ Step(c, "add", "index")
  /\ values' = [values EXCEPT ![0] = @ + 1]
  /\ UNCHANGED <<cpu_set, index, alone, solo, overlapped, calls>>

(* Read again: what other CPUs added in between is included. *)
Slot_BeforeAdd(t) == t - 1
Slot(t) == t

ReadIndex(c) ==
  /\ Step(c, "index", "update")
  /\ index' = [index EXCEPT ![c] = Slot(top)]
  /\ UNCHANGED <<values, cpu_set, alone, solo, overlapped, calls>>

(* bpf_map_update_elem() refuses an index outside the map. *)
Update(c) ==
  /\ Step(c, "update", "idle")
  /\ values' = IF index[c] \in Indexes
               THEN [values EXCEPT ![index[c]] = cpu_set[c]] ELSE values
  /\ solo' = IF alone[c]
             THEN solo \cup {[index |-> index[c], cpu_set |-> cpu_set[c]]}
             ELSE solo
  /\ UNCHANGED <<cpu_set, index, alone, overlapped, calls>>

Next ==
  \E c \in CPUs :
    \/ \E set \in CpuSets : Call(c, set)
    \/ CheckFull(c) \/ Add(c) \/ ReadIndex(c) \/ Update(c)

Spec == Init /\ [][Next]_vars

-----------------------------------------------------------------------------
(* A call that no other overlaps, if it gets past the check for a full     *)
(* map, is logged in a cell the counter counts, and what it logged is      *)
(* never overwritten; or its update is refused, and that only after calls  *)
(* before it have overlapped and carried the counter past the map.         *)
SoloCallsLogged ==
  \A r \in solo :
    \/ r.index \in Indexes /\ r.index <= top /\ values[r.index] = r.cpu_set
    \/ r.index \notin Indexes /\ overlapped

(* However calls overlap, when none is running the last cell the counter   *)
(* counts has been written: overlapping calls leave holes only below it.   *)
LastCellWritten ==
  Busy = {} /\ top \in Indexes \ {0} => values[top] # 0

(* As long as no calls have overlapped, the counter stays within the map:  *)
(* the check for a full map is made on the value that is then incremented. *)
CounterInMap == ~overlapped => top \in Indexes
=============================================================================
