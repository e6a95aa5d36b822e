----------------------- MODULE AffinityMonitorProofs -----------------------
(***************************************************************************)
(* What the log of bpf_prog1() is good for, on every number of CPUs, for   *)
(* every size of its map, and however many calls it sees.                  *)
(***************************************************************************)
EXTENDS AffinityMonitor, FiniteSetTheorems, TLAPS

-----------------------------------------------------------------------------
(***************************************************************************)
(* The inductive invariant.                                                *)
(***************************************************************************)

(* The counter has counted at most the calls that are past the increment.  *)
Coming == {c \in CPUs : pc[c] \in {"check", "add"}}
CallsCounted == IsFiniteSet(Coming) /\ top + Cardinality(Coming) <= calls

(* A call writes a set, and into a cell the counter counts but not itself. *)
WritesCounted ==
  \A c \in CPUs :
    /\ pc[c] # "idle" => cpu_set[c] \in CpuSets
    /\ pc[c] = "index" => top > 0
    /\ pc[c] = "update" => index[c] \in 1 .. top

(* The last cell is written, or is going to be.                            *)
LastCellCovered ==
  top \in Indexes \ {0} =>
    \/ values[top] # 0
    \/ \E c \in CPUs : \/ pc[c] = "index"
                       \/ pc[c] = "update" /\ index[c] = top

(* A call that is alone so far is the only one.                            *)
AloneIsOnly ==
  \A c, d \in CPUs : alone[c] /\ pc[c] # "idle" /\ pc[d] # "idle" => c = d

(* No call is going to write where a call that was alone has written.      *)
SoloKept ==
  \A r \in solo :
    /\ r.index \in 1 .. top
    /\ r.index \in Indexes => values[r.index] = r.cpu_set
    /\ r.index \notin Indexes => overlapped
    /\ \A c \in CPUs : /\ pc[c] = "index" => top > r.index
                       /\ pc[c] = "update" => index[c] > r.index

(* Without overlaps there is one call at a time, and it increments what it *)
(* has checked.                                                            *)
OneAtATime ==
  ~overlapped =>
    /\ \A c, d \in CPUs : pc[c] # "idle" /\ pc[d] # "idle" => c = d
    /\ \A c \in CPUs : pc[c] = "add" => ~Full(top)
    /\ top \in Indexes

IInv ==
  /\ TypeOK /\ CallsCounted
  /\ WritesCounted /\ LastCellCovered
  /\ AloneIsOnly /\ SoloKept
  /\ OneAtATime

-----------------------------------------------------------------------------
LEMMA InitIInv == Init => IInv
<1> SUFFICES ASSUME Init PROVE IInv
  OBVIOUS
<1>0. 0 \in Indexes /\ top = 0
  BY MaxEntriesAssumption DEF Init, Indexes, top
<1>1. TypeOK
  <2>1. index \in [CPUs -> 0 .. MaxCalls] /\ calls \in 0 .. MaxCalls
    BY MaxCallsAssumption DEF Init
  <2>2. alone \in [CPUs -> BOOLEAN] /\ overlapped \in BOOLEAN
    BY DEF Init
  <2> QED BY <2>1, <2>2 DEF Init, TypeOK
<1>2. CallsCounted
  <2>1. Coming = {}
    BY DEF Init, Coming
  <2> QED BY <1>0, <2>1, FS_EmptySet DEF Init, CallsCounted
<1>3. WritesCounted /\ LastCellCovered /\ AloneIsOnly /\ SoloKept /\ OneAtATime
  BY <1>0 DEF Init, WritesCounted, LastCellCovered, AloneIsOnly, SoloKept,
              OneAtATime
<1> QED BY <1>1, <1>2, <1>3 DEF IInv

(* What each CPU's step does to the counters of CPUs.                      *)
LEMMA StepFacts ==
  ASSUME TypeOK, NEW c \in CPUs, NEW from, NEW to, Step(c, from, to)
  PROVE  /\ pc[c] = from /\ pc'[c] = to
         /\ \A d \in CPUs : d # c => pc'[d] = pc[d]
BY DEF Step, TypeOK

LEMMA TopIsCell ==
  ASSUME TypeOK
  PROVE  0 \in Indexes /\ top \in Nat /\ Indexes \subseteq Nat
BY MaxEntriesAssumption DEF TypeOK, top, Indexes

LEMMA CallKeepsIInv ==
  ASSUME IInv, NEW c \in CPUs, NEW set \in CpuSets, Call(c, set)
  PROVE  IInv'
<1> USE DEF IInv
<1>1. /\ pc[c] = "idle" /\ pc'[c] = "check"
      /\ \A d \in CPUs : d # c => pc'[d] = pc[d]
  BY StepFacts DEF Call
<1>2. /\ calls' = calls + 1 /\ calls \in Nat /\ calls' <= MaxCalls
      /\ cpu_set' = [cpu_set EXCEPT ![c] = set]
      /\ alone' = [d \in CPUs |-> d = c /\ Busy = {}]
      /\ overlapped' = (overlapped \/ Busy # {})
      /\ UNCHANGED <<values, index, solo>> /\ top' = top
  BY MaxCallsAssumption DEF Call, TypeOK, top
<1>3. TypeOK'
  <2>1. pc' \in [CPUs -> {"idle", "check", "add", "index", "update"}]
    BY DEF Call, Step, TypeOK
  <2>2. alone' \in [CPUs -> BOOLEAN]
    BY <1>2
  <2>3. overlapped' \in BOOLEAN
    BY <1>2
  <2>4. calls' \in 0 .. MaxCalls
    BY <1>2, MaxCallsAssumption
  <2>5. cpu_set' \in [CPUs -> CpuSets \cup {0}]
    BY <1>2 DEF TypeOK
  <2> QED BY <1>2, <2>1, <2>2, <2>3, <2>4, <2>5 DEF TypeOK
<1>4. CallsCounted'
  <2>1. Coming' = Coming \cup {c} /\ c \notin Coming
    BY <1>1 DEF Coming
  <2>2. /\ IsFiniteSet(Coming')
        /\ Cardinality(Coming') = Cardinality(Coming) + 1
    BY <2>1, FS_AddElement DEF CallsCounted
  <2>3. Cardinality(Coming) \in Nat
    BY FS_CardinalityType DEF CallsCounted
  <2> QED BY <1>2, <2>2, <2>3, TopIsCell DEF CallsCounted
<1>5. WritesCounted'
  BY <1>1, <1>2 DEF WritesCounted, TypeOK
<1>6. LastCellCovered'
  BY <1>1, <1>2 DEF LastCellCovered
<1>7. AloneIsOnly'
  BY <1>1, <1>2 DEF AloneIsOnly, Busy
<1>8. SoloKept'
  BY <1>1, <1>2 DEF SoloKept
<1>9. OneAtATime'
  BY <1>1, <1>2 DEF OneAtATime, Busy
<1> QED BY <1>3, <1>4, <1>5, <1>6, <1>7, <1>8, <1>9

LEMMA CheckKeepsIInv ==
  ASSUME IInv, NEW c \in CPUs, CheckFull(c)
  PROVE  IInv'
<1> USE DEF IInv
<1>1. /\ pc[c] = "check" /\ pc'[c] = IF Full(top) THEN "idle" ELSE "add"
      /\ \A d \in CPUs : d # c => pc'[d] = pc[d]
  BY StepFacts DEF CheckFull
<1>2. UNCHANGED <<values, cpu_set, index, alone, solo, overlapped, calls>>
      /\ top' = top
  BY DEF CheckFull, top
<1>3. TypeOK'
  <2>1. pc' \in [CPUs -> {"idle", "check", "add", "index", "update"}]
    BY DEF CheckFull, Step, TypeOK
  <2> QED BY <1>2, <2>1 DEF TypeOK
<1>4. CallsCounted'
  <2>1. Coming' = Coming \/ Coming' = Coming \ {c}
    BY <1>1 DEF Coming
  <2>2. IsFiniteSet(Coming') /\ Cardinality(Coming') <= Cardinality(Coming)
    BY <2>1, FS_Subset, FS_CardinalityType DEF CallsCounted
  <2>3. /\ Cardinality(Coming) \in Nat /\ Cardinality(Coming') \in Nat
        /\ calls \in Nat
    BY <2>2, FS_CardinalityType, MaxCallsAssumption DEF CallsCounted, TypeOK
  <2> QED BY <1>2, <2>2, <2>3, TopIsCell DEF CallsCounted
<1>5. WritesCounted'
  BY <1>1, <1>2 DEF WritesCounted
<1>6. LastCellCovered'
  BY <1>1, <1>2 DEF LastCellCovered
<1>7. AloneIsOnly'
  BY <1>1, <1>2 DEF AloneIsOnly
<1>8. SoloKept'
  BY <1>1, <1>2 DEF SoloKept
<1>9. OneAtATime'
  BY <1>1, <1>2 DEF OneAtATime
<1> QED BY <1>3, <1>4, <1>5, <1>6, <1>7, <1>8, <1>9

LEMMA AddKeepsIInv ==
  ASSUME IInv, NEW c \in CPUs, Add(c)
  PROVE  IInv'
<1> USE DEF IInv
<1>0. 0 \in Indexes /\ top \in Nat /\ Indexes \subseteq Nat
  BY TopIsCell
<1>1. /\ pc[c] = "add" /\ pc'[c] = "index"
      /\ \A d \in CPUs : d # c => pc'[d] = pc[d]
  BY StepFacts DEF Add
<1>2. /\ UNCHANGED <<cpu_set, index, alone, solo, overlapped, calls>>
      /\ values' \in [Indexes -> Nat] /\ top' = top + 1
      /\ \A i \in Indexes : i # 0 => values'[i] = values[i]
  BY <1>0 DEF Add, top, TypeOK
<1>3. TypeOK'
  <2>1. pc' \in [CPUs -> {"idle", "check", "add", "index", "update"}]
    BY DEF Add, Step, TypeOK
  <2> QED BY <1>2, <2>1 DEF TypeOK
<1>4. CallsCounted'
  <2>1. Coming' = Coming \ {c} /\ c \in Coming
    BY <1>1 DEF Coming
  <2>2. /\ IsFiniteSet(Coming')
        /\ Cardinality(Coming') = Cardinality(Coming) - 1
    BY <2>1, FS_RemoveElement DEF CallsCounted
  <2>3. Cardinality(Coming) \in Nat /\ calls \in Nat
    BY FS_CardinalityType, MaxCallsAssumption DEF CallsCounted, TypeOK
  <2> QED BY <1>0, <1>2, <2>2, <2>3 DEF CallsCounted
<1>5. WritesCounted'
  <2> SUFFICES ASSUME NEW d \in CPUs
               PROVE  /\ pc'[d] # "idle" => cpu_set'[d] \in CpuSets
                      /\ pc'[d] = "index" => top' > 0
                      /\ pc'[d] = "update" => index'[d] \in 1 .. top'
    BY DEF WritesCounted
  <2> QED BY <1>0, <1>1, <1>2 DEF WritesCounted
<1>6. LastCellCovered'
  BY <1>1 DEF LastCellCovered
<1>7. AloneIsOnly'
  BY <1>1, <1>2 DEF AloneIsOnly
<1>8. SoloKept'
  <2> SUFFICES ASSUME NEW r \in solo
               PROVE  /\ r.index \in 1 .. top'
                      /\ r.index \in Indexes => values'[r.index] = r.cpu_set
                      /\ r.index \notin Indexes => overlapped
                      /\ \A d \in CPUs :
                           /\ pc'[d] = "index" => top' > r.index
                           /\ pc'[d] = "update" => index'[d] > r.index
    BY <1>2 DEF SoloKept
  <2>1. r.index \in 1 .. top
    BY DEF SoloKept
  <2> QED BY <1>0, <1>1, <1>2, <2>1 DEF SoloKept
<1>9. OneAtATime'
  <2>1. ~overlapped => top' \in Indexes
    BY <1>0, <1>1, <1>2, MaxEntriesAssumption
    DEF OneAtATime, Full, Indexes
  <2> QED BY <1>1, <1>2, <2>1 DEF OneAtATime
<1> QED BY <1>3, <1>4, <1>5, <1>6, <1>7, <1>8, <1>9

LEMMA ReadIndexKeepsIInv ==
  ASSUME IInv, NEW c \in CPUs, ReadIndex(c)
  PROVE  IInv'
<1> USE DEF IInv
<1>0. 0 \in Indexes /\ top \in Nat /\ Indexes \subseteq Nat
  BY TopIsCell
<1>1. /\ pc[c] = "index" /\ pc'[c] = "update"
      /\ \A d \in CPUs : d # c => pc'[d] = pc[d]
  BY StepFacts DEF ReadIndex
<1>2. /\ UNCHANGED <<values, cpu_set, alone, solo, overlapped, calls>>
      /\ top' = top /\ index'[c] = top
      /\ \A d \in CPUs : d # c => index'[d] = index[d]
  BY DEF ReadIndex, top, Slot, TypeOK
<1>3. TypeOK'
  <2>1. pc' \in [CPUs -> {"idle", "check", "add", "index", "update"}]
    BY DEF ReadIndex, Step, TypeOK
  <2>2. top \in 0 .. MaxCalls
    <3>1. Cardinality(Coming) \in Nat
      BY FS_CardinalityType DEF CallsCounted
    <3> QED BY <1>0, <3>1, MaxCallsAssumption DEF CallsCounted, TypeOK
  <2>3. index' \in [CPUs -> 0 .. MaxCalls]
    BY <2>2 DEF ReadIndex, Slot, TypeOK
  <2> QED BY <1>2, <2>1, <2>3 DEF TypeOK
<1>4. CallsCounted'
  <2>1. Coming' = Coming
    BY <1>1 DEF Coming
  <2> QED BY <1>2, <2>1 DEF CallsCounted
<1>5. WritesCounted'
  <2> SUFFICES ASSUME NEW d \in CPUs
               PROVE  /\ pc'[d] # "idle" => cpu_set'[d] \in CpuSets
                      /\ pc'[d] = "index" => top' > 0
                      /\ pc'[d] = "update" => index'[d] \in 1 .. top'
    BY DEF WritesCounted
  <2> QED BY <1>0, <1>1, <1>2 DEF WritesCounted
<1>6. LastCellCovered'
  BY <1>1, <1>2 DEF LastCellCovered
<1>7. AloneIsOnly'
  BY <1>1, <1>2 DEF AloneIsOnly
<1>8. SoloKept'
  BY <1>1, <1>2 DEF SoloKept
<1>9. OneAtATime'
  BY <1>1, <1>2 DEF OneAtATime
<1> QED BY <1>3, <1>4, <1>5, <1>6, <1>7, <1>8, <1>9

LEMMA UpdateKeepsIInv ==
  ASSUME IInv, NEW c \in CPUs, Update(c)
  PROVE  IInv'
<1> USE DEF IInv
<1>0. 0 \in Indexes /\ top \in Nat /\ Indexes \subseteq Nat
  BY TopIsCell
<1>1. /\ pc[c] = "update" /\ pc'[c] = "idle"
      /\ \A d \in CPUs : d # c => pc'[d] = pc[d]
  BY StepFacts DEF Update
<1>2. /\ index[c] \in 1 .. top /\ cpu_set[c] \in CpuSets
      /\ cpu_set[c] \in Nat \ {0}
  BY <1>1, CpuSetsAssumption DEF WritesCounted
<1>3. /\ UNCHANGED <<cpu_set, index, alone, overlapped, calls>>
      /\ values' \in [Indexes -> Nat] /\ top' = top
      /\ \A i \in Indexes :
           values'[i] = IF i = index[c] THEN cpu_set[c] ELSE values[i]
  BY <1>0, <1>2 DEF Update, top, TypeOK
<1>4. solo' = IF alone[c]
              THEN solo \cup {[index |-> index[c], cpu_set |-> cpu_set[c]]}
              ELSE solo
  BY DEF Update
<1>5. TypeOK'
  <2>1. pc' \in [CPUs -> {"idle", "check", "add", "index", "update"}]
    BY DEF Update, Step, TypeOK
  <2>2. [index |-> index[c], cpu_set |-> cpu_set[c]]
          \in [index : 0 .. MaxCalls, cpu_set : CpuSets]
    BY <1>2 DEF TypeOK
  <2>3. solo' \subseteq [index : 0 .. MaxCalls, cpu_set : CpuSets]
    BY <1>4, <2>2 DEF TypeOK
  <2> QED BY <1>3, <2>1, <2>3 DEF TypeOK
<1>6. CallsCounted'
  <2>1. Coming' = Coming
    BY <1>1 DEF Coming
  <2> QED BY <1>3, <2>1 DEF CallsCounted
<1>7. WritesCounted'
  BY <1>1, <1>3 DEF WritesCounted
<1>8. LastCellCovered'
  BY <1>0, <1>1, <1>2, <1>3 DEF LastCellCovered
<1>9. AloneIsOnly'
  BY <1>1, <1>3 DEF AloneIsOnly
<1>10. SoloKept'
  <2>1. ASSUME NEW r \in solo
        PROVE  /\ r.index \in 1 .. top'
               /\ r.index \in Indexes => values'[r.index] = r.cpu_set
               /\ r.index \notin Indexes => overlapped
               /\ \A d \in CPUs : /\ pc'[d] = "index" => top' > r.index
                                  /\ pc'[d] = "update" => index'[d] > r.index
    <3>1. r.index \in 1 .. top /\ index[c] > r.index
      BY <1>1 DEF SoloKept
    <3>2. r.index # index[c]
      BY <1>2, <3>1
    <3> QED BY <1>1, <1>3, <3>1, <3>2 DEF SoloKept
  <2>2. ASSUME NEW r \in solo', r \notin solo
        PROVE  /\ r.index \in 1 .. top'
               /\ r.index \in Indexes => values'[r.index] = r.cpu_set
               /\ r.index \notin Indexes => overlapped
               /\ \A d \in CPUs : /\ pc'[d] = "index" => top' > r.index
                                  /\ pc'[d] = "update" => index'[d] > r.index
    <3>1. alone[c]
      BY <1>4, <2>2
    <3>2. r = [index |-> index[c], cpu_set |-> cpu_set[c]]
      BY <1>4, <2>2, <3>1
    <3>3. \A d \in CPUs : pc'[d] = "idle"
      BY <1>1, <3>1 DEF AloneIsOnly
    <3>4. r.index \notin Indexes => overlapped
      <4>1. ~overlapped => top \in Indexes
        BY DEF OneAtATime
      <4>2. top \in Indexes => index[c] \in Indexes
        BY <1>0, <1>2, MaxEntriesAssumption DEF Indexes
      <4> QED BY <3>2, <4>1, <4>2
    <3> QED BY <1>2, <1>3, <3>2, <3>3, <3>4
  <2> QED BY <1>3, <2>1, <2>2 DEF SoloKept
<1>11. OneAtATime'
  BY <1>1, <1>3 DEF OneAtATime
<1> QED BY <1>5, <1>6, <1>7, <1>8, <1>9, <1>10, <1>11

LEMMA NextIInv == IInv /\ [Next]_vars => IInv'
<1> SUFFICES ASSUME IInv, [Next]_vars PROVE IInv'
  OBVIOUS
<1>1. CASE UNCHANGED vars
  BY <1>1
  DEF IInv, TypeOK, CallsCounted, Coming, WritesCounted, LastCellCovered,
      AloneIsOnly, SoloKept, OneAtATime, top, vars, locals
<1>2. CASE Next
  BY <1>2, CallKeepsIInv, CheckKeepsIInv, AddKeepsIInv, ReadIndexKeepsIInv,
     UpdateKeepsIInv
  DEF Next
<1> QED BY <1>1, <1>2

LEMMA IInvImplies ==
  IInv => TypeOK /\ SoloCallsLogged /\ LastCellWritten /\ CounterInMap
<1> SUFFICES ASSUME IInv
             PROVE  SoloCallsLogged /\ LastCellWritten /\ CounterInMap
  BY DEF IInv
<1>1. SoloCallsLogged
  BY DEF IInv, SoloKept, SoloCallsLogged
<1>2. LastCellWritten
  BY DEF IInv, LastCellCovered, LastCellWritten, Busy
<1>3. CounterInMap
  BY DEF IInv, OneAtATime, CounterInMap
<1> QED BY <1>1, <1>2, <1>3

(* On every number of CPUs, for every size of the map and every number of  *)
(* calls: what a call that nobody overlaps logs, it logs for good, and it  *)
(* is refused only after overlaps; the last cell the counter counts has    *)
(* been written once all calls are over; and the counter leaves the map    *)
(* only after calls have overlapped.                                       *)
THEOREM MonitorSafety ==
  Spec => [](TypeOK /\ SoloCallsLogged /\ LastCellWritten /\ CounterInMap)
<1>1. IInv /\ [Next]_vars => IInv'
  BY NextIInv
<1> QED BY <1>1, InitIInv, IInvImplies, PTL DEF Spec

=============================================================================
