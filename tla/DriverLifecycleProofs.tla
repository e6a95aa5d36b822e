------------------------ MODULE DriverLifecycleProofs ------------------------
(***************************************************************************)
(* The safety of loading and binding: an inductive invariant of            *)
(* DriverLifecycle that implies its five invariants.                       *)
(***************************************************************************)
EXTENDS DriverLifecycle, TLAPS

(* After how many steps of pci_probe() a resource is held, and after how   *)
(* many of pci_remove() it no longer is.                                   *)
ProbeAt ==
  [r \in Resources |-> CASE r = "chrdev" -> 1 [] r = "device" -> 2
                         [] r = "region" -> 3 [] r = "bufmmio" -> 4
                         [] r = "irq" -> 5 [] r = "migration_buffer" -> 8
                         [] r = "ctx" -> 9]
RemoveAt ==
  [r \in Resources |-> CASE r = "irq" -> 1 [] r = "bufmmio" -> 2
                         [] r = "device" -> 3 [] r = "region" -> 4
                         [] r = "chrdev" -> 5 [] r = "ctx" -> 6
                         [] r = "migration_buffer" -> 7]

Probed  == {r \in Resources : n >= ProbeAt[r]}
Removed == {r \in Resources : n >= RemoveAt[r]}

-----------------------------------------------------------------------------
(***************************************************************************)
(* The invariant.                                                          *)
(***************************************************************************)

ModuleLoaded ==
  /\ ~module => state = "unbound"
  /\ module => loads > 0

(* Nothing is held that was not acquired, or was released ...              *)
HeldAtMost ==
  /\ state = "unbound" => held = {}
  /\ state = "probing" => held \subseteq Probed
  /\ state = "removing" => held \cap Removed = {}

(* ... and, if nothing is refused, all that was acquired is held.          *)
HeldAtLeast ==
  ~failing => /\ state = "probing" => Probed \subseteq held
              /\ state = "bound" => held = Resources
              /\ state = "removing" => Resources \ Removed \subseteq held

HeldIsLive == \A p \in Pointers : p \in held <=> pointers[p] = "live"

RegistersAsked ==
  "irq" \in held \/ (state = "probing" /\ n >= ProbeAt["bufmmio"]) =>
    "bufmmio" \in held \/ (failing /\ pointers["bufmmio"] = "null")

HandlerHeld == handler # "none" => "irq" \in held

WorkReady ==
  (state = "bound" /\ ~failing) \/ (state = "probing" /\ n >= 6) => ready

(* A driver left alone does nothing while it is not bound.                 *)
LeftAlone ==
  quiet => /\ state # "bound" => /\ ~pending /\ ~running
                                 /\ handler \in {"none", "other"}
           /\ pending \/ running => typed

(* A loading has its program installed, or none yet.                       *)
ProgramsLost ==
  quiet => /\ programs <= loads
           /\ ~injected => programs < loads \/ programs = 0

IInv == /\ TypeOK /\ ModuleLoaded /\ HeldAtMost /\ HeldAtLeast /\ HeldIsLive
        /\ RegistersAsked /\ HandlerHeld /\ WorkReady /\ LeftAlone
        /\ ProgramsLost

-----------------------------------------------------------------------------
(***************************************************************************)
(* Where pci_probe() and pci_remove() are.                                 *)
(***************************************************************************)

LEMMA StepsLength == Len(ProbeSteps) = 9 /\ Len(RemoveSteps) = 7
BY DEF ProbeSteps, RemoveSteps

(* The next resource to acquire is the one the step counter stands for.    *)
LEMMA ProbeOrder ==
  ASSUME n \in 0 .. 9, NEW r \in Resources, Probing(r)
  PROVE  state = "probing" /\ n < 9 /\ ProbeAt[r] = n + 1
<1>1. n \in 0 .. 8
  BY StepsLength DEF Probing
<1>2. state = "probing" /\ ProbeSteps[n + 1] = r
  BY DEF Probing
<1>3. ProbeAt[r] = n + 1
  BY <1>1, <1>2 DEF ProbeSteps, ProbeAt, Resources, Pointers
<1> QED
  BY <1>1, <1>2, <1>3

(* INIT_WORK() comes between the interrupt and the migration buffer, and   *)
(* the type after it.                                                      *)
LEMMA WorkOrder ==
  ASSUME n \in 0 .. 9, Probing("work") \/ Probing("type")
  PROVE  /\ state = "probing" /\ n \in {5, 6}
         /\ Probing("work") => n = 5
         /\ Probing("type") => n = 6
BY StepsLength DEF Probing, ProbeSteps

(* The next resource to release is the one the step counter stands for.    *)
LEMMA RemoveOrder ==
  ASSUME n \in 0 .. 6, NEW r \in Resources
  PROVE  RemoveSteps[n + 1] = r <=> RemoveAt[r] = n + 1
BY DEF RemoveSteps, RemoveAt, Resources, Pointers

LEMMA Positions ==
  ASSUME NEW r \in Resources
  PROVE  ProbeAt[r] \in 1 .. 9 /\ RemoveAt[r] \in 1 .. 7
BY DEF ProbeAt, RemoveAt, Resources, Pointers

LEMMA DistinctPositions ==
  ASSUME NEW r \in Resources, NEW s \in Resources, r # s
  PROVE  ProbeAt[r] # ProbeAt[s] /\ RemoveAt[r] # RemoveAt[s]
BY DEF ProbeAt, RemoveAt, Resources, Pointers
-----------------------------------------------------------------------------
(***************************************************************************)
(* Each step keeps the invariant.                                          *)
(***************************************************************************)

USE MaxBindsAssumption, StepsLength
USE DEF choices, core, driver, work, loaded

LEMMA CoreKeepsIInv ==
  ASSUME IInv, Insmod \/ Bind \/ Unbind \/ Rmmod
  PROVE  IInv'
<1> USE DEF StartProbe
<1>1. Insmod \/ Bind => n' = 0 /\ state' = "probing" /\ state = "unbound" /\ held' = {}
  BY DEF Insmod, Bind, IInv, ModuleLoaded, HeldAtMost
<1>2. TypeOK'
  <2>1. CASE Insmod
    <3>1. loads' \in 0 .. binds' /\ binds' \in 0 .. MaxBinds /\ n' \in 0 .. 9
      BY <2>1 DEF Insmod, IInv, TypeOK
    <3>2. pointers' \in [Pointers -> {"null", "live", "stale"}]
      BY <2>1 DEF Insmod
    <3> QED
      BY <2>1, <3>1, <3>2 DEF Insmod, IInv, TypeOK
  <2>2. CASE Bind
    BY <2>2 DEF Bind, IInv, TypeOK
  <2>3. CASE Unbind
    BY <2>3 DEF Unbind, IInv, TypeOK
  <2>4. CASE Rmmod
    BY <2>4 DEF Rmmod, IInv, TypeOK
  <2> QED
    BY <2>1, <2>2, <2>3, <2>4
<1>3. ModuleLoaded' /\ HandlerHeld'
  BY <1>1 DEF Insmod, Bind, Unbind, Rmmod, IInv, TypeOK, ModuleLoaded, HandlerHeld, HeldAtMost
<1>4. HeldAtMost' /\ HeldAtLeast'
  BY <1>1, Positions DEF Insmod, Bind, Unbind, Rmmod, IInv, TypeOK, HeldAtMost, HeldAtLeast,
     Probed, Removed
<1>5. HeldIsLive' /\ RegistersAsked'
  BY <1>1, Positions DEF Insmod, Bind, Unbind, Rmmod, IInv, TypeOK, ModuleLoaded, HeldAtMost, HeldIsLive,
     RegistersAsked, Resources, Pointers
<1>6. WorkReady' /\ LeftAlone' /\ ProgramsLost'
  BY <1>1 DEF Insmod, Bind, Unbind, Rmmod, IInv, TypeOK, ModuleLoaded, WorkReady, LeftAlone, ProgramsLost,
     Idle
<1> QED
  BY <1>2, <1>3, <1>4, <1>5, <1>6 DEF IInv

LEMMA AcquireKeepsIInv ==
  ASSUME IInv, NEW r \in Resources, Acquire(r) \/ AcquireFails(r)
  PROVE  IInv'
<1>1. /\ state = "probing" /\ state' = "probing" /\ n \in 0 .. 8
      /\ ProbeAt[r] = n + 1 /\ n' = n + 1
  BY ProbeOrder DEF Acquire, AcquireFails, Probing, IInv, TypeOK
<1>2. r \notin held
  BY <1>1 DEF IInv, HeldAtMost, Probed
<1>3. TypeOK'
  BY <1>1 DEF Acquire, AcquireFails, IInv, TypeOK, Pointers
<1>4. HeldAtMost' /\ HeldAtLeast'
  BY <1>1, <1>2, Positions, DistinctPositions
  DEF Acquire, AcquireFails, IInv, TypeOK, HeldAtMost, HeldAtLeast, Probed
<1>5. HeldIsLive'
  BY <1>1, <1>2 DEF Acquire, AcquireFails, IInv, TypeOK, HeldIsLive, Resources
<1>6. RegistersAsked'
  <2>1. ProbeAt["bufmmio"] = 4 /\ ProbeAt["irq"] = 5
    BY DEF ProbeAt, Resources, Pointers
  <2>2. CASE r = "bufmmio"
    BY <2>2, <1>1 DEF Acquire, AcquireFails, IInv, TypeOK, RegistersAsked, Pointers
  <2>3. CASE r # "bufmmio"
    <3>1. n' >= 4 => n >= 4
      BY <1>1, <2>1, <2>3, DistinctPositions DEF Resources, Pointers
    <3>2. r = "irq" => n >= 4
      BY <1>1, <2>1
    <3>3. pointers'["bufmmio"] = pointers["bufmmio"]
      BY <2>3 DEF Acquire, AcquireFails, IInv, TypeOK, Pointers
    <3>4. /\ "bufmmio" \in held => "bufmmio" \in held'
          /\ "irq" \in held' => "irq" \in held \/ r = "irq"
      BY <2>3 DEF Acquire, AcquireFails
    <3> QED
      BY <1>1, <2>1, <3>1, <3>2, <3>3, <3>4 DEF Acquire, AcquireFails, IInv, RegistersAsked
  <2> QED
    BY <2>2, <2>3
<1>7. ModuleLoaded' /\ HandlerHeld' /\ LeftAlone' /\ ProgramsLost'
  BY <1>1 DEF Acquire, AcquireFails, IInv, ModuleLoaded, HandlerHeld, LeftAlone, ProgramsLost
<1>8. WorkReady'
  <2>1. ProbeAt[r] # 6
    BY DEF ProbeAt, Resources, Pointers
  <2> QED
    BY <1>1, <2>1 DEF Acquire, AcquireFails, IInv, WorkReady
<1> QED
  BY <1>3, <1>4, <1>5, <1>6, <1>7, <1>8 DEF IInv

LEMMA InitWorkKeepsIInv ==
  ASSUME IInv, InitWork \/ ResetType
  PROVE  IInv'
<1>1. /\ state = "probing" /\ n \in {5, 6} /\ n' = n + 1
      /\ ResetType => n = 6
  BY WorkOrder DEF InitWork, ResetType, IInv, TypeOK
<1>2. Probed' = Probed
  <2>1. \A r \in Resources : ProbeAt[r] \notin {6, 7}
    BY DEF ProbeAt, Resources, Pointers
  <2> QED
    BY <1>1, <2>1, Positions DEF Probed
<1>3. ProbeAt["bufmmio"] = 4
  BY DEF ProbeAt, Resources, Pointers
<1>4. TypeOK'
  <2>1. n' \in 0 .. 9
    BY <1>1
  <2>2. {ready', typed', pending'} \subseteq BOOLEAN
    BY DEF InitWork, ResetType, IInv, TypeOK
  <2>3. UNCHANGED <<choices, module, leaving, state, returned, binds, loads,
                    held, pointers, handler, running, loaded>>
    BY DEF InitWork, ResetType
  <2> QED
    BY <2>1, <2>2, <2>3 DEF IInv, TypeOK
<1>5. HeldAtMost' /\ HeldAtLeast'
  BY <1>1, <1>2 DEF InitWork, ResetType, IInv, HeldAtMost, HeldAtLeast
<1> QED
  BY <1>1, <1>3, <1>4, <1>5
  DEF InitWork, ResetType, IInv, ModuleLoaded, HeldIsLive, RegistersAsked, HandlerHeld, WorkReady, LeftAlone,
      ProgramsLost

LEMMA ProbeEndKeepsIInv ==
  ASSUME IInv, ProbeReturns \/ \E r \in Resources : ProbeError(r)
  PROVE  IInv'
<1> DEFINE Error == \E r \in Resources : ProbeError(r)
<1>1. /\ state = "probing" /\ state' = "bound" /\ returned' \in {0, 1}
      /\ Error => failing
      /\ ~Error => n = 9
      /\ UNCHANGED <<choices, module, leaving, n, binds, loads, driver, typed, handler, work, loaded>>
  BY DEF ProbeReturns, ProbeError, Probing
<1>2. TypeOK'
  BY <1>1 DEF IInv, TypeOK
<1>3. n = 9 => Probed = Resources
  BY Positions DEF Probed
<1>4. HeldAtMost' /\ HeldAtLeast'
  BY <1>1, <1>3 DEF IInv, TypeOK, HeldAtMost, HeldAtLeast
<1> QED
  BY <1>1, <1>2, <1>4
  DEF IInv, ModuleLoaded, HeldIsLive, RegistersAsked, HandlerHeld, WorkReady, LeftAlone, ProgramsLost

LEMMA RemoveKeepsIInv ==
  ASSUME IInv, RemoveReturns \/ \E r \in Resources : Release(r)
  PROVE  IInv'
<1>1. CASE RemoveReturns
  <2>1. n = 7 /\ state = "removing" /\ state' = "unbound" /\ held' = held
    BY <1>1 DEF RemoveReturns
  <2>2. held' = {}
    BY <2>1, Positions DEF IInv, TypeOK, HeldAtMost, Removed
  <2>3. TypeOK'
    BY <1>1, <2>1 DEF RemoveReturns, IInv, TypeOK
  <2> QED
    BY <1>1, <2>1, <2>2, <2>3
    DEF RemoveReturns, IInv, ModuleLoaded, HeldAtMost, HeldAtLeast, HeldIsLive, RegistersAsked,
        HandlerHeld, WorkReady, LeftAlone, ProgramsLost
<1>2. ASSUME NEW r \in Resources, Release(r)
      PROVE  IInv'
  <2>1. /\ state = "removing" /\ state' = "removing" /\ n \in 0 .. 6 /\ n' = n + 1
        /\ RemoveAt[r] = n + 1 /\ held' = held \ {r}
    BY <1>2, RemoveOrder DEF Release, IInv, TypeOK
  <2>2. TypeOK'
    BY <1>2, <2>1 DEF Release, IInv, TypeOK, Pointers
  <2>3. Removed' = Removed \cup {r}
    BY <2>1, Positions, DistinctPositions DEF Removed
  <2>4. HeldAtMost' /\ HeldAtLeast'
    BY <1>2, <2>1, <2>3 DEF Release, IInv, HeldAtMost, HeldAtLeast
  <2>5. HeldIsLive'
    BY <1>2, <2>1 DEF Release, IInv, TypeOK, HeldIsLive
  <2>6. RemoveAt["irq"] = 1 /\ RemoveAt["bufmmio"] = 2 /\ "irq" \in Resources
    BY DEF RemoveAt, Resources, Pointers
  <2>7. HandlerHeld'
    BY <1>2, <2>1 DEF Release, IInv, HandlerHeld
  <2>8. r = "bufmmio" => "irq" \notin held
    BY <2>1, <2>6 DEF IInv, HeldAtMost, Removed
  <2>9. RegistersAsked'
    BY <1>2, <2>1, <2>8 DEF Release, IInv, TypeOK, RegistersAsked, Pointers
  <2> QED
    BY <1>2, <2>1, <2>2, <2>4, <2>5, <2>7, <2>9
    DEF Release, IInv, ModuleLoaded, WorkReady, LeftAlone, ProgramsLost
<1> QED
  BY <1>1, <1>2

LEMMA DriverKeepsIInv ==
  ASSUME IInv,
         \/ \E kind \in Kinds : Interrupt(kind)
         \/ HandlerReturns \/ WorkStarts \/ WorkEnds
  PROVE  IInv'
<1> USE DEF Interrupt, HandlerReturns, WorkStarts, WorkEnds
<1>1. UNCHANGED <<choices, core, driver>>
  OBVIOUS
<1>2. TypeOK'
  <2>1. programs' \in Nat
    BY DEF IInv, TypeOK
  <2>2. {typed', pending', running', injected'} \subseteq BOOLEAN
    BY DEF IInv, TypeOK
  <2>3. handler' \in Kinds \cup {"none"}
    BY DEF IInv, TypeOK
  <2> QED
    BY <1>1, <2>1, <2>2, <2>3 DEF IInv, TypeOK
<1>3. /\ ModuleLoaded' /\ HeldAtMost' /\ HeldAtLeast' /\ HeldIsLive' /\ RegistersAsked'
      /\ WorkReady'
  BY <1>1 DEF IInv, ModuleLoaded, HeldAtMost, HeldAtLeast, HeldIsLive, RegistersAsked, WorkReady,
     Probed, Removed
<1>4. HandlerHeld' /\ LeftAlone'
  BY DEF IInv, TypeOK, HandlerHeld, LeftAlone, Kinds
<1>5. ProgramsLost'
  <2>1. quiet /\ running => loads > 0
    BY DEF IInv, TypeOK, LeftAlone, ModuleLoaded
  <2>2. CASE WorkEnds
    BY <2>1, <2>2 DEF IInv, TypeOK, ProgramsLost
  <2>3. CASE ~WorkEnds
    <3>1. UNCHANGED <<quiet, loads, injected, programs>>
      BY <2>3
    <3> QED
      BY <3>1 DEF IInv, ProgramsLost
  <2> QED
    BY <2>2, <2>3
<1> QED
  BY <1>2, <1>3, <1>4, <1>5 DEF IInv

LEMMA NextKeepsIInv == IInv /\ [Next]_vars => IInv'
<1> SUFFICES ASSUME IInv, [Next]_vars PROVE IInv'
  OBVIOUS
<1>1. CASE Insmod \/ Bind \/ Unbind \/ Rmmod
  BY <1>1, CoreKeepsIInv
<1>2. CASE \E r \in Resources : Acquire(r) \/ AcquireFails(r)
  BY <1>2, AcquireKeepsIInv
<1>3. CASE InitWork \/ ResetType
  BY <1>3, InitWorkKeepsIInv
<1>4. CASE ProbeReturns \/ \E r \in Resources : ProbeError(r)
  BY <1>4, ProbeEndKeepsIInv
<1>5. CASE RemoveReturns \/ \E r \in Resources : Release(r)
  BY <1>5, RemoveKeepsIInv
<1>6. CASE (\E kind \in Kinds : Interrupt(kind)) \/ HandlerReturns \/ WorkStarts \/ WorkEnds
  BY <1>6, DriverKeepsIInv
<1>7. CASE UNCHANGED vars
  BY <1>7 DEF vars, IInv, TypeOK, ModuleLoaded, HeldAtMost, HeldAtLeast, HeldIsLive, RegistersAsked,
     HandlerHeld, WorkReady, LeftAlone, ProgramsLost, Probed, Removed
<1> QED
  BY <1>1, <1>2, <1>3, <1>4, <1>5, <1>6, <1>7 DEF Next

LEMMA InitIInv == Init => IInv
<1> SUFFICES ASSUME Init PROVE IInv
  OBVIOUS
<1>1. TypeOK
  <2>1. n \in 0 .. 9 /\ binds \in 0 .. MaxBinds /\ loads \in 0 .. binds /\ programs \in Nat
    BY DEF Init
  <2> QED
    BY <2>1 DEF Init, TypeOK
<1>2. ModuleLoaded /\ HeldAtMost /\ HeldAtLeast /\ HeldIsLive
  BY DEF Init, ModuleLoaded, HeldAtMost, HeldAtLeast, HeldIsLive
<1>3. RegistersAsked /\ HandlerHeld /\ WorkReady /\ LeftAlone /\ ProgramsLost
  BY DEF Init, RegistersAsked, HandlerHeld, WorkReady, LeftAlone, ProgramsLost
<1> QED
  BY <1>1, <1>2, <1>3 DEF IInv

(* The invariant is enough: what is released next is not yet released.     *)
LEMMA IInvSafe ==
  ASSUME IInv
  PROVE  /\ HandlerHasRegisters /\ WorkFindsDriver /\ ReleasesHeld
         /\ NothingLeaked /\ OneProgramPerLoading
<1>1. HandlerHasRegisters
  BY DEF IInv, HandlerHeld, RegistersAsked, HeldIsLive, HandlerHasRegisters, Pointers
<1>2. WorkFindsDriver
  BY DEF IInv, TypeOK, LeftAlone, HeldAtLeast, HeldIsLive, WorkReady, ModuleLoaded, WorkFindsDriver,
     Resources, Pointers
<1>3. ReleasesHeld
  <2> SUFFICES ASSUME ~failing, state = "removing", n < 7
               PROVE  RemoveSteps[n + 1] \in held
    BY DEF ReleasesHeld
  <2>1. n \in 0 .. 6
    BY DEF IInv, TypeOK
  <2>2. RemoveSteps[n + 1] \in Resources
    BY <2>1 DEF RemoveSteps, Resources, Pointers
  <2>3. RemoveSteps[n + 1] \notin Removed
    BY <2>1, <2>2, RemoveOrder DEF Removed
  <2> QED
    BY <2>2, <2>3 DEF IInv, HeldAtLeast
<1>4. NothingLeaked /\ OneProgramPerLoading
  BY DEF IInv, HeldAtMost, ProgramsLost, NothingLeaked, OneProgramPerLoading
<1> QED
  BY <1>1, <1>2, <1>3, <1>4

(* Whatever is refused, whatever interrupts, and however often the driver  *)
(* is loaded, bound and removed: the handler finds its registers, an       *)
(* unbound driver holds nothing, nothing is released that is not held      *)
(* unless something was refused, a driver left alone finds all it needs    *)
(* for its work, and each loading loses one program at most.               *)
THEOREM LifecycleSafety ==
  Spec => [](/\ TypeOK /\ HandlerHasRegisters /\ WorkFindsDriver
             /\ ReleasesHeld /\ NothingLeaked /\ OneProgramPerLoading)
<1>1. IInv => /\ TypeOK /\ HandlerHasRegisters /\ WorkFindsDriver
              /\ ReleasesHeld /\ NothingLeaked /\ OneProgramPerLoading
  BY IInvSafe DEF IInv
<1> QED
  BY <1>1, InitIInv, NextKeepsIInv, PTL DEF Spec
=============================================================================
