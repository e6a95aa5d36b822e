--------------------------- MODULE DriverLifecycle ---------------------------
(***************************************************************************)
(* Loading, binding, unbinding and unloading the guest driver: pci_probe() *)
(* and pci_remove() (shared/driver/driver.c) step by step, while the       *)
(* device may interrupt and the worker may have work.  The handler and the *)
(* worker are those of InjectionDriver, reduced to what they need.         *)
(***************************************************************************)
EXTENDS Naturals, Sequences

CONSTANT MaxBinds \* bound: probes in a behaviour

ASSUME MaxBindsAssumption == MaxBinds \in Nat

VARIABLES
  \* Chosen once: does the host interrupt only a driver whose probe has
  \* returned, and is the driver unbound only when it is idle?
  quiet,
  \* Chosen once: may what pci_probe() asks for be refused?
  failing,
  module,   \* is the module loaded?
  leaving,  \* is it being unloaded?
  state,    \* of the binding of driver and device, in the driver core
  n,        \* steps of pci_probe() or pci_remove() made
  returned, \* what pci_probe() returned
  held,     \* what the driver has acquired and not released
  pointers, \* the driver's globals: "null", "live", or "stale" once released
  ready,    \* INIT_WORK() has been called
  typed,    \* program_type is not 0
  handler,  \* what irq_handler() is handling, or "none"
  pending, running, \* the work item
  injected, \* bpf_injected_prog is not NULL
  programs, \* injected programs allocated and not freed
  binds,
  loads     \* times the module was loaded

choices == <<quiet, failing>>
core    == <<module, leaving, state, n, returned, binds, loads>>
driver  == <<held, pointers, ready>>
work    == <<pending, running>>
loaded  == <<injected, programs>>
vars    == <<choices, core, driver, typed, handler, work, loaded>>

Kinds == {"program", "start", "other"}
Pointers == {"bufmmio", "migration_buffer", "ctx"}
Resources == Pointers \cup {"chrdev", "device", "region", "irq"}

(* The order of pci_probe() and pci_remove(). *)
ProbeSteps_NoRegion ==
  <<"chrdev", "device", "bufmmio", "irq", "work", "type",
    "migration_buffer", "ctx">>
ProbeSteps_NoInitWork ==
  <<"chrdev", "device", "region", "bufmmio", "irq", "type",
    "migration_buffer", "ctx">>
ProbeSteps ==
  <<"chrdev", "device", "region", "bufmmio", "irq", "work", "type",
    "migration_buffer", "ctx">>

RemoveSteps_UnmapFirst ==
  <<"bufmmio", "irq", "device", "region", "chrdev", "ctx", "migration_buffer">>
RemoveSteps_KeepContext ==
  <<"irq", "bufmmio", "device", "region", "chrdev", "migration_buffer">>
RemoveSteps_FreeTwice ==
  <<"irq", "bufmmio", "device", "region", "chrdev", "ctx", "migration_buffer",
    "chrdev", "ctx", "migration_buffer">>
RemoveSteps ==
  <<"irq", "bufmmio", "device", "region", "chrdev", "ctx", "migration_buffer">>

(* The failures pci_probe() looks for, by giving up. *)
Checked == {"device", "region", "irq"}

TypeOK ==
  /\ quiet \in BOOLEAN /\ failing \in BOOLEAN
  /\ module \in BOOLEAN /\ leaving \in BOOLEAN
  /\ state \in {"unbound", "probing", "bound", "removing"}
  /\ n \in 0 .. Len(ProbeSteps)
  /\ returned \in {0, 1}
  /\ held \subseteq Resources
  /\ pointers \in [Pointers -> {"null", "live", "stale"}]
  /\ ready \in BOOLEAN /\ typed \in BOOLEAN
  /\ handler \in Kinds \cup {"none"}
  /\ pending \in BOOLEAN /\ running \in BOOLEAN
  /\ injected \in BOOLEAN /\ programs \in Nat
  /\ binds \in 0 .. MaxBinds /\ loads \in 0 .. binds

Init ==
  /\ quiet \in BOOLEAN /\ failing \in BOOLEAN
  /\ module = FALSE /\ leaving = FALSE
  /\ state = "unbound" /\ n = 0 /\ returned = 0
  /\ binds = 0 /\ loads = 0
  /\ held = {} /\ pointers = [p \in Pointers |-> "null"] /\ ready = FALSE
  /\ typed = FALSE
  /\ handler = "none" /\ pending = FALSE /\ running = FALSE
  /\ injected = FALSE /\ programs = 0

-----------------------------------------------------------------------------
(***************************************************************************)
(* The driver core (external), on insmod, rmmod, bind and unbind.          *)
(***************************************************************************)
StartProbe ==
  /\ state' = "probing" /\ n' = 0
  /\ binds < MaxBinds /\ binds' = binds + 1

(* insmod: fresh globals; myinit() registers the driver, which is probed.  *)
(* A program of an earlier loading is still allocated, and lost.           *)
Insmod ==
  /\ ~module /\ module' = TRUE /\ loads' = loads + 1
  /\ StartProbe
  /\ pointers' = [p \in Pointers |-> "null"] /\ ready' = FALSE
  /\ typed' = FALSE /\ injected' = FALSE
  /\ UNCHANGED <<choices, leaving, returned, held, handler, work, programs>>

Bind ==
  /\ module /\ ~leaving /\ state = "unbound"
  /\ StartProbe
  /\ UNCHANGED <<choices, module, leaving, returned, loads, driver, typed,
                 handler, work, loaded>>

Idle == handler = "none" /\ ~pending /\ ~running

(* Unbinding the device, or rmmod, which calls myexit(). *)
Unbind ==
  /\ module /\ state = "bound"
  /\ quiet => Idle
  /\ state' = "removing" /\ n' = 0
  /\ leaving' \in BOOLEAN
  /\ UNCHANGED <<choices, module, returned, binds, loads, driver, typed,
                 handler, work, loaded>>

Rmmod ==
  /\ module /\ state = "unbound"
  /\ module' = FALSE /\ leaving' = FALSE
  /\ UNCHANGED <<choices, state, n, returned, binds, loads, driver, typed,
                 handler, work, loaded>>

-----------------------------------------------------------------------------
(***************************************************************************)
(* pci_probe(): one step for each thing it acquires.                       *)
(***************************************************************************)
Probing(step) == state = "probing" /\ n < Len(ProbeSteps) /\ ProbeSteps[n + 1] = step

Acquire(r) ==
  /\ Probing(r)
  /\ held' = held \cup {r}
  /\ pointers' = IF r \in Pointers THEN [pointers EXCEPT ![r] = "live"]
                 ELSE pointers
  /\ n' = n + 1
  /\ UNCHANGED <<choices, module, leaving, state, returned, binds, loads,
                 ready, typed, handler, work, loaded>>

(* What the interrupt, requested just before, may have queued is undone.   *)
InitWork ==
  /\ Probing("work")
  /\ ready' = TRUE /\ pending' = FALSE
  /\ n' = n + 1
  /\ UNCHANGED <<choices, module, leaving, state, returned, binds, loads, held,
                 pointers, typed, handler, running, loaded>>

(* program_type = 0: what it may have queued since loses its type.         *)
ResetType_Installed ==
  /\ Probing("type")
  /\ typed' = FALSE /\ injected' = FALSE
  /\ n' = n + 1
  /\ UNCHANGED <<choices, module, leaving, state, returned, binds, loads,
                 driver, handler, work, programs>>
ResetType ==
  /\ Probing("type")
  /\ typed' = FALSE
  /\ n' = n + 1
  /\ UNCHANGED <<choices, module, leaving, state, returned, binds, loads,
                 driver, handler, work, loaded>>

(* Without a major number, a mapping or memory pci_probe() carries on. *)
AcquireFails(r) ==
  /\ failing /\ r \notin Checked
  /\ Probing(r)
  /\ pointers' = IF r \in Pointers THEN [pointers EXCEPT ![r] = "null"]
                 ELSE pointers
  /\ n' = n + 1
  /\ UNCHANGED <<choices, module, leaving, state, returned, binds, loads,
                 held, ready, typed, handler, work, loaded>>

(* error: it returns 1, releasing nothing; the driver core takes a result  *)
(* that is not negative for success.                                       *)
ProbeError(r) ==
  /\ failing /\ r \in Checked
  /\ Probing(r)
  /\ returned' = 1
  /\ state' = "bound"
  /\ UNCHANGED <<choices, module, leaving, n, binds, loads, driver, typed,
                 handler, work, loaded>>

ProbeReturns ==
  /\ state = "probing" /\ n = Len(ProbeSteps)
  /\ returned' = 0
  /\ state' = "bound"
  /\ UNCHANGED <<choices, module, leaving, n, binds, loads, driver, typed,
                 handler, work, loaded>>

-----------------------------------------------------------------------------
(***************************************************************************)
(* pci_remove(): it releases everything, never looks whether it has it,    *)
(* and does not wait for the worker; free_irq() waits for the handler.     *)
(* Releasing what is not held is reported by the kernel or, through a      *)
(* stale pointer, a double free; the model carries on.                     *)
(***************************************************************************)
Release(r) ==
  /\ state = "removing" /\ n < Len(RemoveSteps) /\ RemoveSteps[n + 1] = r
  /\ r = "irq" => handler = "none"
  /\ held' = held \ {r}
  /\ pointers' = IF r \in Pointers /\ pointers[r] = "live"
                 THEN [pointers EXCEPT ![r] = "stale"] ELSE pointers
  /\ n' = n + 1
  /\ UNCHANGED <<choices, module, leaving, state, returned, binds, loads,
                 ready, typed, handler, work, loaded>>

RemoveReturns ==
  /\ state = "removing" /\ n = Len(RemoveSteps)
  /\ state' = "unbound"
  /\ module' = ~leaving /\ leaving' = FALSE
  /\ UNCHANGED <<choices, n, returned, binds, loads, driver, typed, handler,
                 work, loaded>>

-----------------------------------------------------------------------------
(***************************************************************************)
(* irq_handler() and execute_work(), running while all this goes on.  The  *)
(* line is shared: it may be called for another device at any time.        *)
(***************************************************************************)
Interrupt(kind) ==
  /\ "irq" \in held /\ handler = "none"
  /\ quiet => state = "bound" \/ kind = "other"
  /\ handler' = kind
  /\ UNCHANGED <<choices, core, driver, typed, work, loaded>>

HandlerReturns ==
  /\ handler # "none" /\ handler' = "none"
  /\ typed' = (typed \/ handler = "program")
  /\ pending' = (pending \/ handler = "program")
  /\ UNCHANGED <<choices, core, driver, running, loaded>>

WorkStarts ==
  /\ pending /\ ~running
  /\ pending' = FALSE /\ running' = TRUE
  /\ UNCHANGED <<choices, core, driver, typed, handler, loaded>>

(* The previous program was freed, the new one is installed and runs.      *)
WorkEnds ==
  /\ running /\ running' = FALSE
  /\ injected' = TRUE
  /\ programs' = IF injected THEN programs ELSE programs + 1
  /\ UNCHANGED <<choices, core, driver, typed, handler, pending>>

-----------------------------------------------------------------------------
Next ==
  \/ Insmod \/ Bind \/ Unbind \/ Rmmod
  \/ \E r \in Resources :
       Acquire(r) \/ AcquireFails(r) \/ ProbeError(r) \/ Release(r)
  \/ InitWork \/ ResetType \/ ProbeReturns \/ RemoveReturns
  \/ \E kind \in Kinds : Interrupt(kind)
  \/ HandlerReturns \/ WorkStarts \/ WorkEnds

Spec == Init /\ [][Next]_vars

-----------------------------------------------------------------------------
(***************************************************************************)
(* Properties.                                                             *)
(***************************************************************************)

(* irq_handler() runs only while bufmmio is mapped, or was refused, from   *)
(* the middle of pci_probe() to the middle of pci_remove(): even when      *)
(* pci_probe() failed and pci_remove() was called all the same.            *)
HandlerHasRegisters ==
  handler # "none" =>
    \/ pointers["bufmmio"] = "live" /\ "bufmmio" \in held
    \/ failing /\ pointers["bufmmio"] = "null"

(* With a quiet host, and memory for all, work finds what it uses: the     *)
(* module, its function, its type, the mapping and the context; and a      *)
(* migration start finds the buffer.                                       *)
WorkFindsDriver ==
  quiet /\ ~failing =>
    /\ pending \/ running =>
         /\ module /\ ready /\ typed
         /\ pointers["bufmmio"] = "live" /\ pointers["ctx"] = "live"
    /\ handler = "start" => pointers["migration_buffer"] = "live"

(* When nothing was refused pci_remove() releases only what is held, each  *)
(* thing once, however often the driver is bound and loaded.               *)
ReleasesHeld ==
  ~failing /\ state = "removing" /\ n < Len(RemoveSteps) =>
    RemoveSteps[n + 1] \in held

(* An unbound driver holds nothing, whatever pci_probe() was refused.      *)
NothingLeaked == state = "unbound" => held = {}

(* pci_remove() leaves the injected program, and bpf_injected_prog, to the *)
(* next binding, whose first injection frees it: only unloading the module *)
(* loses a program, one at most, however often the driver was bound and    *)
(* whatever was injected.                                                  *)
OneProgramPerLoading == quiet => programs <= loads

(* driver.c says of the result of pci_probe() "1: failed": a driver whose  *)
(* probe failed is not bound to the device.                                *)
FailedIsNotBound == state = "bound" => returned = 0
=============================================================================
