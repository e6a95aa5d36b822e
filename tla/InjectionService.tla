-------------------------- MODULE InjectionService --------------------------
(***************************************************************************)
(* What program injection promises, seen from the host: every program it   *)
(* sends is executed in the guest, once, in the order of sending, as long  *)
(* as the host keeps to the rule the promise is for.                       *)
(***************************************************************************)
EXTENDS BpfProgram

CONSTANT Injections \* the messages the host may send

VARIABLES
  kept,    \* the host has kept to the rule
  sent,    \* messages sent so far
  executed \* programs executed so far

vars == <<kept, sent, executed>>

Init == kept = TRUE /\ sent = <<>> /\ executed = <<>>

Inject(m) ==
  kept /\ sent' = Append(sent, m) /\ UNCHANGED <<kept, executed>>

Execute ==
  /\ kept /\ Len(executed) < Len(sent)
  /\ executed' = Append(executed, ProgramOf(sent[Len(executed) + 1]))
  /\ UNCHANGED <<kept, sent>>

(* The host breaks the rule: nothing is promised from then on. *)
Unpromised == kept' = FALSE

Next == (\E m \in Injections : Inject(m)) \/ Execute \/ Unpromised

Spec == Init /\ [][Next]_vars /\ WF_vars(Execute)
=============================================================================
