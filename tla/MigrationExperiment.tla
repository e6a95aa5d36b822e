------------------------- MODULE MigrationExperiment -------------------------
(***************************************************************************)
(* script2.sh: one guest migrated back and forth between two QEMUs, 1      *)
(* (ssh 2222, monitor 5324, incoming 5555) and 2 (2223, 5325, 4444), paced *)
(* by nothing but sleeps.  Terminals, QEMU and the migration take their    *)
(* own time, counted down in seconds: 0 is "none", 1 is "now".             *)
(***************************************************************************)
EXTENDS Naturals

CONSTANTS
  MaxStartup,  \* bound: seconds until a started QEMU listens
  MaxLag,      \* bound: seconds until a command in a new terminal runs
  MaxDuration, \* bound: seconds a migration takes
  ResultAfter, QuitAfter \* seconds from its start until its result is asked
                         \* for, and until its source may be told to quit

ASSUME DelaysAssumption ==
  /\ MaxStartup \in Nat /\ MaxLag \in Nat /\ MaxDuration \in Nat
  /\ ResultAfter \in Nat /\ QuitAfter \in Nat

VARIABLES
  pc, source, \* the script's next command, and the VM it migrates from
  wait,       \* seconds it still sleeps
  result,     \* what "info migrate" last wrote to result_$c.txt
  qemu,       \* the QEMU on the ports of each VM
  startup,    \* seconds until the destination listens
  duration,   \* seconds until the migration is over
  lag,        \* seconds until a client of a monitor runs
  open,       \* seconds until timeout kills it
  served,     \* clients whose command the monitor has executed
  \* History: a migration was not over ResultAfter seconds after the script
  \* ordered it; nor QuitAfter, or a destination took a second to be up.
  slow, overdue

script  == <<pc, source, wait>>
clients == <<lag, open, served>>
history == <<slow, overdue>>
vars    == <<script, result, qemu, startup, duration, clients, history>>

VMs == {1, 2}
Other(v) == 3 - v
Clients == {"migrate", "info", "quit"} \X VMs

(* What the script sleeps after a command, and its timeout for a client.   *)
Sleep_QuitAtOnce ==
  [fill |-> 45, start |-> 1, migrate |-> 25, info |-> 0, quit |-> 0]
Sleep ==
  [fill |-> 45, start |-> 1, migrate |-> 25, info |-> 2, quit |-> 0]

Timeout_AsLong == [migrate |-> 40, info |-> 3, quit |-> 3]
Timeout == [migrate |-> 20, info |-> 3, quit |-> 3]

Delay(max) == 1 .. max + 1

TypeOK ==
  /\ pc \in {"fill", "start", "migrate", "info", "asked", "quit"}
  /\ source \in VMs /\ wait \in 0 .. 45
  /\ result \in {"nothing", "not migrated", "active", "completed"}
  /\ qemu \in [VMs -> {"off", "incoming", "guest", "sending", "sent"}]
  /\ startup \in 0 .. MaxStartup + 1
  /\ duration \in 0 .. MaxDuration + 1
  /\ lag \in [Clients -> 0 .. MaxLag + 1]
  /\ open \in [Clients -> 0 .. 21]
  /\ served \subseteq Clients
  /\ slow \in BOOLEAN /\ overdue \in BOOLEAN

(* buildubuntu.sh has started the guest on VM 1.                           *)
Init ==
  /\ pc = "fill" /\ source = 1 /\ wait = 0 /\ result = "nothing"
  /\ qemu = [v \in VMs |-> IF v = 1 THEN "guest" ELSE "off"]
  /\ startup = 0 /\ duration = 0
  /\ lag = [c \in Clients |-> 0] /\ open = [c \in Clients |-> 0]
  /\ served = {}
  /\ slow = FALSE /\ overdue = FALSE

-----------------------------------------------------------------------------
(***************************************************************************)
(* script2.sh, line by line; a command given a terminal of its own has yet *)
(* to run.                                                                 *)
(***************************************************************************)
Command(here, next) ==
  /\ pc = here /\ wait = 0 /\ pc' = next
  /\ wait' = Sleep[here]

(* ssh to the source, in the background: the guest fills its memory.       *)
Fill ==
  /\ Command("fill", "start")
  /\ UNCHANGED <<source, result, qemu, startup, duration, clients, history>>

StartDestination ==
  /\ Command("start", "migrate")
  /\ startup' \in Delay(MaxStartup)
  /\ overdue' = (overdue \/ startup' > 1)
  /\ UNCHANGED <<source, result, qemu, duration, clients, slow>>

Migrate ==
  /\ Command("migrate", "info")
  /\ \E d \in Delay(MaxLag) : lag' = [lag EXCEPT ![<<"migrate", source>>] = d]
  /\ UNCHANGED <<source, result, qemu, startup, duration, open, served,
                 history>>

(* "info migrate" runs in the script, which waits for it.                  *)
Info ==
  /\ pc = "info" /\ wait = 0 /\ pc' = "asked"
  /\ lag' = [lag EXCEPT ![<<"info", source>>] = 1]
  /\ result' = "nothing"
  /\ UNCHANGED <<source, wait, qemu, startup, duration, open, served, history>>

InfoEnds ==
  /\ pc = "asked" /\ pc' = "quit"
  /\ lag[<<"info", source>>] = 0 /\ open[<<"info", source>>] = 0
  /\ wait' = Sleep.info
  /\ UNCHANGED <<source, result, qemu, startup, duration, clients, history>>

(* And from the top, with the VMs exchanged.                               *)
Quit_NotExchanged ==
  /\ Command("quit", "fill")
  /\ \E d \in Delay(MaxLag) : lag' = [lag EXCEPT ![<<"quit", source>>] = d]
  /\ UNCHANGED <<source, result, qemu, startup, duration, open, served,
                 history>>
Quit ==
  /\ Command("quit", "fill")
  /\ source' = Other(source)
  /\ \E d \in Delay(MaxLag) : lag' = [lag EXCEPT ![<<"quit", source>>] = d]
  /\ UNCHANGED <<result, qemu, startup, duration, open, served, history>>

-----------------------------------------------------------------------------
(***************************************************************************)
(* QEMU (external): a monitor serves one client at a time, and nc may keep *)
(* the connection until its timeout.                                       *)
(***************************************************************************)

(* The ports are taken as long as the VM's previous QEMU runs.             *)
Listen ==
  /\ startup = 1 /\ startup' = 0
  /\ LET v == Other(source) IN
     qemu' = IF qemu[v] = "off" THEN [qemu EXCEPT ![v] = "incoming"] ELSE qemu
  /\ UNCHANGED <<script, result, duration, clients, history>>

Connect(c) ==
  /\ lag[c] = 1 /\ lag' = [lag EXCEPT ![c] = 0]
  /\ open' = [open EXCEPT ![c] = IF qemu[c[2]] = "off" THEN 0
                                 ELSE Timeout[c[1]] + 1]
  /\ UNCHANGED <<script, result, qemu, startup, duration, served, history>>

Servable(c) ==
  /\ open[c] > 0 /\ c \notin served
  /\ \A d \in served : d[2] # c[2]

Serve(c) ==
  /\ Servable(c) /\ served' = served \cup {c}
  /\ UNCHANGED <<script, lag, open, startup>>

(* migrate -d: refused unless the guest is here and the destination up.    *)
ServeMigrate(v) ==
  /\ Serve(<<"migrate", v>>)
  /\ IF qemu[v] = "guest" /\ qemu[Other(v)] = "incoming"
     THEN /\ qemu' = [qemu EXCEPT ![v] = "sending"]
          /\ duration' \in Delay(MaxDuration)
          /\ LET over == Sleep.migrate - wait + duration' - 1 IN
             /\ slow' = (slow \/ over >= ResultAfter)
             /\ overdue' = (overdue \/ over >= QuitAfter)
     ELSE UNCHANGED <<qemu, duration, history>>
  /\ UNCHANGED result

ServeInfo(v) ==
  /\ Serve(<<"info", v>>)
  /\ result' = CASE qemu[v] = "sending" -> "active"
                 [] qemu[v] = "sent"    -> "completed"
                 [] OTHER               -> "not migrated"
  /\ UNCHANGED <<qemu, duration, history>>

(* q, whatever this QEMU is doing; one left half way through a migration   *)
(* exits too, or has the guest again.                                      *)
ServeQuit(v) ==
  /\ Servable(<<"quit", v>>)
  /\ LET left == CASE qemu[v] = "sending"        -> "off"
                    [] qemu[Other(v)] = "sending" -> "guest"
                    [] OTHER                      -> qemu[Other(v)] IN
     qemu' = [qemu EXCEPT ![v] = "off", ![Other(v)] = left]
  /\ duration' = 0
  /\ open' = [c \in Clients |-> IF c[2] = v THEN 0 ELSE open[c]]
  /\ served' = {c \in served : c[2] # v}
  /\ UNCHANGED <<script, result, startup, lag, history>>

MigrationEnds ==
  /\ duration = 1 /\ duration' = 0
  /\ \E v \in VMs :
       /\ qemu[v] = "sending"
       /\ qemu' = [qemu EXCEPT ![v] = "sent", ![Other(v)] = "guest"]
  /\ UNCHANGED <<script, result, startup, clients, history>>

(* nc ends, by itself or killed by timeout.                                *)
Disconnect(c) ==
  /\ c \in served \/ open[c] = 1
  /\ open' = [open EXCEPT ![c] = 0] /\ served' = served \ {c}
  /\ UNCHANGED <<script, result, qemu, startup, duration, lag, history>>

Minus1(k) == IF k = 0 THEN 0 ELSE k - 1

(* A second passes when nothing is due in this one.                        *)
Tick ==
  /\ wait > 0 \/ pc = "asked"
  /\ startup # 1 /\ duration # 1
  /\ \A c \in Clients : lag[c] # 1 /\ open[c] # 1 /\ ~Servable(c)
  /\ wait' = Minus1(wait)
  /\ startup' = Minus1(startup) /\ duration' = Minus1(duration)
  /\ lag' = [c \in Clients |-> Minus1(lag[c])]
  /\ open' = [c \in Clients |-> Minus1(open[c])]
  /\ UNCHANGED <<pc, source, result, qemu, served, history>>

Next ==
  \/ Fill \/ StartDestination \/ Migrate \/ Info \/ InfoEnds \/ Quit
  \/ Listen \/ MigrationEnds
  \/ \E c \in Clients : Connect(c) \/ Disconnect(c)
  \/ \E v \in VMs : ServeMigrate(v) \/ ServeInfo(v) \/ ServeQuit(v)
  \/ Tick

(* Time passes.                                                            *)
Spec == Init /\ [][Next]_vars /\ WF_vars(Next)

-----------------------------------------------------------------------------
(***************************************************************************)
(* Properties.                                                             *)
(***************************************************************************)

(* The source is told to quit when the guest has left it: the guest is     *)
(* never lost, unless a migration took longer than the script has patience *)
(* for, or a destination was not up within the second it is given.         *)
GuestSurvives == ~overdue => \E v \in VMs : qemu[v] \in {"guest", "sending"}

(* What is kept as the result of a migration is that of a completed one.   *)
ResultIsFinal == pc = "quit" /\ ~slow /\ ~overdue => result = "completed"

(* The guest goes back and forth for as long as the script runs.           *)
BackAndForth == []~overdue => \A v \in VMs : []<>(qemu[v] = "guest")
=============================================================================
