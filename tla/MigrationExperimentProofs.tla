---------------------- MODULE MigrationExperimentProofs ----------------------
(***************************************************************************)
(* Why the guest survives script2.sh, and its results are final, however   *)
(* long QEMU and the migrations take, as long as they leave the script the *)
(* time it has.                                                            *)
(***************************************************************************)
EXTENDS MigrationExperiment, TLAPS

(* The time script2.sh has: a terminal that takes 8 seconds has nc keep    *)
(* the monitor (20 seconds) until "info migrate" (3 seconds, 25 after the  *)
(* start) has given up.                                                    *)
ScriptHasTime == MaxLag <= 7 /\ ResultAfter <= 25 /\ QuitAfter <= 27

-----------------------------------------------------------------------------
(***************************************************************************)
(* The inductive invariant: one predicate for each part of a round.        *)
(***************************************************************************)
destination   == Other(source)
migrateClient == <<"migrate", source>>
infoClient    == <<"info", source>>
quitClient    == <<"quit", destination>> \* of the round before

OnlyClients(C) ==
  /\ served \subseteq C
  /\ \A c \in Clients \ C : lag[c] = 0 /\ open[c] = 0

(* A client that has connected is the one the monitor serves.              *)
Holding(c) == IF open[c] > 0 THEN {c} ELSE {}

(* The guest has come; what it came from quits before long.                *)
Left == IF pc = "fill" THEN 45 ELSE wait
Arrived ==
  /\ (pc = "fill" /\ wait = 0) \/ pc = "start"
  /\ startup = 0 /\ duration = 0
  /\ OnlyClients({quitClient}) /\ served = {}
  /\ \/ lag[quitClient] = 0 /\ open[quitClient] = 0
     \/ lag[quitClient] \in 1 .. Left - 37 /\ open[quitClient] = 0
     \/ lag[quitClient] = 0 /\ open[quitClient] = 4 /\ Left > 37
  /\ qemu[source] = "guest"
  /\ \/ qemu[destination] = "off"
     \/ /\ qemu[destination] = "sent"
        /\ lag[quitClient] > 0 \/ open[quitClient] > 0

(* The destination has a second to listen.                                 *)
Starting ==
  /\ pc = "migrate" /\ wait <= 1 /\ duration = 0 /\ OnlyClients({})
  /\ qemu[source] = "guest"
  /\ \/ startup = 1 /\ wait = 1 /\ qemu[destination] = "off"
     \/ startup = 0 /\ qemu[destination] = "incoming"

(* The migration has been ordered, but not yet of the monitor.             *)
Ordered ==
  /\ pc = "info" /\ startup = 0 /\ duration = 0
  /\ OnlyClients({migrateClient}) /\ served = {}
  /\ \/ lag[migrateClient] \in 1 .. wait - 17 /\ open[migrateClient] = 0
     \/ lag[migrateClient] = 0 /\ open[migrateClient] = 21 /\ wait >= 18
  /\ qemu[source] = "guest" /\ qemu[destination] = "incoming"

(* It ends within so many seconds, or two less unless it is slow.          *)
EndsWithin(seconds) ==
  \/ /\ qemu[source] = "sending" /\ qemu[destination] = "incoming"
     /\ duration \in 1 .. seconds
     /\ ~slow => duration <= seconds - 2
  \/ qemu[source] = "sent" /\ qemu[destination] = "guest" /\ duration = 0

Migrating ==
  /\ pc = "info" /\ startup = 0
  /\ OnlyClients({migrateClient}) /\ lag[migrateClient] = 0
  /\ open[migrateClient] <= wait + 3
  /\ served = Holding(migrateClient)
  /\ EndsWithin(wait + 2)

(* The monitor comes free for "info migrate" before that gives up.         *)
Asking ==
  /\ pc = "asked" /\ wait = 0 /\ startup = 0
  /\ OnlyClients({migrateClient, infoClient}) /\ lag[migrateClient] = 0
  /\ \/ /\ lag[infoClient] = 1 /\ open[infoClient] = 0
        /\ open[migrateClient] <= 3
        /\ served = Holding(migrateClient)
     \/ /\ lag[infoClient] = 0 /\ open[infoClient] \in 2 .. 4
        /\ open[migrateClient] < open[infoClient]
        /\ served = Holding(migrateClient)
     \/ /\ lag[infoClient] = 0 /\ open[migrateClient] = 0
        /\ served = Holding(infoClient)
        /\ ~slow => result = "completed"
  /\ EndsWithin(2)

Quitting ==
  /\ pc = "quit" /\ startup = 0 /\ OnlyClients({})
  /\ EndsWithin(wait) /\ wait <= 2
  /\ ~slow => result = "completed"

OnTime ==
  \/ Arrived \/ Starting \/ Ordered \/ Migrating \/ Asking \/ Quitting

IInv == TypeOK /\ (~overdue => OnTime)

-----------------------------------------------------------------------------
LEMMA SleepsAndTimeouts ==
  /\ Sleep.fill = 45 /\ Sleep.start = 1 /\ Sleep.migrate = 25
  /\ Sleep.info = 2 /\ Sleep.quit = 0
  /\ Timeout["migrate"] = 20 /\ Timeout["info"] = 3 /\ Timeout["quit"] = 3
BY DEF Sleep, Timeout

LEMMA ClientsOfMonitors ==
  ASSUME NEW c \in Clients
  PROVE  /\ c[1] \in {"migrate", "info", "quit"} /\ c[2] \in VMs
         /\ c = <<c[1], c[2]>>
BY DEF Clients

LEMMA VMsAndClients ==
  ASSUME TypeOK
  PROVE  /\ source \in VMs /\ destination \in VMs /\ VMs = {source, destination}
         /\ source # destination /\ Other(destination) = source
         /\ {migrateClient, infoClient, quitClient} \subseteq Clients
         /\ migrateClient # infoClient
         /\ migrateClient[1] = "migrate" /\ migrateClient[2] = source
         /\ infoClient[1] = "info" /\ infoClient[2] = source
         /\ quitClient[1] = "quit" /\ quitClient[2] = destination
<1>1. /\ source \in VMs /\ destination \in VMs /\ VMs = {source, destination}
      /\ source # destination /\ Other(destination) = source
  <2>1. source \in {1, 2}
    BY DEF TypeOK, VMs
  <2> QED BY <2>1 DEF VMs, destination, Other
<1>2. {migrateClient, infoClient, quitClient} \subseteq Clients
  BY <1>1 DEF Clients, migrateClient, infoClient, quitClient
<1>3. /\ migrateClient[1] = "migrate" /\ migrateClient[2] = source
      /\ infoClient[1] = "info" /\ infoClient[2] = source
      /\ quitClient[1] = "quit" /\ quitClient[2] = destination
  BY DEF migrateClient, infoClient, quitClient
<1>4. migrateClient # infoClient
  BY <1>3
<1> QED BY <1>1, <1>2, <1>3, <1>4

LEMMA SameSource ==
  ASSUME source' = source
  PROVE  /\ destination' = destination /\ migrateClient' = migrateClient
         /\ infoClient' = infoClient /\ quitClient' = quitClient
BY DEF destination, Other, migrateClient, infoClient, quitClient

-----------------------------------------------------------------------------
(***************************************************************************)
(* Types.                                                                  *)
(***************************************************************************)
LEMMA InitTypeOK == Init => TypeOK
<1> SUFFICES ASSUME Init PROVE TypeOK
  OBVIOUS
<1>1. /\ startup \in 0 .. MaxStartup + 1 /\ duration \in 0 .. MaxDuration + 1
      /\ lag \in [Clients -> 0 .. MaxLag + 1]
  BY DelaysAssumption DEF Init
<1>2. slow \in BOOLEAN /\ overdue \in BOOLEAN
  BY DEF Init
<1>3. qemu \in [VMs -> {"off", "incoming", "guest", "sending", "sent"}]
  BY DEF Init
<1>4. open \in [Clients -> 0 .. 21] /\ served \subseteq Clients
  BY DEF Init
<1>5. pc = "fill" /\ source \in VMs /\ wait = 0 /\ result = "nothing"
  BY DEF Init, VMs
<1> QED BY <1>1, <1>2, <1>3, <1>4, <1>5 DEF TypeOK

LEMMA ScriptKeepsTypeOK ==
  ASSUME TypeOK,
         Fill \/ StartDestination \/ Migrate \/ Info \/ InfoEnds \/ Quit
  PROVE  TypeOK'
<1>0. Sleep.fill \in 0 .. 45 /\ Sleep.start \in 0 .. 45
      /\ Sleep.migrate \in 0 .. 45 /\ Sleep.info \in 0 .. 45
      /\ Sleep.quit \in 0 .. 45
      /\ Sleep["fill"] = Sleep.fill /\ Sleep["start"] = Sleep.start
      /\ Sleep["migrate"] = Sleep.migrate /\ Sleep["quit"] = Sleep.quit
  BY SleepsAndTimeouts
<1>1. pc' \in {"fill", "start", "migrate", "info", "asked", "quit"}
  BY DEF Fill, StartDestination, Migrate, Info, InfoEnds, Quit, Command
<1>2. wait' \in 0 .. 45
  BY <1>0 DEF Fill, StartDestination, Migrate, Info, InfoEnds, Quit, Command,
              TypeOK
<1>3. source' \in VMs
  <2>1. source \in VMs /\ Other(source) \in VMs
    BY VMsAndClients DEF destination
  <2> QED BY <2>1 DEF Fill, StartDestination, Migrate, Info, InfoEnds, Quit
<1>4. result' \in {"nothing", "not migrated", "active", "completed"}
  BY DEF Fill, StartDestination, Migrate, Info, InfoEnds, Quit, TypeOK
<1>5. startup' \in 0 .. MaxStartup + 1
  <2>1. \A d \in Delay(MaxStartup) : d \in 0 .. MaxStartup + 1
    BY DelaysAssumption DEF Delay
  <2>2. startup \in 0 .. MaxStartup + 1
    BY DEF TypeOK
  <2> QED BY <2>1, <2>2 DEF Fill, StartDestination, Migrate, Info, InfoEnds, Quit
<1>6. lag' \in [Clients -> 0 .. MaxLag + 1]
  <2>1. \A d \in Delay(MaxLag) : d \in 0 .. MaxLag + 1
    BY DelaysAssumption DEF Delay
  <2>2. 1 \in 0 .. MaxLag + 1
    BY DelaysAssumption
  <2> QED BY <2>1, <2>2 DEF Fill, StartDestination, Migrate, Info, InfoEnds,
                            Quit, clients, TypeOK
<1>7. UNCHANGED <<qemu, duration, open, served, slow>>
  BY DEF Fill, StartDestination, Migrate, Info, InfoEnds, Quit, clients, history
<1>8. overdue' \in BOOLEAN
  BY DEF Fill, StartDestination, Migrate, Info, InfoEnds, Quit, history, TypeOK
<1> QED BY <1>1, <1>2, <1>3, <1>4, <1>5, <1>6, <1>7, <1>8 DEF TypeOK

LEMMA QemuKeepsTypeOK ==
  ASSUME TypeOK,
         \/ Listen \/ MigrationEnds
         \/ \E v \in VMs : ServeMigrate(v) \/ ServeInfo(v) \/ ServeQuit(v)
  PROVE  TypeOK'
<1>1. UNCHANGED <<pc, source, wait, lag>>
  BY DEF Listen, MigrationEnds, ServeMigrate, ServeInfo, ServeQuit, Serve, script,
         clients
<1>2. startup' \in 0 .. MaxStartup + 1
  <2>1. startup \in 0 .. MaxStartup + 1
    BY DEF TypeOK
  <2>2. 0 \in 0 .. MaxStartup + 1
    BY DelaysAssumption
  <2> QED BY <2>1, <2>2 DEF Listen, MigrationEnds, ServeMigrate, ServeInfo, ServeQuit,
                      Serve
<1>3. duration' \in 0 .. MaxDuration + 1
  <2>1. \A d \in Delay(MaxDuration) : d \in 0 .. MaxDuration + 1
    BY DelaysAssumption DEF Delay
  <2>2. duration \in 0 .. MaxDuration + 1
    BY DEF TypeOK
  <2>3. 0 \in 0 .. MaxDuration + 1
    BY DelaysAssumption
  <2> QED BY <2>1, <2>2, <2>3 DEF Listen, MigrationEnds, ServeMigrate, ServeInfo,
                            ServeQuit
<1>4. result' \in {"nothing", "not migrated", "active", "completed"}
  BY DEF Listen, MigrationEnds, ServeMigrate, ServeInfo, ServeQuit, TypeOK
<1>5. qemu' \in [VMs -> {"off", "incoming", "guest", "sending", "sent"}]
  <2>1. CASE Listen
    BY <2>1 DEF Listen, TypeOK
  <2>2. CASE MigrationEnds
    BY <2>2 DEF MigrationEnds, TypeOK
  <2>3. ASSUME NEW v \in VMs, ServeMigrate(v) \/ ServeInfo(v)
        PROVE  qemu' \in [VMs -> {"off", "incoming", "guest", "sending", "sent"}]
    BY <2>3 DEF ServeMigrate, ServeInfo, TypeOK
  <2>4. ASSUME NEW v \in VMs, ServeQuit(v)
        PROVE  qemu' \in [VMs -> {"off", "incoming", "guest", "sending", "sent"}]
    <3>1. Other(v) \in VMs
      BY DEF VMs, Other
    <3> QED BY <2>4, <3>1 DEF ServeQuit, TypeOK
  <2> QED BY <2>1, <2>2, <2>3, <2>4
<1>6. open' \in [Clients -> 0 .. 21]
  <2>1. open \in [Clients -> 0 .. 21]
    BY DEF TypeOK
  <2>2. ASSUME NEW v \in VMs, ServeQuit(v)
        PROVE  open' \in [Clients -> 0 .. 21]
    BY <2>1, <2>2 DEF ServeQuit
  <2> QED BY <2>1, <2>2 DEF Listen, MigrationEnds, ServeMigrate, ServeInfo, Serve,
                            clients
<1>7. served' \subseteq Clients
  <2>1. served \subseteq Clients
    BY DEF TypeOK
  <2>2. ASSUME NEW c \in Clients, Serve(c)
        PROVE  served' \subseteq Clients
    BY <2>1, <2>2 DEF Serve
  <2>3. \A v \in VMs : <<"migrate", v>> \in Clients /\ <<"info", v>> \in Clients
    BY DEF Clients
  <2>4. ASSUME NEW v \in VMs, ServeQuit(v)
        PROVE  served' \subseteq Clients
    BY <2>1, <2>4 DEF ServeQuit
  <2> QED BY <2>1, <2>2, <2>3, <2>4
             DEF Listen, MigrationEnds, ServeMigrate, ServeInfo, clients
<1>8. slow' \in BOOLEAN /\ overdue' \in BOOLEAN
  BY DEF Listen, MigrationEnds, ServeMigrate, ServeInfo, ServeQuit, history, TypeOK
<1> QED BY <1>1, <1>2, <1>3, <1>4, <1>5, <1>6, <1>7, <1>8 DEF TypeOK

LEMMA ClientsKeepTypeOK ==
  ASSUME TypeOK, NEW c \in Clients, Connect(c) \/ Disconnect(c)
  PROVE  TypeOK'
<1>1. UNCHANGED <<pc, source, wait, result, qemu, startup, duration, slow, overdue>>
  BY DEF Connect, Disconnect, script, history
<1>2. lag' \in [Clients -> 0 .. MaxLag + 1]
  <2>1. lag \in [Clients -> 0 .. MaxLag + 1]
    BY DEF TypeOK
  <2>2. 0 \in 0 .. MaxLag + 1
    BY DelaysAssumption
  <2> QED BY <2>1, <2>2 DEF Connect, Disconnect
<1>3. open' \in [Clients -> 0 .. 21]
  <2>1. Timeout[c[1]] + 1 \in 0 .. 21 /\ 0 \in 0 .. 21
    BY ClientsOfMonitors, SleepsAndTimeouts
  <2>2. open \in [Clients -> 0 .. 21]
    BY DEF TypeOK
  <2> QED BY <2>1, <2>2 DEF Connect, Disconnect
<1>4. served' \subseteq Clients
  BY DEF Connect, Disconnect, TypeOK
<1> QED BY <1>1, <1>2, <1>3, <1>4 DEF TypeOK

LEMMA TickKeepsTypeOK ==
  ASSUME TypeOK, Tick
  PROVE  TypeOK'
<1>1. ASSUME NEW max \in Nat, NEW n \in 0 .. max
      PROVE  Minus1(n) \in 0 .. max
  BY DEF Minus1
<1>2. wait' \in 0 .. 45
  <2>1. wait \in 0 .. 45
    BY DEF TypeOK
  <2> QED BY <1>1, <2>1 DEF Tick
<1>3. startup' \in 0 .. MaxStartup + 1 /\ duration' \in 0 .. MaxDuration + 1
  <2>1. startup \in 0 .. MaxStartup + 1 /\ duration \in 0 .. MaxDuration + 1
    BY DEF TypeOK
  <2>2. MaxStartup + 1 \in Nat /\ MaxDuration + 1 \in Nat
    BY DelaysAssumption
  <2> QED BY <1>1, <2>1, <2>2 DEF Tick
<1>4. lag' \in [Clients -> 0 .. MaxLag + 1]
  <2>1. lag \in [Clients -> 0 .. MaxLag + 1]
    BY DEF TypeOK
  <2>2. MaxLag + 1 \in Nat
    BY DelaysAssumption
  <2>3. \A c \in Clients : Minus1(lag[c]) \in 0 .. MaxLag + 1
    BY <1>1, <2>1, <2>2
  <2> QED BY <2>3 DEF Tick
<1>5. open' \in [Clients -> 0 .. 21]
  <2>1. open \in [Clients -> 0 .. 21] /\ 21 \in Nat
    BY DEF TypeOK
  <2>2. \A c \in Clients : Minus1(open[c]) \in 0 .. 21
    BY <1>1, <2>1
  <2> QED BY <2>2 DEF Tick
<1>6. UNCHANGED <<pc, source, result, qemu, served, slow, overdue>>
  BY DEF Tick, history
<1> QED BY <1>2, <1>3, <1>4, <1>5, <1>6 DEF TypeOK

LEMMA NextTypeOK == TypeOK /\ [Next]_vars => TypeOK'
<1> SUFFICES ASSUME TypeOK, [Next]_vars PROVE TypeOK'
  OBVIOUS
<1>1. CASE UNCHANGED vars
  BY <1>1 DEF TypeOK, vars, script, clients, history
<1> QED BY <1>1, ScriptKeepsTypeOK, QemuKeepsTypeOK, ClientsKeepTypeOK,
           TickKeepsTypeOK DEF Next

(* The state of the experiment is what it is made to be, however slow      *)
(* anything is.                                                            *)
THEOREM ExperimentTypes == Spec => []TypeOK
BY InitTypeOK, NextTypeOK, PTL DEF Spec

-----------------------------------------------------------------------------
(***************************************************************************)
(* Time: the script.                                                       *)
(***************************************************************************)
LEMMA Numbers ==
  ASSUME TypeOK
  PROVE  /\ lag \in [Clients -> Nat] /\ open \in [Clients -> Nat]
         /\ wait \in Nat /\ startup \in Nat /\ duration \in Nat
<1>1. lag \in [Clients -> 0 .. MaxLag + 1] /\ open \in [Clients -> 0 .. 21]
  BY DEF TypeOK
<1>2. /\ wait \in 0 .. 45 /\ startup \in 0 .. MaxStartup + 1
      /\ duration \in 0 .. MaxDuration + 1
  BY DEF TypeOK
<1> QED BY <1>1, <1>2, DelaysAssumption

LEMMA PartOfRound ==
  ASSUME OnTime
  PROVE  /\ pc \in {"fill", "start"} => Arrived
         /\ pc = "migrate" => Starting
         /\ pc = "info" => Ordered \/ Migrating
         /\ pc = "asked" => Asking
         /\ pc = "quit" => Quitting
BY DEF OnTime, Arrived, Starting, Ordered, Migrating, Asking, Quitting

LEMMA FillOnTime ==
  ASSUME OnTime, Fill
  PROVE  OnTime'
<1>1. /\ pc = "fill" /\ pc' = "start" /\ wait' = 45
      /\ UNCHANGED <<source, qemu, startup, duration, lag, open, served>>
  BY SleepsAndTimeouts DEF Fill, Command, clients
<1>2. Arrived /\ Left = 45 /\ Left' = 45
  BY <1>1, PartOfRound DEF Left
<1>3. Arrived'
  BY <1>1, <1>2, SameSource DEF Arrived, OnlyClients
<1> QED BY <1>3 DEF OnTime

LEMMA StartDestinationOnTime ==
  ASSUME TypeOK, OnTime, StartDestination, ~overdue'
  PROVE  OnTime'
<1>1. /\ pc = "start" /\ wait = 0 /\ pc' = "migrate" /\ wait' = 1
      /\ startup' \in Delay(MaxStartup) /\ ~(startup' > 1)
      /\ UNCHANGED <<source, qemu, duration, lag, open, served>>
  BY SleepsAndTimeouts DEF StartDestination, Command, clients
<1>2. Arrived /\ Left = 0
  BY <1>1, PartOfRound DEF Left
<1>3. startup' = 1
  BY <1>1, DelaysAssumption DEF Delay
<1>4. lag[quitClient] = 0 /\ open[quitClient] = 0
  BY <1>2 DEF Arrived
<1>5. OnlyClients({})
  BY <1>2, <1>4 DEF Arrived, OnlyClients
<1>6. qemu[source] = "guest" /\ qemu[destination] = "off" /\ duration = 0
  BY <1>2, <1>4 DEF Arrived
<1>7. Starting'
  BY <1>1, <1>3, <1>5, <1>6, SameSource DEF Starting, OnlyClients
<1> QED BY <1>7 DEF OnTime

LEMMA MigrateOnTime ==
  ASSUME ScriptHasTime, TypeOK, OnTime, Migrate
  PROVE  OnTime'
<1>1. /\ pc = "migrate" /\ wait = 0 /\ pc' = "info" /\ wait' = 25
      /\ UNCHANGED <<source, qemu, startup, duration, open, served>>
  BY SleepsAndTimeouts DEF Migrate, Command
<1>2. PICK d \in Delay(MaxLag) : lag' = [lag EXCEPT ![migrateClient] = d]
  BY DEF Migrate, migrateClient
<1>3. d \in 1 .. 8
  BY DelaysAssumption DEF Delay, ScriptHasTime
<1>4. Starting /\ startup = 0
  BY <1>1, PartOfRound DEF Starting
<1>5. /\ lag'[migrateClient] = d
      /\ \A c \in Clients : c # migrateClient => lag'[c] = lag[c]
  BY <1>2, VMsAndClients, Numbers
<1>6. Ordered'
  <2>1. OnlyClients({migrateClient})'
    BY <1>1, <1>4, <1>5, SameSource DEF Starting, OnlyClients
  <2>2. open[migrateClient] = 0 /\ served = {}
    BY <1>4, VMsAndClients DEF Starting, OnlyClients
  <2>3. lag'[migrateClient] \in 1 .. wait' - 17
    BY <1>1, <1>3, <1>5
  <2>4. /\ startup = 0 /\ duration = 0
        /\ qemu[source] = "guest" /\ qemu[destination] = "incoming"
    BY <1>4 DEF Starting
  <2> QED BY <1>1, <2>1, <2>2, <2>3, <2>4, SameSource DEF Ordered
<1> QED BY <1>6 DEF OnTime

LEMMA InfoOnTime ==
  ASSUME TypeOK, OnTime, Info
  PROVE  OnTime'
<1>1. /\ pc = "info" /\ wait = 0 /\ pc' = "asked" /\ wait' = 0
      /\ UNCHANGED <<source, qemu, startup, duration, open, served, slow>>
      /\ lag' = [lag EXCEPT ![infoClient] = 1]
  BY DEF Info, history, infoClient
<1>2. Migrating
  <2>1. ~Ordered
    BY <1>1 DEF Ordered
  <2> QED BY <1>1, <2>1, PartOfRound
<1>3. /\ lag'[infoClient] = 1
      /\ \A c \in Clients : c # infoClient => lag'[c] = lag[c]
  BY <1>1, VMsAndClients, Numbers
<1>4. EndsWithin(2)' /\ open[migrateClient] <= 3
  BY <1>1, <1>2, SameSource DEF Migrating, EndsWithin
<1>5. Asking'
  <2>1. OnlyClients({migrateClient, infoClient})'
    BY <1>1, <1>2, <1>3, SameSource DEF Migrating, OnlyClients
  <2>2. lag'[migrateClient] = 0 /\ open[infoClient] = 0
    BY <1>2, <1>3, VMsAndClients DEF Migrating, OnlyClients
  <2>3. served' = Holding(migrateClient)' /\ startup' = 0
    BY <1>1, <1>2, SameSource DEF Migrating, Holding
  <2> QED BY <1>1, <1>3, <1>4, <2>1, <2>2, <2>3, SameSource DEF Asking
<1> QED BY <1>5 DEF OnTime

LEMMA InfoEndsOnTime ==
  ASSUME TypeOK, OnTime, InfoEnds
  PROVE  OnTime'
<1>1. /\ pc = "asked" /\ pc' = "quit" /\ wait' = 2
      /\ lag[infoClient] = 0 /\ open[infoClient] = 0
      /\ UNCHANGED <<source, result, qemu, startup, duration, lag, open, served,
                    slow>>
  BY SleepsAndTimeouts DEF InfoEnds, clients, history, infoClient
<1>2. Asking
  BY <1>1, PartOfRound
<1>3. /\ open[migrateClient] = 0 /\ lag[migrateClient] = 0
      /\ served = {} /\ (~slow => result = "completed")
  BY <1>1, <1>2 DEF Asking, Holding
<1>4. OnlyClients({})
  BY <1>1, <1>2, <1>3 DEF Asking, OnlyClients
<1>5. EndsWithin(wait)'
  BY <1>1, <1>2, SameSource DEF Asking, EndsWithin
<1>6. Quitting'
  BY <1>1, <1>2, <1>3, <1>4, <1>5 DEF Asking, Quitting, OnlyClients
<1> QED BY <1>6 DEF OnTime

LEMMA QuitOnTime ==
  ASSUME ScriptHasTime, TypeOK, OnTime, Quit
  PROVE  OnTime'
<1>1. /\ pc = "quit" /\ wait = 0 /\ pc' = "fill" /\ wait' = 0
      /\ source' = destination
      /\ UNCHANGED <<qemu, startup, duration, open, served>>
  BY SleepsAndTimeouts DEF Quit, Command, destination
<1>2. destination' = source /\ quitClient' = <<"quit", source>>
  BY <1>1, VMsAndClients DEF destination, quitClient
<1>3. PICK d \in Delay(MaxLag) : lag' = [lag EXCEPT ![quitClient'] = d]
  BY <1>2 DEF Quit
<1>4. d \in 1 .. 8
  BY DelaysAssumption DEF Delay, ScriptHasTime
<1>5. Quitting
  BY <1>1, PartOfRound
<1>6. quitClient' \in Clients
  BY <1>2, VMsAndClients DEF Clients
<1>7. /\ lag'[quitClient'] = d
      /\ \A c \in Clients : c # quitClient' => lag'[c] = lag[c]
  BY <1>3, <1>6, Numbers
<1>8. qemu[source] = "sent" /\ qemu[destination] = "guest" /\ duration = 0
  BY <1>1, <1>5 DEF Quitting, EndsWithin
<1>9. Arrived'
  <2>1. OnlyClients({quitClient})'
    BY <1>1, <1>5, <1>7 DEF Quitting, OnlyClients
  <2>2. open[quitClient'] = 0 /\ served = {} /\ startup = 0
    BY <1>5, <1>6 DEF Quitting, OnlyClients
  <2>3. Left' = 45 /\ lag'[quitClient'] \in 1 .. 45 - 37
    BY <1>1, <1>4, <1>7 DEF Left
  <2> QED BY <1>1, <1>2, <1>8, <2>1, <2>2, <2>3 DEF Arrived
<1> QED BY <1>9 DEF OnTime

-----------------------------------------------------------------------------
(***************************************************************************)
(* Time: QEMU and the clients of its monitors.                             *)
(***************************************************************************)

(* In each part of a round few clients may connect, or be connected.       *)
LEMMA LateClients ==
  ASSUME TypeOK, OnTime, NEW c \in Clients, lag[c] > 0
  PROVE  \/ Arrived /\ c = quitClient
         \/ Ordered /\ c = migrateClient
         \/ Asking /\ c = infoClient
<1>1. lag[c] # 0
  BY Numbers
<1> QED BY <1>1 DEF OnTime, Arrived, Starting, Ordered, Migrating, Asking,
                    Quitting, OnlyClients

LEMMA OpenClients ==
  ASSUME TypeOK, OnTime, NEW c \in Clients, open[c] > 0
  PROVE  \/ Arrived /\ c = quitClient
         \/ (Ordered \/ Migrating) /\ c = migrateClient
         \/ Asking /\ c \in {migrateClient, infoClient}
<1>1. open[c] # 0
  BY Numbers
<1> QED BY <1>1 DEF OnTime, Arrived, Starting, Ordered, Migrating, Asking,
                    Quitting, OnlyClients

LEMMA ListenOnTime ==
  ASSUME TypeOK, OnTime, Listen
  PROVE  OnTime'
<1>1. /\ startup = 1 /\ startup' = 0
      /\ UNCHANGED <<pc, source, wait, duration, lag, open, served>>
  BY DEF Listen, script, clients
<1>2. Starting
  BY <1>1 DEF OnTime, Arrived, Ordered, Migrating, Asking, Quitting
<1>3. qemu[destination] = "off" /\ qemu[source] = "guest"
  BY <1>1, <1>2 DEF Starting
<1>4. qemu' = [qemu EXCEPT ![destination] = "incoming"]
  BY <1>3 DEF Listen, destination
<1>5. qemu'[destination] = "incoming" /\ qemu'[source] = "guest"
  BY <1>3, <1>4, VMsAndClients DEF TypeOK
<1>6. Starting'
  BY <1>1, <1>2, <1>5, SameSource DEF Starting, OnlyClients
<1> QED BY <1>6 DEF OnTime

LEMMA ConnectOnTime ==
  ASSUME TypeOK, OnTime, NEW c \in Clients, Connect(c)
  PROVE  OnTime'
<1>1. /\ UNCHANGED <<pc, source, wait, result, qemu, startup, duration, served,
                    slow>>
      /\ lag[c] = 1 /\ lag'[c] = 0
      /\ open'[c] = IF qemu[c[2]] = "off" THEN 0 ELSE Timeout[c[1]] + 1
      /\ \A d \in Clients : d # c => lag'[d] = lag[d] /\ open'[d] = open[d]
  BY Numbers DEF Connect, script, history
<1>2. CASE Arrived /\ c = quitClient
  <2>1. open'[c] = (IF qemu[destination] = "off" THEN 0 ELSE 4)
    BY <1>1, <1>2, VMsAndClients, SleepsAndTimeouts
  <2>2. OnlyClients({quitClient})'
    BY <1>1, <1>2, SameSource DEF Arrived, OnlyClients
  <2>3. Left' = Left /\ Left > 37
    BY <1>1, <1>2, VMsAndClients, Numbers DEF Arrived, Left
  <2>4. Arrived'
    BY <1>1, <1>2, <2>1, <2>2, <2>3, SameSource DEF Arrived
  <2> QED BY <2>4 DEF OnTime
<1>3. CASE Ordered /\ c = migrateClient
  <2>1. open'[c] = 21
    BY <1>1, <1>3, VMsAndClients, SleepsAndTimeouts DEF Ordered
  <2>2. OnlyClients({migrateClient})'
    BY <1>1, <1>3, SameSource DEF Ordered, OnlyClients
  <2>3. wait >= 18
    BY <1>1, <1>3, Numbers DEF Ordered
  <2>4. Ordered'
    BY <1>1, <1>3, <2>1, <2>2, <2>3, SameSource DEF Ordered
  <2> QED BY <2>4 DEF OnTime
<1>4. CASE Asking /\ c = infoClient
  <2>1. open'[c] = 4
    BY <1>1, <1>4, VMsAndClients, SleepsAndTimeouts DEF Asking, EndsWithin
  <2>2. OnlyClients({migrateClient, infoClient})'
    BY <1>1, <1>4, SameSource DEF Asking, OnlyClients
  <2>3. /\ open'[migrateClient] = open[migrateClient]
        /\ lag'[migrateClient] = lag[migrateClient]
    BY <1>1, <1>4, VMsAndClients
  <2>4. /\ open[migrateClient] <= 3 /\ open[migrateClient] \in Nat
        /\ served = Holding(migrateClient)
    BY <1>1, <1>4, VMsAndClients, Numbers DEF Asking
  <2>5. EndsWithin(2)' /\ Holding(migrateClient)' = Holding(migrateClient)
    BY <1>1, <1>4, <2>3, SameSource DEF Asking, EndsWithin, Holding
  <2>6. Asking'
    BY <1>1, <1>4, <2>1, <2>2, <2>3, <2>4, <2>5, SameSource DEF Asking
  <2> QED BY <2>6 DEF OnTime
<1> QED BY <1>1, <1>2, <1>3, <1>4, LateClients

LEMMA DisconnectOnTime ==
  ASSUME TypeOK, OnTime, NEW c \in Clients, Disconnect(c)
  PROVE  OnTime'
<1>1. /\ c \in served \/ open[c] = 1
      /\ UNCHANGED <<pc, source, wait, result, qemu, startup, duration, lag, slow>>
      /\ open'[c] = 0 /\ served' = served \ {c}
      /\ \A d \in Clients : d # c => open'[d] = open[d]
  BY Numbers DEF Disconnect, script, history
<1>2. ~Arrived /\ ~Starting /\ ~Ordered /\ ~Quitting
  BY <1>1 DEF Arrived, Starting, Ordered, Quitting, OnlyClients
<1>3. CASE Migrating
  <2>1. c = migrateClient
    BY <1>1, <1>3 DEF Migrating, OnlyClients
  <2>2. served' = {} /\ Holding(migrateClient)' = {}
    BY <1>1, <1>3, <2>1, SameSource DEF Migrating, Holding
  <2>3. OnlyClients({migrateClient})'
    BY <1>1, <1>3, <2>1, SameSource DEF Migrating, OnlyClients
  <2>4. EndsWithin(wait + 2)'
    BY <1>1, <1>3, SameSource DEF Migrating, EndsWithin
  <2>5. open'[migrateClient'] <= wait' + 3
    BY <1>1, <2>1, Numbers, SameSource
  <2>6. Migrating'
    BY <1>1, <1>3, <2>2, <2>3, <2>4, <2>5, SameSource DEF Migrating
  <2> QED BY <2>6 DEF OnTime
<1>4. CASE Asking
  <2>1. c \in {migrateClient, infoClient}
    BY <1>1, <1>4 DEF Asking, OnlyClients
  <2>2. OnlyClients({migrateClient, infoClient})'
    BY <1>1, <1>4, <2>1, SameSource DEF Asking, OnlyClients
  <2>3. EndsWithin(2)'
    BY <1>1, <1>4, SameSource DEF Asking, EndsWithin
  <2>4. CASE c = migrateClient
    <3>1. open[migrateClient] > 0 /\ open'[migrateClient] = 0
      BY <1>1, <1>4, <2>4, VMsAndClients, Numbers DEF Asking, Holding
    <3>2. open'[infoClient] = open[infoClient]
      BY <1>1, <2>4, VMsAndClients
    <3>3. served = {migrateClient} /\ served' = {}
      BY <1>1, <1>4, <2>4, <3>1 DEF Asking, Holding
    <3>4. Holding(migrateClient)' = {}
      BY <1>1, <3>1, SameSource DEF Holding
    <3>5. Asking'
      BY <1>1, <1>4, <2>2, <2>3, <3>1, <3>2, <3>3, <3>4, SameSource DEF Asking
    <3> QED BY <3>5 DEF OnTime
  <2>5. CASE c = infoClient
    <3>1. /\ open[migrateClient] = 0 /\ served = Holding(infoClient)
          /\ lag[infoClient] = 0 /\ (~slow => result = "completed")
      <4>1. ~(open[infoClient] \in 2 .. 4 /\ served = Holding(migrateClient))
        BY <1>1, <2>5, VMsAndClients DEF Holding
      <4>2. ~(open[infoClient] = 0 /\ served = Holding(migrateClient))
        BY <1>1, <2>5, VMsAndClients DEF Holding
      <4> QED BY <1>4, <4>1, <4>2 DEF Asking
    <3>2. open'[migrateClient] = 0 /\ open'[infoClient] = 0
      BY <1>1, <2>5, <3>1, VMsAndClients
    <3>3. served' = {} /\ Holding(infoClient)' = {}
      BY <1>1, <2>5, <3>1, <3>2, SameSource DEF Holding
    <3>4. Asking'
      BY <1>1, <1>4, <2>2, <2>3, <3>1, <3>2, <3>3, SameSource DEF Asking
    <3> QED BY <3>4 DEF OnTime
  <2> QED BY <2>1, <2>4, <2>5
<1> QED BY <1>2, <1>3, <1>4 DEF OnTime

LEMMA ServeMigrateOnTime ==
  ASSUME ScriptHasTime, TypeOK, OnTime, NEW v \in VMs, ServeMigrate(v), ~overdue'
  PROVE  OnTime'
<1>1. <<"migrate", v>> \in Clients /\ <<"migrate", v>>[1] = "migrate"
  BY DEF Clients
<1>2. /\ open[<<"migrate", v>>] > 0 /\ <<"migrate", v>> \notin served
      /\ served' = served \cup {<<"migrate", v>>}
      /\ UNCHANGED <<pc, source, wait, lag, open, startup>>
  BY DEF ServeMigrate, Serve, Servable, script
<1>3. <<"migrate", v>> # quitClient /\ <<"migrate", v>> # infoClient
  BY <1>1, VMsAndClients
<1>4. <<"migrate", v>> = migrateClient
  BY <1>1, <1>2, <1>3, OpenClients
<1>5. v = source /\ Other(v) = destination
  BY <1>4 DEF migrateClient, destination
<1>6. ~Migrating /\ ~Asking
  BY <1>2, <1>4 DEF Migrating, Asking, Holding
<1>7. Ordered
  BY <1>1, <1>2, <1>3, <1>6, OpenClients
<1>8. /\ lag[migrateClient] = 0 /\ open[migrateClient] = 21 /\ wait >= 18
      /\ served = {} /\ qemu[source] = "guest" /\ qemu[destination] = "incoming"
  BY <1>2, <1>4, <1>7 DEF Ordered
<1>9. /\ qemu' = [qemu EXCEPT ![source] = "sending"]
      /\ duration' \in Delay(MaxDuration)
      /\ ~slow' => ~(Sleep.migrate - wait + duration' - 1 >= ResultAfter)
      /\ ~(Sleep.migrate - wait + duration' - 1 >= QuitAfter)
  BY <1>5, <1>8 DEF ServeMigrate
<1>10. qemu'[source] = "sending" /\ qemu'[destination] = "incoming"
  BY <1>8, <1>9, VMsAndClients DEF TypeOK
<1>11. duration' \in 1 .. wait + 2 /\ (~slow' => duration' <= wait + 2 - 2)
  BY <1>9, SleepsAndTimeouts, DelaysAssumption, Numbers DEF Delay, ScriptHasTime
<1>12. EndsWithin(wait + 2)'
  <2>1. wait' \in Nat /\ duration' \in Nat
    BY <1>2, <1>11, Numbers
  <2> QED BY <1>2, <1>10, <1>11, <2>1, SameSource DEF EndsWithin
<1>13. Migrating'
  <2>1. OnlyClients({migrateClient})'
    BY <1>2, <1>4, <1>7, <1>8, SameSource DEF Ordered, OnlyClients
  <2>2. served' = Holding(migrateClient)'
    BY <1>2, <1>4, <1>8, SameSource DEF Holding
  <2>3. open'[migrateClient'] <= wait' + 3 /\ lag'[migrateClient'] = 0
    BY <1>2, <1>8, Numbers, SameSource
  <2> QED BY <1>2, <1>7, <1>12, <2>1, <2>2, <2>3 DEF Ordered, Migrating
<1> QED BY <1>13 DEF OnTime

LEMMA ServeInfoOnTime ==
  ASSUME TypeOK, OnTime, NEW v \in VMs, ServeInfo(v)
  PROVE  OnTime'
<1>1. <<"info", v>> \in Clients /\ <<"info", v>>[1] = "info"
  BY DEF Clients
<1>2. /\ open[<<"info", v>>] > 0 /\ <<"info", v>> \notin served
      /\ \A d \in served : d[2] # <<"info", v>>[2]
      /\ served' = served \cup {<<"info", v>>}
      /\ UNCHANGED <<pc, source, wait, qemu, duration, lag, open, startup, slow>>
  BY DEF ServeInfo, Serve, Servable, script, history
<1>3. <<"info", v>> # quitClient /\ <<"info", v>> # migrateClient
  BY <1>1, VMsAndClients
<1>4. Asking /\ <<"info", v>> = infoClient
  BY <1>1, <1>2, <1>3, OpenClients
<1>5. v = source
  BY <1>4 DEF infoClient
<1>6. migrateClient \notin served
  BY <1>2, <1>4, VMsAndClients
<1>7. /\ lag[infoClient] = 0 /\ open[migrateClient] = 0 /\ lag[migrateClient] = 0
      /\ served = {}
  <2>1. Holding(migrateClient) \subseteq served => open[migrateClient] = 0
    BY <1>6, Numbers, VMsAndClients DEF Holding
  <2>2. served = Holding(migrateClient) => served = {} /\ open[migrateClient] = 0
    BY <2>1 DEF Holding
  <2>3. served # Holding(infoClient)
    BY <1>2, <1>4 DEF Holding
  <2>4. open[infoClient] # 0
    BY <1>2, <1>4, VMsAndClients, Numbers
  <2> QED BY <1>4, <2>2, <2>3, <2>4 DEF Asking
<1>8. ~slow => result' = "completed"
  <2>1. EndsWithin(2)
    BY <1>4 DEF Asking
  <2>2. ~slow => qemu[source] = "sent"
    BY <2>1 DEF EndsWithin
  <2> QED BY <1>5, <2>2 DEF ServeInfo
<1>9. Asking'
  <2>1. OnlyClients({migrateClient, infoClient})'
    BY <1>2, <1>4, SameSource DEF Asking, OnlyClients
  <2>2. EndsWithin(2)'
    BY <1>2, <1>4, SameSource DEF Asking, EndsWithin
  <2>3. served' = Holding(infoClient)'
    BY <1>2, <1>4, <1>7, SameSource DEF Holding
  <2> QED BY <1>2, <1>4, <1>7, <1>8, <2>1, <2>2, <2>3, SameSource DEF Asking
<1> QED BY <1>9 DEF OnTime

LEMMA ServeQuitOnTime ==
  ASSUME TypeOK, OnTime, NEW v \in VMs, ServeQuit(v)
  PROVE  OnTime'
<1>1. <<"quit", v>> \in Clients /\ <<"quit", v>>[1] = "quit"
  BY DEF Clients
<1>2. /\ open[<<"quit", v>>] > 0
      /\ UNCHANGED <<pc, source, wait, startup, lag>>
      /\ duration' = 0 /\ served' \subseteq served
      /\ \A c \in Clients : open'[c] = IF c[2] = v THEN 0 ELSE open[c]
  BY DEF ServeQuit, Servable, script
<1>3. <<"quit", v>> # infoClient /\ <<"quit", v>> # migrateClient
  BY <1>1, VMsAndClients
<1>4. Arrived /\ <<"quit", v>> = quitClient
  BY <1>1, <1>2, <1>3, OpenClients
<1>5. v = destination /\ Other(v) = source
  BY <1>4, VMsAndClients DEF quitClient
<1>6. qemu[destination] \in {"off", "sent"} /\ qemu[source] = "guest"
  BY <1>4 DEF Arrived
<1>7. qemu' = [qemu EXCEPT ![destination] = "off", ![source] = "guest"]
  BY <1>5, <1>6 DEF ServeQuit
<1>8. qemu'[destination] = "off" /\ qemu'[source] = "guest"
  BY <1>7, VMsAndClients DEF TypeOK
<1>9. open'[quitClient] = 0 /\ lag'[quitClient] = 0 /\ served' = {}
  BY <1>2, <1>4, <1>5, VMsAndClients DEF Arrived
<1>10. OnlyClients({quitClient})'
  BY <1>2, <1>4, <1>9, SameSource DEF Arrived, OnlyClients
<1>11. Arrived'
  BY <1>2, <1>4, <1>8, <1>9, <1>10, SameSource DEF Arrived
<1> QED BY <1>11 DEF OnTime

LEMMA MigrationEndsOnTime ==
  ASSUME TypeOK, OnTime, MigrationEnds
  PROVE  OnTime'
<1>1. /\ duration = 1 /\ duration' = 0
      /\ UNCHANGED <<pc, source, wait, result, startup, lag, open, served, slow>>
  BY DEF MigrationEnds, script, clients, history
<1>2. ~Arrived /\ ~Starting /\ ~Ordered
  BY <1>1 DEF Arrived, Starting, Ordered
<1>3. ASSUME NEW seconds, EndsWithin(seconds)
      PROVE  /\ qemu'[source'] = "sent" /\ qemu'[destination'] = "guest"
             /\ UNCHANGED <<migrateClient, infoClient>>
  <2>1. qemu[source] = "sending" /\ qemu[destination] = "incoming"
    BY <1>1, <1>3 DEF EndsWithin
  <2>2. PICK v \in VMs :
          /\ qemu[v] = "sending"
          /\ qemu' = [qemu EXCEPT ![v] = "sent", ![Other(v)] = "guest"]
    BY DEF MigrationEnds
  <2>3. v = source /\ Other(v) = destination
    BY <2>1, <2>2, VMsAndClients DEF destination
  <2>4. qemu'[source] = "sent" /\ qemu'[destination] = "guest"
    BY <2>2, <2>3, VMsAndClients DEF TypeOK
  <2> QED BY <1>1, <2>4, SameSource
<1>4. CASE Migrating
  <2>1. EndsWithin(wait + 2)'
    BY <1>1, <1>3, <1>4 DEF Migrating, EndsWithin
  <2>2. Migrating'
    BY <1>1, <1>4, <2>1, SameSource DEF Migrating, OnlyClients, Holding
  <2> QED BY <2>2 DEF OnTime
<1>5. CASE Asking
  <2>1. EndsWithin(2)'
    BY <1>1, <1>3, <1>5 DEF Asking, EndsWithin
  <2>2. Asking'
    BY <1>1, <1>5, <2>1, SameSource DEF Asking, OnlyClients, Holding
  <2> QED BY <2>2 DEF OnTime
<1>6. CASE Quitting
  <2>1. EndsWithin(wait)'
    BY <1>1, <1>3, <1>6 DEF Quitting, EndsWithin
  <2>2. Quitting'
    BY <1>1, <1>6, <2>1 DEF Quitting, OnlyClients
  <2> QED BY <2>2 DEF OnTime
<1> QED BY <1>2, <1>4, <1>5, <1>6 DEF OnTime

-----------------------------------------------------------------------------
(***************************************************************************)
(* Time: a second passes.                                                  *)
(***************************************************************************)
LEMMA TickCounts ==
  ASSUME TypeOK, Tick
  PROVE  /\ wait' = Minus1(wait) /\ startup' = Minus1(startup)
         /\ duration' = Minus1(duration) /\ duration # 1 /\ startup # 1
         /\ \A c \in Clients : lag'[c] = Minus1(lag[c]) /\ lag[c] # 1
         /\ \A c \in Clients : open'[c] = Minus1(open[c]) /\ open[c] # 1
         /\ \A c \in Clients :
              open[c] > 0 => c \in served \/ \E d \in served : d[2] = c[2]
         /\ wait > 0 \/ pc = "asked"
         /\ UNCHANGED <<pc, source, result, qemu, served, slow>>
BY DEF Tick, history, Servable

LEMMA EarlierByOne ==
  ASSUME NEW n \in Nat, n # 1
  PROVE  /\ Minus1(n) \in Nat /\ (Minus1(n) > 0 <=> n > 0)
         /\ n > 0 => Minus1(n) = n - 1
         /\ n = 0 => Minus1(n) = 0
BY DEF Minus1

LEMMA TickedClients ==
  ASSUME TypeOK, Tick, NEW C, OnlyClients(C)
  PROVE  served' \subseteq C /\ \A c \in Clients \ C : lag'[c] = 0 /\ open'[c] = 0
BY TickCounts, EarlierByOne, Numbers DEF OnlyClients

LEMMA TickArrived ==
  ASSUME TypeOK, Tick, Arrived
  PROVE  Arrived'
<1>1. pc = "start" /\ wait > 0 /\ Left = wait
  BY TickCounts DEF Arrived, Left
<1>2. pc' = "start" /\ wait' = wait - 1 /\ Left' = wait - 1 /\ wait \in Nat
  BY <1>1, TickCounts, EarlierByOne, Numbers DEF Left, Minus1
<1>3. startup' = 0 /\ duration' = 0 /\ served' = {}
  BY TickCounts DEF Arrived, Minus1
<1>4. OnlyClients({quitClient})'
  BY TickedClients, TickCounts, SameSource DEF Arrived, OnlyClients
<1>5. open[quitClient] = 0 /\ open'[quitClient] = 0
  <2>1. ~(open[quitClient] > 0)
    BY TickCounts, VMsAndClients DEF Arrived
  <2> QED BY <2>1, TickCounts, EarlierByOne, Numbers, VMsAndClients
<1>6. \/ lag[quitClient] = 0 /\ lag'[quitClient] = 0
      \/ /\ lag[quitClient] > 0 /\ lag'[quitClient] > 0
         /\ lag'[quitClient] \in 1 .. (wait - 1) - 37
  <2>1. lag[quitClient] \in Nat /\ lag[quitClient] # 1
        /\ lag'[quitClient] = Minus1(lag[quitClient])
    BY TickCounts, Numbers, VMsAndClients
  <2>2. lag[quitClient] = 0 \/ lag[quitClient] \in 1 .. wait - 37
    BY <1>1 DEF Arrived
  <2> QED BY <1>2, <2>1, <2>2, EarlierByOne
<1>7. UNCHANGED <<qemu, source, destination, quitClient>>
  BY TickCounts, SameSource
<1>8. /\ qemu'[source'] = "guest"
      /\ \/ qemu'[destination'] = "off"
         \/ qemu'[destination'] = "sent" /\ lag'[quitClient'] > 0
  BY <1>5, <1>6, <1>7, Numbers, VMsAndClients DEF Arrived
<1>9. \/ lag'[quitClient'] = 0
      \/ lag'[quitClient'] \in 1 .. Left' - 37
  BY <1>2, <1>6, <1>7
<1> QED BY <1>2, <1>3, <1>4, <1>5, <1>7, <1>8, <1>9 DEF Arrived

LEMMA TickStarting ==
  ASSUME TypeOK, Tick, Starting
  PROVE  Starting'
<1>1. pc' = "migrate" /\ wait' <= 1 /\ startup' = 0 /\ duration' = 0
  BY TickCounts, Numbers, EarlierByOne DEF Starting, Minus1
<1>2. OnlyClients({})'
  BY TickedClients DEF Starting, OnlyClients
<1>3. qemu'[source'] = "guest" /\ qemu'[destination'] = "incoming"
  BY TickCounts, SameSource DEF Starting
<1> QED BY <1>1, <1>2, <1>3 DEF Starting

LEMMA TickOrdered ==
  ASSUME TypeOK, Tick, Ordered
  PROVE  Ordered'
<1>1. /\ UNCHANGED <<pc, qemu, source, destination, migrateClient>>
      /\ startup' = 0 /\ duration' = 0 /\ served' = {}
  BY TickCounts, SameSource DEF Ordered, Minus1
<1>2. wait' = wait - 1 /\ wait \in Nat
  BY TickCounts, EarlierByOne, Numbers DEF Ordered, Minus1
<1>3. OnlyClients({migrateClient})'
  BY TickedClients, TickCounts, SameSource DEF Ordered, OnlyClients
<1>4. open[migrateClient] = 0 /\ open'[migrateClient] = 0
  <2>1. ~(open[migrateClient] > 0)
    BY TickCounts, VMsAndClients DEF Ordered
  <2> QED BY <2>1, TickCounts, EarlierByOne, Numbers, VMsAndClients
<1>5. lag'[migrateClient] \in 1 .. (wait - 1) - 17
  <2>1. lag[migrateClient] # 1 /\ lag'[migrateClient] = Minus1(lag[migrateClient])
    BY TickCounts, VMsAndClients
  <2>2. lag[migrateClient] \in 1 .. wait - 17
    BY <1>4 DEF Ordered
  <2> QED BY <1>2, <2>1, <2>2 DEF Minus1
<1> QED BY <1>1, <1>2, <1>3, <1>4, <1>5 DEF Ordered

(* The migration is a second nearer to its end.                            *)
LEMMA TickEndsWithin ==
  ASSUME TypeOK, Tick, NEW seconds \in Nat, EndsWithin(seconds)
  PROVE  \/ /\ qemu'[source'] = "sending" /\ qemu'[destination'] = "incoming"
            /\ duration' \in 1 .. seconds - 1
            /\ ~slow' => duration' <= (seconds - 1) - 2
         \/ /\ qemu'[source'] = "sent" /\ qemu'[destination'] = "guest"
            /\ duration' = 0
<1>1. UNCHANGED <<qemu, source, destination, slow>>
  BY TickCounts, SameSource
<1>2. duration \in Nat /\ duration # 1 /\ duration' = Minus1(duration)
  BY TickCounts, Numbers
<1>3. ASSUME duration \in 1 .. seconds
      PROVE  /\ duration' \in 1 .. seconds - 1
             /\ duration <= seconds - 2 => duration' <= (seconds - 1) - 2
  BY <1>2, <1>3 DEF Minus1
<1>4. duration = 0 => duration' = 0
  BY <1>2 DEF Minus1
<1> QED BY <1>1, <1>3, <1>4 DEF EndsWithin

(* A client that the monitor serves is still one it serves.                *)
LEMMA TickHolding ==
  ASSUME TypeOK, Tick, NEW c \in Clients
  PROVE  Holding(c)' = Holding(c)
<1>1. open[c] \in Nat /\ open[c] # 1 /\ open'[c] = Minus1(open[c])
  BY TickCounts, Numbers
<1>2. open'[c] > 0 <=> open[c] > 0
  BY <1>1, EarlierByOne
<1> QED BY <1>2 DEF Holding

LEMMA TickMigrating ==
  ASSUME TypeOK, Tick, Migrating
  PROVE  Migrating'
<1>1. UNCHANGED <<pc, source, served, migrateClient>> /\ startup' = 0
  BY TickCounts, SameSource DEF Migrating, Minus1
<1>2. wait' = wait - 1 /\ wait > 0 /\ wait \in Nat
  BY TickCounts, EarlierByOne, Numbers DEF Migrating, Minus1
<1>3. OnlyClients({migrateClient})'
  BY <1>1, TickedClients DEF Migrating, OnlyClients
<1>4. PICK c \in Clients : c = migrateClient
  BY VMsAndClients
<1>5. lag'[c] = 0
  BY <1>4, TickCounts DEF Migrating, Minus1
<1>6. open'[c] <= wait' + 3
  <2>1. open[c] \in Nat /\ open[c] <= wait + 3 /\ open'[c] = Minus1(open[c])
    BY <1>4, TickCounts, Numbers DEF Migrating
  <2> QED BY <1>2, <2>1 DEF Minus1
<1>7. served' = Holding(migrateClient)'
  <2>1. Holding(c)' = Holding(c) /\ served = Holding(c)
    BY <1>4, TickHolding DEF Migrating
  <2> QED BY <1>1, <1>4, <2>1 DEF Holding
<1>8. EndsWithin(wait + 2)'
  <2>1. wait + 2 \in Nat /\ (wait + 2) - 1 = wait' + 2 /\ wait' \in Nat
    BY <1>2
  <2>2. duration' \in Nat
    BY TickCounts, EarlierByOne, Numbers
  <2>3. EndsWithin(wait + 2)
    BY DEF Migrating
  <2> QED BY <2>1, <2>2, <2>3, TickEndsWithin DEF EndsWithin
<1> QED BY <1>1, <1>3, <1>4, <1>5, <1>6, <1>7, <1>8 DEF Migrating

LEMMA TickAsking ==
  ASSUME TypeOK, Tick, Asking
  PROVE  Asking'
<1>1. /\ UNCHANGED <<pc, source, result, served, slow, migrateClient, infoClient>>
      /\ startup' = 0 /\ wait' = 0
  BY TickCounts, SameSource DEF Asking, Minus1
<1>2. PICK m \in Clients, i \in Clients : m = migrateClient /\ i = infoClient
  BY VMsAndClients
<1>3. OnlyClients({migrateClient, infoClient})'
  BY <1>1, TickedClients DEF Asking, OnlyClients
<1>4. /\ lag'[m] = 0 /\ open[m] \in Nat /\ open[i] \in Nat
      /\ open[m] # 1 /\ open[i] # 1 /\ lag[i] # 1
      /\ open'[m] = Minus1(open[m]) /\ open'[i] = Minus1(open[i])
      /\ lag'[i] = Minus1(lag[i])
  BY <1>2, TickCounts, Numbers DEF Asking, Minus1
<1>5. EndsWithin(2)'
  <2>1. EndsWithin(2) /\ 2 \in Nat
    BY DEF Asking
  <2>2. duration' \in Nat
    BY TickCounts, EarlierByOne, Numbers
  <2> QED BY <2>1, <2>2, TickEndsWithin DEF EndsWithin
<1>6. CASE /\ lag[i] = 0 /\ open[i] \in 2 .. 4 /\ open[m] < open[i]
           /\ served = Holding(m)
  <2>1. open[m] > 0
    <3>1. open[m] = 0 => served = {}
      BY <1>6 DEF Holding
    <3>2. served # {}
      BY <1>4, <1>6, TickCounts
    <3> QED BY <1>4, <3>1, <3>2
  <2>2. /\ open'[i] \in 2 .. 4 /\ open'[m] < open'[i] /\ lag'[i] = 0
    BY <1>4, <1>6, <2>1 DEF Minus1
  <2>3. served' = Holding(migrateClient)'
    <3>1. Holding(m)' = Holding(m)
      BY TickHolding
    <3> QED BY <1>1, <1>2, <1>6, <3>1 DEF Holding
  <2> QED BY <1>1, <1>2, <1>3, <1>4, <1>5, <2>2, <2>3 DEF Asking
<1>7. CASE /\ lag[i] = 0 /\ open[m] = 0 /\ served = Holding(i)
           /\ ~slow => result = "completed"
  <2>1. open'[m] = 0 /\ lag'[i] = 0
    BY <1>4, <1>7 DEF Minus1
  <2>2. served' = Holding(infoClient)'
    <3>1. Holding(i)' = Holding(i)
      BY TickHolding
    <3> QED BY <1>1, <1>2, <1>7, <3>1 DEF Holding
  <2>3. ~slow' => result' = "completed"
    BY <1>1, <1>7
  <2> QED BY <1>1, <1>2, <1>3, <1>4, <1>5, <2>1, <2>2, <2>3 DEF Asking
<1> QED BY <1>2, <1>4, <1>6, <1>7 DEF Asking

LEMMA TickQuitting ==
  ASSUME TypeOK, Tick, Quitting
  PROVE  Quitting'
<1>1. UNCHANGED <<pc, source, result, slow>> /\ startup' = 0
  BY TickCounts DEF Quitting, Minus1
<1>2. wait' = wait - 1 /\ wait > 0 /\ wait \in Nat
  BY TickCounts, EarlierByOne, Numbers DEF Quitting, Minus1
<1>3. OnlyClients({})'
  BY TickedClients DEF Quitting, OnlyClients
<1>4. EndsWithin(wait)'
  <2>1. EndsWithin(wait) /\ wait' \in Nat
    BY <1>2 DEF Quitting
  <2>2. duration' \in Nat
    BY TickCounts, EarlierByOne, Numbers
  <2> QED BY <1>2, <2>1, <2>2, TickEndsWithin DEF EndsWithin
<1>5. wait' <= 2 /\ (~slow' => result' = "completed")
  BY <1>1, <1>2 DEF Quitting
<1> QED BY <1>1, <1>3, <1>4, <1>5 DEF Quitting

LEMMA TickOnTime ==
  ASSUME TypeOK, OnTime, Tick
  PROVE  OnTime'
BY TickArrived, TickStarting, TickOrdered, TickMigrating, TickAsking, TickQuitting
   DEF OnTime

-----------------------------------------------------------------------------
LEMMA InitIInv == Init => IInv
<1> SUFFICES ASSUME Init PROVE IInv
  OBVIOUS
<1>1. TypeOK
  BY InitTypeOK
<1>2. Arrived
  <2>1. source = 1 /\ destination = 2
    BY DEF Init, destination, Other
  <2>2. qemu[source] = "guest" /\ qemu[destination] = "off"
    BY <2>1 DEF Init, VMs
  <2>3. \A c \in Clients : lag[c] = 0 /\ open[c] = 0
    BY DEF Init
  <2>4. pc = "fill" /\ wait = 0 /\ startup = 0 /\ duration = 0 /\ served = {}
    BY DEF Init
  <2> QED BY <1>1, <2>2, <2>3, <2>4, VMsAndClients DEF Arrived, OnlyClients
<1> QED BY <1>1, <1>2 DEF IInv, OnTime

(* What is overdue once is so for good.                                    *)
LEMMA OverdueForGood == TypeOK /\ [Next]_vars /\ ~overdue' => ~overdue
BY DEF Next, vars, history, clients, script, Fill, StartDestination, Migrate, Info,
       InfoEnds, Quit, Listen, MigrationEnds, Connect, Disconnect, ServeMigrate,
       ServeInfo, ServeQuit, Tick

LEMMA NextIInv == ScriptHasTime /\ IInv /\ [Next]_vars => IInv'
<1> SUFFICES ASSUME ScriptHasTime, IInv, [Next]_vars PROVE IInv'
  OBVIOUS
<1>1. TypeOK /\ TypeOK'
  BY NextTypeOK DEF IInv
<1>2. ASSUME ~overdue' PROVE OnTime'
  <2>1. OnTime
    BY <1>1, <1>2, OverdueForGood DEF IInv
  <2>2. CASE UNCHANGED vars
    BY <2>1, <2>2, SameSource
       DEF vars, script, clients, history, OnTime, Arrived, Left, Starting,
           Ordered, Migrating, Asking, Quitting, OnlyClients, EndsWithin, Holding
  <2>3. CASE Fill \/ StartDestination \/ Migrate
    BY <1>1, <1>2, <2>1, <2>3, FillOnTime, StartDestinationOnTime, MigrateOnTime
  <2>4. CASE Info \/ InfoEnds \/ Quit
    BY <1>1, <2>1, <2>4, InfoOnTime, InfoEndsOnTime, QuitOnTime
  <2>5. CASE Listen \/ MigrationEnds \/ Tick
    BY <1>1, <2>1, <2>5, ListenOnTime, MigrationEndsOnTime, TickOnTime
  <2>6. CASE \E c \in Clients : Connect(c) \/ Disconnect(c)
    BY <1>1, <2>1, <2>6, ConnectOnTime, DisconnectOnTime
  <2>7. CASE \E v \in VMs : ServeMigrate(v) \/ ServeInfo(v) \/ ServeQuit(v)
    BY <1>1, <1>2, <2>1, <2>7, ServeMigrateOnTime, ServeInfoOnTime,
       ServeQuitOnTime
  <2> QED BY <2>2, <2>3, <2>4, <2>5, <2>6, <2>7 DEF Next
<1> QED BY <1>1, <1>2 DEF IInv

LEMMA IInvGuestSurvives == IInv => GuestSurvives
<1> SUFFICES ASSUME IInv, ~overdue
             PROVE  \E v \in VMs : qemu[v] \in {"guest", "sending"}
  BY DEF GuestSurvives
<1>1. TypeOK /\ OnTime
  BY DEF IInv
<1>2. \/ qemu[source] \in {"guest", "sending"}
      \/ qemu[destination] \in {"guest", "sending"}
  BY <1>1 DEF OnTime, Arrived, Starting, Ordered, Migrating, Asking, Quitting,
              EndsWithin
<1> QED BY <1>1, <1>2, VMsAndClients

LEMMA IInvResultIsFinal == IInv => ResultIsFinal
BY PartOfRound DEF IInv, ResultIsFinal, Quitting

(* However many rounds the script makes, and however slow QEMU and the     *)
(* migrations are otherwise: while no migration or destination is overdue, *)
(* "q" finds the guest gone from the QEMU it ends, and while none is slow  *)
(* either, "info migrate" is answered, and after the migration has ended.  *)
THEOREM ExperimentSafety ==
  ASSUME ScriptHasTime
  PROVE  Spec => [](GuestSurvives /\ ResultIsFinal)
<1>1. IInv /\ [Next]_vars => IInv'
  BY NextIInv
<1>2. Spec => []IInv
  BY InitIInv, <1>1, PTL DEF Spec
<1>3. IInv => GuestSurvives /\ ResultIsFinal
  BY IInvGuestSurvives, IInvResultIsFinal
<1> QED BY <1>2, <1>3, PTL
=============================================================================
