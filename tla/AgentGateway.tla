---------------------------- MODULE AgentGateway ----------------------------
(***************************************************************************)
(* The printers of one shop: provisioning, the sockets of their agents,    *)
(* heartbeats, the default printer, removal.                               *)
(*                                                                         *)
(* Rows live in the database, the registry of sockets in the memory of the *)
(* backend.  A handler awaits the database between its steps, so what it   *)
(* has read may be stale by then, and its last statement may still be due  *)
(* (`writes`) when others run.  The statements write by the printer's id   *)
(* and do not look at its status.                                          *)
(*                                                                         *)
(* The jobs themselves are PrintPipeline's; the names of OS printers an    *)
(* agent reports are left out.                                             *)
(***************************************************************************)
EXTENDS Naturals, FiniteSets

CONSTANTS
    Printer, NoPrinter,
    PrinterLimit,   \* printers the shop's plan allows
    MaxSockets,     \* bound: sockets an agent opens
    MaxFaults       \* bound: crashes of the backend

ASSUME GatewayAssumption ==
    /\ NoPrinter \notin Printer
    /\ {PrinterLimit, MaxSockets, MaxFaults} \subseteq Nat

VARIABLES
    status,     \* Printer.status, NONE as long as there is no row
    fresh,      \* whether lastHeartbeatAt is recent
    default,    \* PrintSettings.defaultPrinterId
    registry,   \* AgentConnectionRegistry: the socket of a printer, 0 if there is none
    socket,     \* socket[p][n]: where handleConnection of the n-th socket of p is
    alive,      \* alive[p]: sockets of p whose connection is up
    due,        \* due[p]: dead sockets whose handleDisconnect is to come
    running,    \* whether the agent of p runs
    dials,      \* whether it opens a socket when it has none
    writes,     \* last statements of handlers that are due: pairs of name and printer
    faults      \* crashes so far

vars == <<status, fresh, default, registry, socket, alive, due, running, dials, writes, faults>>
rowVars == <<status, fresh, default>>
linkVars == <<registry, socket, alive, due>>
agentVars == <<running, dials>>

Socket == 1 .. MaxSockets

Init ==
    /\ status = [p \in Printer |-> "NONE"]
    /\ fresh = [p \in Printer |-> FALSE]
    /\ default = NoPrinter
    /\ registry = [p \in Printer |-> 0]
    /\ socket = [p \in Printer |-> [n \in Socket |-> "unused"]]
    /\ alive = [p \in Printer |-> {}]
    /\ due = [p \in Printer |-> {}]
    /\ running = [p \in Printer |-> FALSE]
    /\ dials = [p \in Printer |-> TRUE]
    /\ writes = {}
    /\ faults = 0
-----------------------------------------------------------------------------
Live == {p \in Printer : status[p] \notin {"NONE", "REMOVED"}}

\* Mutant of Known: REMOVED is not looked at.
KnownOnceRegistered(p) == status[p] # "NONE"

\* verifyAgentCredential: the credential of printer p is accepted.
Known(p) == status[p] \notin {"NONE", "REMOVED"}

Due(name, p) == writes' = writes \cup {<<name, p>>}
Done(name, p) == <<name, p>> \in writes /\ writes' = writes \ {<<name, p>>}

\* register: count the printers, then create the row.
AskRegister(p) ==
    /\ status[p] = "NONE"
    /\ Cardinality(Live) < PrinterLimit
    /\ Due("create", p)
    /\ UNCHANGED <<rowVars, linkVars, agentVars, faults>>

CreatePrinter(p) ==
    /\ Done("create", p)
    /\ status' = [status EXCEPT ![p] = "UNKNOWN"]
    /\ UNCHANGED <<fresh, default, linkVars, agentVars, faults>>

\* Mutant of Heartbeat: only the time is written.
HeartbeatTime(p) ==
    /\ Done("heartbeat", p)
    /\ fresh' = [fresh EXCEPT ![p] = TRUE]
    /\ UNCHANGED <<status, default, linkVars, agentVars, faults>>

Heartbeat(p) ==
    /\ Done("heartbeat", p)
    /\ status' = [status EXCEPT ![p] = "ONLINE"]
    /\ fresh' = [fresh EXCEPT ![p] = TRUE]
    /\ UNCHANGED <<default, linkVars, agentVars, faults>>

MarkOffline(p) ==
    /\ Done("offline", p)
    /\ status' = [status EXCEPT ![p] = "OFFLINE"]
    /\ UNCHANGED <<fresh, default, linkVars, agentVars, faults>>
-----------------------------------------------------------------------------
\* The agent opens a socket; one that the backend closed is not opened again.
Dial(p, n) ==
    /\ running[p] /\ dials[p] /\ alive[p] = {}
    /\ socket[p][n] = "unused" /\ \A m \in Socket : m < n => socket[p][m] # "unused"
    /\ socket' = [socket EXCEPT ![p][n] = "verify"]
    /\ alive' = [alive EXCEPT ![p] = {n}]
    /\ UNCHANGED <<rowVars, registry, due, agentVars, writes, faults>>

\* handleConnection reads the printer, and goes on later.
VerifySocket(p, n) ==
    /\ socket[p][n] = "verify"
    /\ IF Known(p)
       THEN /\ socket' = [socket EXCEPT ![p][n] = "verified"]
            /\ UNCHANGED <<alive, dials>>
       ELSE /\ socket' = [socket EXCEPT ![p][n] = "over"]
            /\ alive' = [alive EXCEPT ![p] = @ \ {n}]
            /\ dials' = [dials EXCEPT ![p] = @ /\ n \notin alive[p]]
    /\ UNCHANGED <<rowVars, registry, due, running, writes, faults>>

\* It registers the socket, dead or alive, and then writes the heartbeat.
RegisterSocket(p, n) ==
    /\ socket[p][n] = "verified"
    /\ socket' = [socket EXCEPT ![p][n] = "known"]
    /\ registry' = [registry EXCEPT ![p] = n]
    /\ Due("heartbeat", p)
    /\ UNCHANGED <<rowVars, alive, due, agentVars, faults>>

\* The network or the agent ends a connection, which the backend learns later.
SocketBreaks(p, n) ==
    /\ n \in alive[p]
    /\ alive' = [alive EXCEPT ![p] = @ \ {n}]
    /\ due' = [due EXCEPT ![p] = @ \cup {n}]
    /\ UNCHANGED <<rowVars, registry, socket, agentVars, writes, faults>>

\* handleDisconnect; it does nothing for a socket not yet known, and removes
\* whichever socket is registered otherwise.
HandleDisconnect(p, n) ==
    /\ n \in due[p]
    /\ due' = [due EXCEPT ![p] = @ \ {n}]
    /\ IF socket[p][n] = "known"
       THEN registry' = [registry EXCEPT ![p] = 0] /\ Due("offline", p)
       ELSE UNCHANGED <<registry, writes>>
    /\ UNCHANGED <<rowVars, socket, alive, agentVars, faults>>

\* The heartbeat message on a socket looks at the socket only, the HTTP call at
\* the credential.
SocketHeartbeat(p, n) ==
    /\ running[p] /\ n \in alive[p] /\ socket[p][n] = "known"
    /\ Due("heartbeat", p)
    /\ UNCHANGED <<rowVars, linkVars, agentVars, faults>>

HttpHeartbeat(p) ==
    /\ running[p] /\ Known(p)
    /\ Due("heartbeat", p)
    /\ UNCHANGED <<rowVars, linkVars, agentVars, faults>>

HeartbeatsStop(p) ==
    /\ fresh[p]
    /\ fresh' = [fresh EXCEPT ![p] = FALSE]
    /\ UNCHANGED <<status, default, linkVars, agentVars, writes, faults>>

\* Mutant of Stale: a printer without any heartbeat only.
StaleNever(p) == status[p] = "UNKNOWN" /\ ~fresh[p]

Stale(p) == status[p] = "ONLINE" /\ ~fresh[p]

\* One statement for all printers.
SweepStaleHeartbeats ==
    /\ \E p \in Printer : Stale(p)
    /\ status' = [p \in Printer |-> IF Stale(p) THEN "OFFLINE" ELSE status[p]]
    /\ UNCHANGED <<fresh, default, linkVars, agentVars, writes, faults>>
-----------------------------------------------------------------------------
\* setDefaultForShop: look at the printer, then write the settings.
AskDefault(p) ==
    /\ Known(p)
    /\ Due("default", p)
    /\ UNCHANGED <<rowVars, linkVars, agentVars, faults>>

SetDefault(p) ==
    /\ Done("default", p)
    /\ default' = p
    /\ UNCHANGED <<status, fresh, linkVars, agentVars, faults>>

\* remove: look at the printer and close its socket, if one is registered; the
\* disconnect is handled at once, its write and the transaction are to come.
AskRemove(p) ==
    /\ Known(p)
    /\ LET n == registry[p]
           closed == alive[p] \cap {n}
       IN  /\ alive' = [alive EXCEPT ![p] = @ \ closed]
           /\ dials' = [dials EXCEPT ![p] = @ /\ closed = {}]
           /\ registry' = [registry EXCEPT ![p] = IF closed = {} THEN @ ELSE 0]
           /\ writes' = writes \cup {<<"remove", p>>}
                               \cup {<<"offline", p>> : m \in closed}
    /\ UNCHANGED <<rowVars, socket, due, running, faults>>

RemovePrinter(p) ==
    /\ Done("remove", p)
    /\ status' = [status EXCEPT ![p] = "REMOVED"]
    /\ default' = IF default = p THEN NoPrinter ELSE default
    /\ UNCHANGED <<fresh, linkVars, agentVars, faults>>
-----------------------------------------------------------------------------
AgentStarts(p) ==
    /\ ~running[p]
    /\ running' = [running EXCEPT ![p] = TRUE]
    /\ dials' = [dials EXCEPT ![p] = TRUE]
    /\ UNCHANGED <<rowVars, linkVars, writes, faults>>

AgentStops(p) ==
    /\ running[p]
    /\ running' = [running EXCEPT ![p] = FALSE]
    /\ alive' = [alive EXCEPT ![p] = {}]
    /\ due' = [due EXCEPT ![p] = @ \cup alive[p]]
    /\ UNCHANGED <<rowVars, registry, socket, dials, writes, faults>>

\* The backend stops and starts again: sockets, registry and handlers are gone.
Crash ==
    /\ faults < MaxFaults
    /\ faults' = faults + 1
    /\ registry' = [p \in Printer |-> 0]
    /\ socket' = [p \in Printer |-> [n \in Socket |->
                     IF socket[p][n] = "unused" THEN "unused" ELSE "over"]]
    /\ alive' = [p \in Printer |-> {}]
    /\ due' = [p \in Printer |-> {}]
    /\ writes' = {}
    /\ UNCHANGED <<rowVars, agentVars>>
-----------------------------------------------------------------------------
Write(p) ==
    CreatePrinter(p) \/ Heartbeat(p) \/ MarkOffline(p) \/ SetDefault(p) \/ RemovePrinter(p)

Shop(p) == AskRegister(p) \/ AskDefault(p) \/ AskRemove(p)

Link(p) ==
    \E n \in Socket :
        \/ Dial(p, n) \/ VerifySocket(p, n) \/ RegisterSocket(p, n)
        \/ SocketBreaks(p, n) \/ HandleDisconnect(p, n) \/ SocketHeartbeat(p, n)

Next ==
    \/ \E p \in Printer :
          \/ Write(p) \/ Shop(p) \/ Link(p)
          \/ HttpHeartbeat(p) \/ HeartbeatsStop(p) \/ AgentStarts(p) \/ AgentStops(p)
    \/ SweepStaleHeartbeats
    \/ Crash

Spec == Init /\ [][Next]_vars

\* Statements that are due are executed, an agent that runs sends heartbeats, a
\* heartbeat gets old, the cron job fires.
FairSpec ==
    /\ Spec
    /\ \A p \in Printer :
          /\ WF_vars(Heartbeat(p)) /\ WF_vars(MarkOffline(p))
          /\ WF_vars(HttpHeartbeat(p))
          /\ WF_vars(~running[p] /\ HeartbeatsStop(p))
    /\ WF_vars(SweepStaleHeartbeats)
-----------------------------------------------------------------------------
(***************************************************************************)
(* Properties.                                                             *)
(***************************************************************************)
\* Types; a dead socket waits for its end once, a registered one was accepted.
TypeOK ==
    /\ status \in [Printer -> {"NONE", "UNKNOWN", "ONLINE", "OFFLINE", "REMOVED"}]
    /\ fresh \in [Printer -> BOOLEAN]
    /\ default \in Printer \cup {NoPrinter}
    /\ registry \in [Printer -> 0 .. MaxSockets]
    /\ socket \in [Printer -> [Socket -> {"unused", "verify", "verified", "known", "over"}]]
    /\ \A p \in Printer :
          /\ alive[p] \subseteq Socket /\ Cardinality(alive[p]) <= 1
          /\ due[p] \subseteq Socket \ alive[p]
          /\ registry[p] # 0 => socket[p][registry[p]] = "known"
    /\ running \in [Printer -> BOOLEAN]
    /\ dials \in [Printer -> BOOLEAN]
    /\ writes \subseteq {"create", "heartbeat", "offline", "default", "remove"} \X Printer
    /\ faults \in 0 .. MaxFaults

\* Nothing that began before the removal of p is still under way.
AtRest(p) ==
    /\ \A name \in {"create", "heartbeat", "offline"} : <<name, p>> \notin writes
    /\ \A n \in Socket : socket[p][n] # "verified"
    /\ \A n \in Socket : socket[p][n] = "known" => n \notin alive[p] \cup due[p]

\* "blocks that agent credential from authenticating again": a removed printer
\* whose last requests are over never comes back, whatever its agent tries.
RemovedIsFinal ==
    [][\A p \in Printer :
          status[p] = "REMOVED" /\ AtRest(p) => status'[p] = "REMOVED" /\ AtRest(p)']_vars

\* "Agent stopped" -> "visible OFFLINE status", although heartbeats are under way.
StoppedAgentGoesOffline ==
    \A p \in Printer : ~running[p] ~> status[p] # "ONLINE" \/ running[p]

\* An agent that keeps running is shown ONLINE again and again, although late
\* disconnects mark it OFFLINE, unless its printer is removed.
RunningAgentComesOnline ==
    \A p \in Printer :
        <>[]running[p] => []<>(status[p] \in {"ONLINE", "NONE", "REMOVED"})

\* "Removed (unlinked) printers stay in the DB ... but are never shown as
\* live/selectable": a removed printer stays removed.
RemovedStaysRemoved ==
    [][\A p \in Printer : status[p] = "REMOVED" => status'[p] = "REMOVED"]_vars
=============================================================================
