------------------------ MODULE AgentGateway_proofs ------------------------
(***************************************************************************)
(* Proofs about AgentGateway: its types, and that a removed printer whose  *)
(* last requests are over never comes back.  Both rest on one inductive    *)
(* invariant: the types, and that a socket that is up, or whose end is to  *)
(* be handled, was opened (a new one is taken from those that were not).   *)
(***************************************************************************)
EXTENDS AgentGateway, FiniteSetTheorems, TLAPS

\* The parts of TypeOK about one variable each.
Shape ==
    /\ status \in [Printer -> {"NONE", "UNKNOWN", "ONLINE", "OFFLINE", "REMOVED"}]
    /\ fresh \in [Printer -> BOOLEAN]
    /\ default \in Printer \cup {NoPrinter}
    /\ registry \in [Printer -> 0 .. MaxSockets]
    /\ socket \in [Printer -> [Socket -> {"unused", "verify", "verified", "known", "over"}]]
    /\ running \in [Printer -> BOOLEAN]
    /\ dials \in [Printer -> BOOLEAN]
    /\ writes \subseteq {"create", "heartbeat", "offline", "default", "remove"} \X Printer
    /\ faults \in 0 .. MaxFaults

\* alive and due hold sockets that were opened, and have none in common.
Sockets ==
    /\ alive \in [Printer -> SUBSET Socket] /\ due \in [Printer -> SUBSET Socket]
    /\ \A p \in Printer :
          /\ alive[p] \cap due[p] = {}
          /\ \A n \in alive[p] \cup due[p] : socket[p][n] # "unused"

AtMostOne(S) == \A m, n \in S : m = n
OneAlive == \A p \in Printer : AtMostOne(alive[p])

RegisteredIsKnown == \A p \in Printer : registry[p] # 0 => socket[p][registry[p]] = "known"

IInv == Shape /\ Sockets /\ OneAlive /\ RegisteredIsKnown
-----------------------------------------------------------------------------
\* A set of sockets without two different members has one member at most.
LEMMA AtMostOneIsSmall ==
    ASSUME NEW S \in SUBSET Socket, AtMostOne(S)
    PROVE  Cardinality(S) <= 1
<1>1. CASE S = {}
  BY <1>1, FS_EmptySet
<1>2. CASE S # {}
  <2>1. PICK n \in S : TRUE
    BY <1>2
  <2>2. S = {n}
    BY <2>1 DEF AtMostOne
  <2>3. Cardinality({n}) = 1
    BY FS_Singleton
  <2> QED
    BY <2>2, <2>3
<1> QED
  BY <1>1, <1>2

\* The invariant says at least what TypeOK says.
LEMMA IInv_TypeOK == IInv => TypeOK
<1> SUFFICES ASSUME IInv PROVE TypeOK
  OBVIOUS
<1>1. \A p \in Printer : Cardinality(alive[p]) <= 1
  BY AtMostOneIsSmall DEF IInv, Sockets, OneAlive
<1>2. \A p \in Printer : alive[p] \subseteq Socket /\ due[p] \subseteq Socket \ alive[p]
  BY DEF IInv, Sockets
<1> QED
  BY <1>1, <1>2 DEF IInv, Shape, RegisteredIsKnown, TypeOK

\* A function to BOOLEAN that is changed at p.
LEMMA DialsType ==
    ASSUME dials \in [Printer -> BOOLEAN], NEW p \in Printer, NEW B,
           dials' = [dials EXCEPT ![p] = @ /\ B]
    PROVE  dials' \in [Printer -> BOOLEAN]
<1>1. (dials[p] /\ B) \in BOOLEAN
  BY Zenon
<1> QED
  BY <1>1, Zenon

LEMMA RunningType ==
    ASSUME dials \in [Printer -> BOOLEAN], running \in [Printer -> BOOLEAN], NEW p \in Printer,
           AgentStarts(p)
    PROVE  dials' \in [Printer -> BOOLEAN] /\ running' \in [Printer -> BOOLEAN]
BY Zenon DEF AgentStarts

\* The invariant holds at the start.
LEMMA Init_IInv == Init => IInv
<1> SUFFICES ASSUME Init PROVE IInv
  OBVIOUS
<1>1. Shape
  BY GatewayAssumption DEF Init, Shape, Socket
<1>2. Sockets /\ OneAlive
  BY DEF Init, Sockets, OneAlive, AtMostOne
<1>3. RegisteredIsKnown
  BY DEF Init, RegisteredIsKnown
<1> QED
  BY <1>1, <1>2, <1>3 DEF IInv
-----------------------------------------------------------------------------
\* The last statements of handlers change rows only, and keep the invariant.
LEMMA Write_IInv ==
    ASSUME IInv, NEW p \in Printer, Write(p)
    PROVE  IInv'
<1>1. UNCHANGED <<linkVars, agentVars, faults>>
  BY DEF Write, CreatePrinter, Heartbeat, MarkOffline, SetDefault, RemovePrinter
<1>2. status' \in [Printer -> {"NONE", "UNKNOWN", "ONLINE", "OFFLINE", "REMOVED"}]
  BY DEF IInv, Shape, Write, CreatePrinter, Heartbeat, MarkOffline, SetDefault, RemovePrinter
<1>3. fresh' \in [Printer -> BOOLEAN] /\ default' \in Printer \cup {NoPrinter}
  BY DEF IInv, Shape, Write, CreatePrinter, Heartbeat, MarkOffline, SetDefault, RemovePrinter
<1>4. writes' \subseteq writes
  BY DEF Write, CreatePrinter, Heartbeat, MarkOffline, SetDefault, RemovePrinter, Done
<1>5. Shape'
  BY <1>1, <1>2, <1>3, <1>4 DEF IInv, Shape, linkVars, agentVars
<1> QED
  BY <1>1, <1>5 DEF IInv, Sockets, OneAlive, RegisteredIsKnown, linkVars

\* Requests of the shop: a removal closes the registered socket.
LEMMA Shop_IInv ==
    ASSUME IInv, NEW p \in Printer, Shop(p)
    PROVE  IInv'
<1>1. CASE AskRegister(p) \/ AskDefault(p)
  <2>1. UNCHANGED <<rowVars, linkVars, agentVars, faults>>
    BY <1>1 DEF AskRegister, AskDefault
  <2>2. Shape'
    BY <1>1, <2>1 DEF IInv, Shape, rowVars, linkVars, agentVars, AskRegister, AskDefault, Due
  <2> QED
    BY <2>1, <2>2 DEF IInv, Sockets, OneAlive, RegisteredIsKnown, linkVars
<1>2. CASE AskRemove(p)
  <2> DEFINE closed == alive[p] \cap {registry[p]}
  <2>a. dials' \in [Printer -> BOOLEAN]
    BY <1>2, DialsType DEF IInv, Shape, AskRemove
  <2>b. registry' \in [Printer -> 0 .. MaxSockets]
    BY <1>2, GatewayAssumption DEF IInv, Shape, AskRemove
  <2>c. writes' \subseteq {"create", "heartbeat", "offline", "default", "remove"} \X Printer
    BY <1>2 DEF IInv, Shape, AskRemove
  <2>1. Shape'
    BY <1>2, <2>a, <2>b, <2>c DEF IInv, Shape, AskRemove, rowVars
  <2>2. Sockets' /\ OneAlive'
    BY <1>2 DEF IInv, Sockets, OneAlive, AtMostOne, AskRemove
  <2>3. RegisteredIsKnown'
    BY <1>2 DEF IInv, Shape, RegisteredIsKnown, AskRemove
  <2> QED
    BY <2>1, <2>2, <2>3 DEF IInv
<1> QED
  BY <1>1, <1>2 DEF Shop

\* The life of a socket.
LEMMA Link_IInv ==
    ASSUME IInv, NEW p \in Printer, Link(p)
    PROVE  IInv'
<1>0. PICK n \in Socket :
        \/ Dial(p, n) \/ VerifySocket(p, n) \/ RegisterSocket(p, n)
        \/ SocketBreaks(p, n) \/ HandleDisconnect(p, n) \/ SocketHeartbeat(p, n)
  BY DEF Link
<1> USE DEF IInv
<1>1. CASE Dial(p, n)
  <2>1. Shape'
    BY <1>1 DEF Shape, Dial, rowVars, agentVars
  <2>2. Sockets' /\ OneAlive'
    BY <1>1 DEF Shape, Sockets, OneAlive, AtMostOne, Dial
  <2>3. RegisteredIsKnown'
    BY <1>1 DEF Shape, RegisteredIsKnown, Dial, Socket
  <2> QED
    BY <2>1, <2>2, <2>3
<1>2. CASE VerifySocket(p, n)
  <2>a. dials' \in [Printer -> BOOLEAN]
    BY <1>2, DialsType DEF Shape, VerifySocket
  <2>b. /\ socket[p][n] = "verify"
        /\ \E s \in {"verified", "over"} : socket' = [socket EXCEPT ![p][n] = s]
        /\ alive' = alive \/ alive' = [alive EXCEPT ![p] = @ \ {n}]
        /\ UNCHANGED <<status, fresh, default, registry, due, running, writes, faults>>
    BY <1>2 DEF VerifySocket, rowVars
  <2>c. PICK s \in {"verified", "over"} : socket' = [socket EXCEPT ![p][n] = s]
    BY <2>b
  <2>1. Shape'
    BY <2>a, <2>b, <2>c DEF Shape
  <2>2. Sockets' /\ OneAlive'
    <3>1. \A q \in Printer, m \in Socket : socket[q][m] # "unused" => socket'[q][m] # "unused"
      BY <2>c DEF Shape
    <3>2. alive' \in [Printer -> SUBSET Socket] /\ \A q \in Printer : alive'[q] \subseteq alive[q]
      BY <2>b DEF Sockets
    <3>3. Sockets'
      BY <2>b, <3>1, <3>2 DEF Sockets
    <3> QED
      BY <3>2, <3>3 DEF OneAlive, AtMostOne
  <2>3. RegisteredIsKnown'
    BY <2>b, <2>c DEF Shape, RegisteredIsKnown, Socket
  <2> QED
    BY <2>1, <2>2, <2>3
<1>3. CASE RegisterSocket(p, n)
  <2>1. Shape'
    BY <1>3 DEF Shape, RegisterSocket, rowVars, agentVars, Due, Socket
  <2>2. Sockets' /\ OneAlive'
    BY <1>3 DEF Shape, Sockets, OneAlive, AtMostOne, RegisterSocket
  <2>3. RegisteredIsKnown'
    BY <1>3 DEF Shape, RegisteredIsKnown, RegisterSocket, Socket
  <2> QED
    BY <2>1, <2>2, <2>3
<1>4. CASE SocketBreaks(p, n)
  <2>1. Shape'
    BY <1>4 DEF Shape, SocketBreaks, rowVars, agentVars
  <2>2. Sockets' /\ OneAlive'
    BY <1>4 DEF Shape, Sockets, OneAlive, AtMostOne, SocketBreaks
  <2>3. RegisteredIsKnown'
    BY <1>4 DEF RegisteredIsKnown, SocketBreaks
  <2> QED
    BY <2>1, <2>2, <2>3
<1>5. CASE HandleDisconnect(p, n)
  <2>1. Shape'
    BY <1>5, GatewayAssumption DEF Shape, HandleDisconnect, rowVars, agentVars, Due
  <2>2. Sockets' /\ OneAlive'
    BY <1>5 DEF Shape, Sockets, OneAlive, AtMostOne, HandleDisconnect
  <2>3. RegisteredIsKnown'
    BY <1>5 DEF Shape, RegisteredIsKnown, HandleDisconnect
  <2> QED
    BY <2>1, <2>2, <2>3
<1>6. CASE SocketHeartbeat(p, n)
  <2>1. Shape'
    BY <1>6 DEF Shape, SocketHeartbeat, rowVars, linkVars, agentVars, Due
  <2> QED
    BY <1>6, <2>1 DEF Sockets, OneAlive, RegisteredIsKnown, SocketHeartbeat, linkVars
<1> QED
  BY <1>0, <1>1, <1>2, <1>3, <1>4, <1>5, <1>6

\* The agent, the passing of time, the cron job and crashes.
LEMMA Rest_IInv ==
    ASSUME IInv,
           \/ \E p \in Printer : HttpHeartbeat(p) \/ HeartbeatsStop(p) \/ AgentStarts(p) \/ AgentStops(p)
           \/ SweepStaleHeartbeats
           \/ Crash
           \/ UNCHANGED vars
    PROVE  IInv'
<1> USE DEF IInv
<1>1. ASSUME NEW p \in Printer, HttpHeartbeat(p) \/ HeartbeatsStop(p) \/ AgentStarts(p)
      PROVE  IInv'
  <2>1. Shape'
    <3>1. CASE AgentStarts(p)
      BY <3>1, RunningType DEF Shape, AgentStarts, rowVars, linkVars
    <3>2. CASE HttpHeartbeat(p)
      BY <3>2 DEF Shape, HttpHeartbeat, rowVars, linkVars, agentVars, Due
    <3>3. CASE HeartbeatsStop(p)
      <4>1. fresh' \in [Printer -> BOOLEAN]
        BY <3>3, Zenon DEF Shape, HeartbeatsStop
      <4> QED
        BY <3>3, <4>1 DEF Shape, HeartbeatsStop, linkVars, agentVars
    <3> QED
      BY <1>1, <3>1, <3>2, <3>3
  <2> QED
    BY <1>1, <2>1 DEF Sockets, OneAlive, RegisteredIsKnown, linkVars,
        HttpHeartbeat, HeartbeatsStop, AgentStarts
<1>2. ASSUME NEW p \in Printer, AgentStops(p) PROVE IInv'
  <2>1. Shape'
    BY <1>2 DEF Shape, AgentStops, rowVars
  <2>2. Sockets' /\ OneAlive'
    BY <1>2 DEF Shape, Sockets, OneAlive, AtMostOne, AgentStops
  <2>3. RegisteredIsKnown'
    BY <1>2 DEF RegisteredIsKnown, AgentStops
  <2> QED
    BY <2>1, <2>2, <2>3
<1>3. CASE SweepStaleHeartbeats
  <2>1. Shape'
    BY <1>3 DEF Shape, SweepStaleHeartbeats, linkVars, agentVars
  <2> QED
    BY <1>3, <2>1 DEF Sockets, OneAlive, RegisteredIsKnown, SweepStaleHeartbeats, linkVars
<1>4. CASE Crash
  <2>1. Shape'
    BY <1>4, GatewayAssumption DEF Shape, Crash, rowVars, agentVars
  <2>2. Sockets' /\ OneAlive' /\ RegisteredIsKnown'
    BY <1>4 DEF Sockets, OneAlive, AtMostOne, RegisteredIsKnown, Crash
  <2> QED
    BY <2>1, <2>2
<1>5. CASE UNCHANGED vars
  BY <1>5 DEF vars, Shape, Sockets, OneAlive, RegisteredIsKnown
<1> QED
  BY <1>1, <1>2, <1>3, <1>4, <1>5

\* Every step keeps the invariant.
LEMMA Next_IInv == IInv /\ [Next]_vars => IInv'
<1> SUFFICES ASSUME IInv, [Next]_vars PROVE IInv'
  OBVIOUS
<1> QED
  BY Write_IInv, Shop_IInv, Link_IInv, Rest_IInv DEF Next

\* TypeOK is an invariant of the gateway, for any printers and bounds.
THEOREM Spec_TypeOK == Spec => []TypeOK
<1>1. Spec => []IInv
  BY Init_IInv, Next_IInv, PTL DEF Spec
<1> QED
  BY <1>1, IInv_TypeOK, PTL
-----------------------------------------------------------------------------
\* What AtRest says of p needs nothing but the socket states and the statements
\* of p.
LEMMA AtRestStays ==
    ASSUME NEW q \in Printer, AtRest(q),
           \A name \in {"create", "heartbeat", "offline"} : <<name, q>> \in writes' => <<name, q>> \in writes,
           socket'[q] = socket[q] \/ \A n \in Socket : socket'[q][n] \notin {"verified", "known"},
           alive'[q] \cup due'[q] \subseteq alive[q] \cup due[q]
    PROVE  AtRest(q)'
BY DEF AtRest

\* A removed printer at rest stays so, whatever its agent, the shop or the
\* backend do next.
LEMMA Next_RemovedIsFinal ==
    ASSUME IInv, [Next]_vars, NEW q \in Printer, status[q] = "REMOVED", AtRest(q)
    PROVE  status'[q] = "REMOVED" /\ AtRest(q)'
<1> USE DEF IInv, Shape
<1>1. ASSUME NEW p \in Printer, Write(p) PROVE status'[q] = "REMOVED" /\ AtRest(q)'
  <2>1. UNCHANGED linkVars /\ writes' \subseteq writes
    BY <1>1 DEF Write, CreatePrinter, Heartbeat, MarkOffline, SetDefault, RemovePrinter, Done
  <2>2. AtRest(q)'
    BY <2>1, AtRestStays DEF linkVars
  <2>3. status'[q] = "REMOVED"
    BY <1>1 DEF Write, CreatePrinter, Heartbeat, MarkOffline, SetDefault, RemovePrinter, Done, AtRest
  <2> QED
    BY <2>2, <2>3
<1>2. ASSUME NEW p \in Printer, Shop(p) PROVE status'[q] = "REMOVED" /\ AtRest(q)'
  <2>1. p # q
    BY <1>2 DEF Shop, AskRegister, AskDefault, AskRemove, Known
  <2>2. status' = status
    BY <1>2 DEF Shop, AskRegister, AskDefault, AskRemove, rowVars
  <2>3. socket' = socket /\ due' = due /\ alive'[q] \subseteq alive[q]
    BY <1>2, <2>1 DEF Shop, AskRegister, AskDefault, AskRemove, linkVars, Sockets
  <2>4. \A name \in {"create", "heartbeat", "offline"} : <<name, q>> \in writes' => <<name, q>> \in writes
    BY <1>2, <2>1 DEF Shop, AskRegister, AskDefault, AskRemove, Due
  <2> QED
    BY <2>2, <2>3, <2>4, AtRestStays
<1>3. ASSUME NEW p \in Printer, Link(p) PROVE status'[q] = "REMOVED" /\ AtRest(q)'
  <2>0. PICK n \in Socket :
          \/ Dial(p, n) \/ VerifySocket(p, n) \/ RegisterSocket(p, n)
          \/ SocketBreaks(p, n) \/ HandleDisconnect(p, n) \/ SocketHeartbeat(p, n)
    BY <1>3 DEF Link
  <2>1. status' = status
    BY <2>0 DEF Dial, VerifySocket, RegisterSocket, SocketBreaks, HandleDisconnect, SocketHeartbeat, rowVars
  <2>2. AtRest(q)'
    <3>1. CASE Dial(p, n)
      BY <3>1 DEF Dial, AtRest, Sockets
    <3>2. CASE VerifySocket(p, n)
      <4>1. /\ socket[p][n] = "verify"
            /\ p # q => socket'[q] = socket[q] /\ alive'[q] = alive[q]
            /\ p = q => socket' = [socket EXCEPT ![p][n] = "over"] /\ alive' = [alive EXCEPT ![p] = @ \ {n}]
            /\ UNCHANGED <<due, writes>>
        BY <3>2 DEF VerifySocket, Known, Sockets
      <4>2. CASE p # q
        BY <4>1, <4>2, AtRestStays
      <4>3. CASE p = q
        BY <4>1, <4>3 DEF AtRest, Sockets
      <4> QED
        BY <4>2, <4>3
    <3>3. CASE RegisterSocket(p, n)
      BY <3>3 DEF RegisterSocket, AtRest, Due
    <3>4. CASE SocketBreaks(p, n)
      BY <3>4 DEF SocketBreaks, AtRest, Sockets
    <3>5. CASE HandleDisconnect(p, n)
      BY <3>5 DEF HandleDisconnect, AtRest, Sockets, Due
    <3>6. CASE SocketHeartbeat(p, n)
      BY <3>6 DEF SocketHeartbeat, AtRest, Due, linkVars
    <3> QED
      BY <2>0, <3>1, <3>2, <3>3, <3>4, <3>5, <3>6
  <2> QED
    BY <2>1, <2>2
<1>4. ASSUME NEW p \in Printer, HttpHeartbeat(p) \/ HeartbeatsStop(p) \/ AgentStarts(p) \/ AgentStops(p)
      PROVE  status'[q] = "REMOVED" /\ AtRest(q)'
  <2>1. status' = status /\ socket' = socket
    BY <1>4 DEF HttpHeartbeat, HeartbeatsStop, AgentStarts, AgentStops, rowVars, linkVars
  <2>2. alive'[q] \cup due'[q] \subseteq alive[q] \cup due[q]
    BY <1>4 DEF HttpHeartbeat, HeartbeatsStop, AgentStarts, AgentStops, linkVars, Sockets
  <2>3. \A name \in {"create", "heartbeat", "offline"} : <<name, q>> \in writes' => <<name, q>> \in writes
    BY <1>4 DEF HttpHeartbeat, HeartbeatsStop, AgentStarts, AgentStops, Due, Known
  <2> QED
    BY <2>1, <2>2, <2>3, AtRestStays
<1>5. CASE SweepStaleHeartbeats
  BY <1>5, AtRestStays DEF SweepStaleHeartbeats, Stale, linkVars
<1>6. CASE Crash
  BY <1>6 DEF Crash, AtRest, rowVars
<1>7. CASE UNCHANGED vars
  BY <1>7, AtRestStays DEF vars
<1> QED
  BY <1>1, <1>2, <1>3, <1>4, <1>5, <1>6, <1>7 DEF Next

\* PrinterService.remove "blocks that agent credential": a removed printer whose
\* last requests are over never comes back, for any printers and any number of
\* sockets.
THEOREM Spec_RemovedIsFinal == Spec => RemovedIsFinal
<1>1. Spec => []IInv
  BY Init_IInv, Next_IInv, PTL DEF Spec
<1>2. IInv /\ [Next]_vars =>
        [\A p \in Printer :
           status[p] = "REMOVED" /\ AtRest(p) => status'[p] = "REMOVED" /\ AtRest(p)']_vars
  BY Next_RemovedIsFinal
<1> QED
  BY <1>1, <1>2, PTL DEF Spec, RemovedIsFinal
=============================================================================
