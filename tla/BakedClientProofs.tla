------------------------- MODULE BakedClientProofs -------------------------
(***************************************************************************)
(* Proofs about BakedClient, for every number of commands and daemons and  *)
(* every bound on crashes.                                                 *)
(***************************************************************************)
EXTENDS BakedClient, TLAPS

\* A request that no handler has read is in no queue and has not run; one that
\* ran was counted.
Handled == \A c \in Commands :
    /\ handler[c] = "none" => /\ byDaemon[c] = 0 /\ c \notin file
                              /\ \A d \in Daemons : c \notin entries[d]
    /\ handler[c] \in {"ran", "answered"} => byDaemon[c] > 0

\* A handler has only read requests of commands that wait or got an answer.
Routed == \A c \in Commands :
    /\ pc[c] \in {"stat", "wait", "dial", "send", "local"} => handler[c] = "none"
    /\ c \in local => handler[c] = "none" /\ pc[c] = "done"
    /\ pc[c] = "done" => c \in local \/ handler[c] = "answered"

ClientInv == TypeOK /\ Handled /\ Routed

LEMMA ClientInit == Init => ClientInv
BY DaemonAssumption DEF Init, ClientInv, TypeOK, Handled, Routed

LEMMA TypeNext == TypeOK /\ [Next]_vars => TypeOK'
<1> USE DaemonAssumption
    DEF TypeOK, Goto, Phase, daemon, queues, client, bounds
<1> SUFFICES ASSUME TypeOK, [Next]_vars PROVE TypeOK'
  OBVIOUS
<1>1. ASSUME NEW c \in Commands, Command(c) PROVE TypeOK'
  BY <1>1 DEF Command, SocketThere, Spawn, SpawnFails, WaitOver, Dial, DialFails,
              Send, Receive, ConnectionLost, RunLocally
<1>2. ASSUME NEW d \in Daemons, Daemon(d) PROVE TypeOK'
  <2>1. CASE LoadQueue(d) BY <2>1 DEF LoadQueue
  <2>2. CASE RemoveSocket(d) BY <2>2 DEF RemoveSocket
  <2>3. CASE Listen(d) BY <2>3 DEF Listen
  <2>4. CASE ReplayEntry(d) BY <2>4 DEF ReplayEntry, Dequeue
  <2>5. CASE Serve(d) BY <2>5 DEF Serve
  <2>6. CASE Exit(d) BY <2>6 DEF Exit
  <2>7. ASSUME NEW c \in Commands, Enqueue(d, c) PROVE TypeOK'
    BY <2>7 DEF Enqueue
  <2>8. ASSUME NEW c \in Commands, RunRequest(d, c) PROVE TypeOK'
    BY <2>8 DEF RunRequest
  <2>9. ASSUME NEW c \in Commands, Respond(d, c) PROVE TypeOK'
    BY <2>9 DEF Respond, Dequeue
  <2> QED
    BY <1>2, <2>1, <2>2, <2>3, <2>4, <2>5, <2>6, <2>7, <2>8, <2>9 DEF Daemon
<1>3. ASSUME NEW d \in Daemons, Stop(d) PROVE TypeOK'
  BY <1>3 DEF Stop
<1>4. ASSUME NEW d \in Daemons, Kill(d) PROVE TypeOK'
  BY <1>4 DEF Kill
<1>5. CASE UNCHANGED vars BY <1>5 DEF vars
<1> QED BY <1>1, <1>2, <1>3, <1>4, <1>5 DEF Next

LEMMA RouteNext == ClientInv /\ [Next]_vars => Handled' /\ Routed'
<1> USE DEF Handled, Routed, Goto, Phase, daemon, queues, client, bounds
<1> SUFFICES ASSUME TypeOK, Handled, Routed, [Next]_vars
             PROVE  Handled' /\ Routed'
  BY DEF ClientInv
<1> USE DEF TypeOK
<1>1. ASSUME NEW c \in Commands, Command(c) PROVE Handled' /\ Routed'
  <2>1. CASE SocketThere(c) BY <2>1 DEF SocketThere
  <2>2. CASE Spawn(c) BY <2>2 DEF Spawn
  <2>3. CASE SpawnFails(c) BY <2>3 DEF SpawnFails
  <2>4. CASE WaitOver(c) BY <2>4 DEF WaitOver
  <2>5. CASE Dial(c) BY <2>5 DEF Dial
  <2>6. CASE DialFails(c) BY <2>6 DEF DialFails
  <2>7. CASE Send(c) BY <2>7 DEF Send
  <2>8. CASE Receive(c) BY <2>8 DEF Receive
  <2>9. CASE ConnectionLost(c) BY <2>9 DEF ConnectionLost
  <2>10. CASE RunLocally(c) BY <2>10 DEF RunLocally
  <2> QED
    BY <1>1, <2>1, <2>2, <2>3, <2>4, <2>5, <2>6, <2>7, <2>8, <2>9, <2>10 DEF Command
<1>2. ASSUME NEW d \in Daemons, Daemon(d) PROVE Handled' /\ Routed'
  <2>1. CASE LoadQueue(d) BY <2>1 DEF LoadQueue
  <2>2. CASE RemoveSocket(d) BY <2>2 DEF RemoveSocket
  <2>3. CASE Listen(d) BY <2>3 DEF Listen
  <2>4. CASE ReplayEntry(d) BY <2>4 DEF ReplayEntry, Dequeue
  <2>5. CASE Serve(d) BY <2>5 DEF Serve
  <2>6. CASE Exit(d) BY <2>6 DEF Exit
  <2>7. ASSUME NEW c \in Commands, Enqueue(d, c) PROVE Handled' /\ Routed'
    BY <2>7 DEF Enqueue
  <2>8. ASSUME NEW c \in Commands, RunRequest(d, c) PROVE Handled' /\ Routed'
    BY <2>8 DEF RunRequest
  <2>9. ASSUME NEW c \in Commands, Respond(d, c) PROVE Handled' /\ Routed'
    BY <2>9 DEF Respond, Dequeue
  <2> QED
    BY <1>2, <2>1, <2>2, <2>3, <2>4, <2>5, <2>6, <2>7, <2>8, <2>9 DEF Daemon
<1>3. ASSUME NEW d \in Daemons, Stop(d) PROVE Handled' /\ Routed'
  BY <1>3 DEF Stop
<1>4. ASSUME NEW d \in Daemons, Kill(d) PROVE Handled' /\ Routed'
  BY <1>4 DEF Kill
<1>5. CASE UNCHANGED vars BY <1>5 DEF vars
<1> QED BY <1>1, <1>2, <1>3, <1>4, <1>5 DEF Next

THEOREM ClientInvariant == Spec => []ClientInv
<1>1. ClientInv /\ [Next]_vars => ClientInv'
  BY TypeNext, RouteNext DEF ClientInv
<1> QED BY ClientInit, <1>1, PTL DEF Spec

\* The type invariant holds.
THEOREM TypeCorrect == Spec => []TypeOK
<1>1. ClientInv => TypeOK BY DEF ClientInv
<1> QED BY <1>1, ClientInvariant, PTL

\* A request that a command ran itself was not run, and is not queued to be run,
\* by any daemon.
THEOREM FallbackIsSafe == Spec => []OneRoute
<1>1. ClientInv => OneRoute BY DEF ClientInv, Handled, Routed, OneRoute, TypeOK
<1> QED BY <1>1, ClientInvariant, PTL

\* A command that ends had its request run.
THEOREM EndMeansRun == Spec => []DoneMeansRun
<1>1. ClientInv => DoneMeansRun BY DEF ClientInv, Handled, Routed, DoneMeansRun
<1> QED BY <1>1, ClientInvariant, PTL
=============================================================================
