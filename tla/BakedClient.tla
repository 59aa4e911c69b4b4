---------------------------- MODULE BakedClient ----------------------------
(***************************************************************************)
(* How a command reaches the daemon: tryDaemon (cmd/bake/main.go) and      *)
(* internal/daemonclient on one side, the start and the end of runDaemon   *)
(* (cmd/baked/main.go) on the other, and between them the socket file, the *)
(* only thing that says whether a daemon runs.  Several commands may start *)
(* daemons at the same time, and a daemon may be killed or told to stop at *)
(* any moment.                                                             *)
(*                                                                         *)
(* Each daemon loads the workspace's queue.json when it starts; its own    *)
(* view of the queue and the file are sets of requests here, and a write   *)
(* of the file is atomic (BakedQueue has the detail).  An error of Accept, *)
(* which ends acceptLoop while the listener stays open, so that commands   *)
(* connect and are never answered, is left out.                            *)
(***************************************************************************)
EXTENDS Naturals

CONSTANTS Commands,    \* one request each
          Daemons,     \* processes that may be started
          MaxKills,    \* bound on daemons that crash or are killed
          MaxStops,    \* bound on daemons that are told to stop
          None

ASSUME DaemonAssumption == /\ None \notin Daemons
                           /\ MaxKills \in Nat /\ MaxStops \in Nat

VARIABLES sock,      \* the daemon whose listener .bake/baked.sock names
          phase,     \* phase[d]: where runDaemon is
          entries,   \* entries[d]: requests in d's queue
          file,      \* requests in queue.json
          pc,        \* pc[c]: where the command is
          conn,      \* conn[c]: the daemon at the other end
          handler,   \* handler[c]: where handleConn is with c
          byDaemon,  \* byDaemon[c]: runs of c's request by daemons
          local,     \* commands that ran their target themselves
          kills, stops

vars == <<sock, phase, entries, file, pc, conn, handler, byDaemon,
          local, kills, stops>>
daemon == <<sock, phase>>
queues == <<entries, file>>
client == <<pc, conn, local>>
bounds == <<kills, stops>>

Init == /\ sock = None
        /\ phase = [d \in Daemons |-> "none"]
        /\ entries = [d \in Daemons |-> {}] /\ file = {}
        /\ pc = [c \in Commands |-> "stat"]
        /\ conn = [c \in Commands |-> None]
        /\ handler = [c \in Commands |-> "none"]
        /\ byDaemon = [c \in Commands |-> 0]
        /\ local = {}
        /\ kills = 0 /\ stops = 0

Goto(c, from, to) == pc[c] = from /\ pc' = [pc EXCEPT ![c] = to]
Phase(d, from, to) == phase[d] = from /\ phase' = [phase EXCEPT ![d] = to]

\* A connection to d is accepted by the kernel from Listen to Close.
Listening(d) == phase[d] \in {"replay", "serve"}
\* Goroutines of d run.
Running(d) == phase[d] \in {"replay", "serve", "closing"}

----------------------------------------------------------------------------
(* The command: EnsureStarted, Dial, SendRequest.                          *)

\* os.Stat(sock) succeeds: EnsureStarted returns at once.
SocketThere(c) == /\ sock # None
                  /\ Goto(c, "stat", "dial")
                  /\ UNCHANGED <<daemon, queues, conn, handler, byDaemon, local, bounds>>

Spawn(c) == /\ sock = None
            /\ Goto(c, "stat", "wait")
            /\ \E d \in Daemons : Phase(d, "none", "load")
            /\ UNCHANGED <<sock, queues, conn, handler, byDaemon, local, bounds>>

\* cmd.Start fails.
SpawnFails(c) == /\ sock = None
                 /\ Goto(c, "stat", "local")
                      /\ UNCHANGED <<daemon, queues, conn, handler, byDaemon, local, bounds>>

\* The file has appeared, or ten seconds have passed: nil either way.
WaitOver(c) == /\ Goto(c, "wait", "dial")
               /\ UNCHANGED <<daemon, queues, conn, handler, byDaemon, local, bounds>>

Dial(c) == /\ \E d \in Daemons : /\ sock = d /\ Listening(d)
                                 /\ conn' = [conn EXCEPT ![c] = d]
           /\ Goto(c, "dial", "send")
           /\ UNCHANGED <<daemon, queues, handler, byDaemon, local, bounds>>

\* No file, or nobody listens: fall back to in-process.
DialFails(c) == /\ \A d \in Daemons : sock = d => ~Listening(d)
                /\ Goto(c, "dial", "local")
                /\ UNCHANGED <<daemon, queues, conn, handler, byDaemon, local, bounds>>

\* conn.Write; an error if the other end is closed.
Send(c) == /\ \/ Goto(c, "send", "await") /\ Running(conn[c])
              \/ Goto(c, "send", "local") /\ ~Running(conn[c])
           /\ UNCHANGED <<daemon, queues, conn, handler, byDaemon, local, bounds>>

\* Mutant of Receive: any end of the read counts as an answer.
ReceiveAnything(c) == /\ Goto(c, "await", "done")
                      /\ UNCHANGED <<daemon, queues, conn, handler, byDaemon, local, bounds>>

\* scanner.Scan reads the answer, which outlives the daemon that wrote it.
Receive(c) == /\ handler[c] = "answered"
              /\ Goto(c, "await", "done")
              /\ UNCHANGED <<daemon, queues, conn, handler, byDaemon, local, bounds>>

\* Mutants of ConnectionLost: an end of file is an error like others and the
\* command falls back; a reset is not noticed.
ConnectionLostFallback(c) ==
    /\ handler[c] # "answered" /\ Goto(c, "await", "local")
    /\ ~Running(conn[c])
    /\ UNCHANGED <<daemon, queues, conn, handler, byDaemon, local, bounds>>
ConnectionLostUnnoticed(c) ==
    /\ handler[c] \in {"queued", "ran"} /\ Goto(c, "await", "panic")
    /\ ~Running(conn[c])
    /\ UNCHANGED <<daemon, queues, conn, handler, byDaemon, local, bounds>>

\* The daemon is gone before it answered.  If it had not read the request the
\* read fails with ECONNRESET: fall back.  Otherwise it is a plain end of file,
\* scanner.Err() is nil, SendRequest returns nil, nil, and resp.Output panics.
ConnectionLost(c) == /\ \/ handler[c] = "none" /\ Goto(c, "await", "local")
                        \/ handler[c] \in {"queued", "ran"} /\ Goto(c, "await", "panic")
                     /\ ~Running(conn[c])
                     /\ UNCHANGED <<daemon, queues, conn, handler, byDaemon, local, bounds>>

RunLocally(c) == /\ Goto(c, "local", "done")
                 /\ local' = local \union {c}
                 /\ UNCHANGED <<daemon, queues, conn, handler, byDaemon, bounds>>

----------------------------------------------------------------------------
(* The daemon.                                                             *)

\* initWorkspace: NewQueue.
LoadQueue(d) == /\ Phase(d, "load", "remove")
                /\ entries' = [entries EXCEPT ![d] = file]
                /\ UNCHANGED <<sock, file, client, handler, byDaemon, bounds>>

\* _ = os.Remove(sockPath)
RemoveSocket(d) == /\ Phase(d, "remove", "listen")
                   /\ sock' = None
                   /\ UNCHANGED <<queues, client, handler, byDaemon, bounds>>

\* net.Listen: an error if the file is there again.
Listen(d) == /\ \/ sock = None /\ sock' = d /\ Phase(d, "listen", "replay")
                \/ sock # None /\ Phase(d, "listen", "dead") /\ UNCHANGED sock
             /\ UNCHANGED <<queues, client, handler, byDaemon, bounds>>

\* Dequeue: out of the queue, and the file is rewritten.
Dequeue(d, c) == /\ entries' = [entries EXCEPT ![d] = @ \ {c}]
                 /\ file' = entries[d] \ {c}

\* replayQueue: run an entry, dequeue it.
ReplayEntry(d) == /\ phase[d] = "replay"
                  /\ \E c \in entries[d] :
                       /\ byDaemon' = [byDaemon EXCEPT ![c] = @ + 1]
                       /\ Dequeue(d, c)
                  /\ UNCHANGED <<daemon, client, handler, bounds>>

Serve(d) == /\ entries[d] = {}
            /\ Phase(d, "replay", "serve")
            /\ UNCHANGED <<sock, queues, client, handler, byDaemon, bounds>>

\* handleConn: accept, read the request, Enqueue.
Enqueue(d, c) == /\ phase[d] = "serve" /\ conn[c] = d
                 /\ pc[c] = "await" /\ handler[c] = "none"
                 /\ handler' = [handler EXCEPT ![c] = "queued"]
                 /\ entries' = [entries EXCEPT ![d] = @ \union {c}]
                 /\ file' = entries[d] \union {c}
                 /\ UNCHANGED <<daemon, client, byDaemon, bounds>>

RunRequest(d, c) == /\ Running(d) /\ conn[c] = d
                    /\ handler[c] = "queued"
                    /\ handler' = [handler EXCEPT ![c] = "ran"]
                    /\ byDaemon' = [byDaemon EXCEPT ![c] = @ + 1]
                    /\ UNCHANGED <<daemon, queues, client, bounds>>

\* Dequeue; writeResp.
Respond(d, c) == /\ Running(d) /\ conn[c] = d
                 /\ handler[c] = "ran"
                 /\ handler' = [handler EXCEPT ![c] = "answered"]
                 /\ Dequeue(d, c)
                 /\ UNCHANGED <<daemon, client, byDaemon, bounds>>

\* A signal: serve closes the listener, which unlinks the path whatever it names
\* by then, and returns without waiting for the handlers.
Stop(d) == /\ stops < MaxStops /\ stops' = stops + 1
           /\ Phase(d, "serve", "closing")
           /\ sock' = None
           /\ UNCHANGED <<queues, client, handler, byDaemon, kills>>

\* The deferred os.Remove(sockPath); the process exits.
Exit(d) == /\ Phase(d, "closing", "dead")
           /\ sock' = None
           /\ UNCHANGED <<queues, client, handler, byDaemon, bounds>>

\* Killed; also a signal before serve, which nobody handles.
Kill(d) == /\ kills < MaxKills /\ kills' = kills + 1
           /\ phase[d] \notin {"none", "dead"}
           /\ phase' = [phase EXCEPT ![d] = "dead"]
           /\ UNCHANGED <<sock, queues, client, handler, byDaemon, stops>>

Command(c) == \/ SocketThere(c) \/ Spawn(c) \/ SpawnFails(c) \/ WaitOver(c)
              \/ Dial(c) \/ DialFails(c) \/ Send(c) \/ Receive(c)
              \/ ConnectionLost(c) \/ RunLocally(c)
Daemon(d) == \/ LoadQueue(d) \/ RemoveSocket(d) \/ Listen(d) \/ ReplayEntry(d)
             \/ Serve(d) \/ Exit(d)
             \/ \E c \in Commands : Enqueue(d, c) \/ RunRequest(d, c) \/ Respond(d, c)

Next == \/ \E c \in Commands : Command(c)
        \/ \E d \in Daemons : Daemon(d) \/ Stop(d) \/ Kill(d)

Spec == Init /\ [][Next]_vars

\* Processes are scheduled and requests terminate; nobody has to stop a daemon.
FairSpec == /\ Spec
            /\ \A c \in Commands : WF_vars(Command(c))
            /\ \A d \in Daemons : WF_vars(Daemon(d))
----------------------------------------------------------------------------
(* Properties.                                                             *)

\* The type invariant.
TypeOK == /\ sock \in Daemons \union {None}
          /\ phase \in [Daemons -> {"none", "load", "remove", "listen", "replay",
                                    "serve", "closing", "dead"}]
          /\ entries \in [Daemons -> SUBSET Commands] /\ file \subseteq Commands
          /\ pc \in [Commands -> {"stat", "wait", "dial", "send", "await", "local",
                                  "done", "panic"}]
          /\ conn \in [Commands -> Daemons \union {None}]
          /\ handler \in [Commands -> {"none", "queued", "ran", "answered"}]
          /\ local \subseteq Commands
          /\ byDaemon \in [Commands -> Nat]
          /\ kills \in 0..MaxKills /\ stops \in 0..MaxStops

\* A request never runs both in the command and in a daemon, however many daemons
\* there are and whenever they die: falling back is safe.
OneRoute == \A c \in local : byDaemon[c] = 0 /\ c \notin file

\* A command that ends without a panic had its request run by somebody.
DoneMeansRun == \A c \in Commands :
    pc[c] = "done" => c \in local \/ byDaemon[c] > 0

\* A command never waits for ever: a lost daemon is noticed.
CommandsEnd == \A c \in Commands : <>(pc[c] \in {"done", "panic"})

\* "One daemon per workspace" (docs/cli-reference.md).
OneDaemon == \A d, e \in Daemons : Listening(d) /\ Listening(e) => d = e

\* "It starts baked automatically if it is not already running"
\* (docs/cli-reference.md): a command goes on without starting a daemon only if
\* there is one.
AutoStarts == [][\A c \in Commands : SocketThere(c) =>
                   \E d \in Daemons : phase[d] \notin {"none", "dead"}]_vars

\* "Fall back to in-process" (cmd/bake/main.go): a command survives its daemon.
NeverPanics == \A c \in Commands : pc[c] # "panic"

\* "Removed on completion. On restart, any pending items are replayed"
\* (docs/install-daemon.md): without a restart a request runs once.
RunsOnce == \A c \in Commands : byDaemon[c] <= 1
=============================================================================
