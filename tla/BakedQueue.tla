----------------------------- MODULE BakedQueue -----------------------------
(***************************************************************************)
(* The request path of the daemon: the persistent queue                    *)
(* (internal/baked/queue.go) and its users handleConn, replayQueue and     *)
(* runDaemon (cmd/baked/main.go).  Every connection has a goroutine that   *)
(* enqueues its request, takes runMu, runs the request, dequeues it and    *)
(* answers; on start the daemon replays what it finds in queue.json before *)
(* it accepts connections.  A crash, or a termination signal (serve        *)
(* returns without waiting for handlers), may come between any two steps.  *)
(*                                                                         *)
(* Entries are kept as a set: ids grow with every Enqueue, so the order of *)
(* ids is the order of q.entries.  A file that is empty, truncated or cut  *)
(* short loads as no entries at all, so it is the empty set.               *)
(***************************************************************************)
EXTENDS Naturals

CONSTANTS Requests,     \* one connection each
          Control,      \* those that are status, reload or malformed requests
          MaxCrashes,   \* bound on crashes
          None, Replay  \* nobody; replayQueue as a user of the queue

ASSUME RequestAssumption == /\ Control \subseteq Requests
                            /\ None \notin Requests /\ Replay \notin Requests
                            /\ None # Replay
                            /\ MaxCrashes \in Nat

Entry == [id : Nat, req : Requests]

VARIABLES phase,     \* "down", "replay" or "serve"
          mem,       \* q.entries
          nextID,    \* q.nextID
          disk,      \* the entries queue.json would load as
          qmu,       \* holder of q.mu during a flush
          flush,     \* "idle", "open" or "write": where that flush is
          pc,        \* pc[r]: where handleConn is with request r
          qid,       \* qid[r]: queueID in handleConn
          runMu,     \* holder of runMu
          pending,   \* entries replayQueue has still to deal with
          current,   \* the entry replayQueue is at, {} between entries
          crashes,
          accepted,  \* history: requests whose Enqueue returned
          runs,      \* history: runs[r] counts completed runs of r
          faults     \* history: "refused", "torn": what befell queue.json

queue == <<mem, nextID, disk, qmu, flush>>
replay == <<pending, current>>
history == <<crashes, accepted, runs, faults>>
vars == <<phase, queue, pc, qid, runMu, replay, history>>

Init == /\ phase = "down"
        /\ mem = {} /\ nextID = 0 /\ disk = {} /\ qmu = None /\ flush = "idle"
        /\ pc = [r \in Requests |-> "new"]
        /\ qid = [r \in Requests |-> 0]
        /\ runMu = None
        /\ pending = {} /\ current = {}
        /\ crashes = 0 /\ accepted = {}
        /\ runs = [r \in Requests |-> 0]
        /\ faults = {}

Move(r, from, to) == pc[r] = from /\ pc' = [pc EXCEPT ![r] = to]

----------------------------------------------------------------------------
(* The file.                                                               *)

\* The flush ends; Enqueue or Dequeue returns to its caller, which looks at no
\* error, and q.mu is released.
EndFlush ==
    /\ qmu' = None /\ flush' = "idle"
    /\ \/ /\ qmu = Replay
          /\ pending' = pending \ current
          /\ current' = {}
          /\ UNCHANGED <<pc, accepted>>
       \/ \E r \in Requests :
            /\ qmu = r
            /\ \/ Move(r, "enqueue", "queued") /\ accepted' = accepted \union {r}
               \/ Move(r, "dequeue", "answer") /\ UNCHANGED accepted
            /\ UNCHANGED replay
    /\ UNCHANGED <<phase, mem, nextID, qid, runMu, crashes, runs>>

\* os.WriteFile: open with O_TRUNC, then write.
Truncate == /\ flush = "open"
            /\ flush' = "write"
            /\ disk' = {}
            /\ UNCHANGED <<phase, mem, nextID, qmu, pc, qid, runMu, replay, history>>

Write == /\ flush = "write"
         /\ disk' = mem
         /\ EndFlush /\ UNCHANGED faults

\* Opening or writing the file fails.
FlushError == /\ flush \in {"open", "write"}
              /\ faults' = faults \union {"refused"}
              /\ EndFlush /\ UNCHANGED disk

----------------------------------------------------------------------------
(* Start and replay.                                                       *)

\* Mutant of NewQueue: what it read is replayed and not kept in the queue.
NewQueueForgets == /\ phase = "down"
                   /\ phase' = "replay"
                   /\ pending' = disk
                   /\ UNCHANGED <<queue, pc, qid, runMu, current, history>>

\* NewQueue: load the entries, nextID is one more than the largest id.
NewQueue == /\ phase = "down"
            /\ phase' = "replay"
            /\ mem' = disk
            /\ \/ disk = {} /\ nextID' = 0
               \/ \E e \in disk : /\ \A f \in disk : f.id <= e.id
                                  /\ nextID' = e.id + 1
            /\ pending' = disk                 \* ws.queue.Pending()
            /\ UNCHANGED <<disk, qmu, flush, pc, qid, runMu, current, history>>

\* runRequest on the next entry, in the order of the file.
ReplayStart == /\ phase = "replay" /\ current = {}
               /\ \E e \in pending : /\ \A f \in pending : e.id <= f.id
                                     /\ current' = {e}
               /\ UNCHANGED <<phase, queue, pc, qid, runMu, pending, history>>

\* The run is over, whatever its exit code: Dequeue(entry.ID).
ReplayDequeue == \E e \in current :
    /\ qmu = None
    /\ runs' = [runs EXCEPT ![e.req] = @ + 1]
    /\ mem' = {f \in mem : f.id # e.id}
    /\ qmu' = Replay /\ flush' = "open"
    /\ UNCHANGED <<phase, nextID, disk, pc, qid, runMu, replay, crashes, accepted, faults>>

\* Mutant of Serve: connections are accepted instead of a replay.
ServeAtOnce == /\ phase = "replay" /\ current = {}
               /\ phase' = "serve" /\ pending' = {}
               /\ UNCHANGED <<queue, pc, qid, runMu, current, history>>

\* serve starts accepting.
Serve == /\ phase = "replay" /\ pending = {} /\ current = {}
         /\ phase' = "serve"
         /\ UNCHANGED <<queue, pc, qid, runMu, replay, history>>

----------------------------------------------------------------------------
(* handleConn.                                                             *)

Accept(r) == /\ phase = "serve" /\ Move(r, "new", "read")
             /\ UNCHANGED <<phase, queue, qid, runMu, replay, history>>

\* Malformed, status and reload requests are answered at once.
AnswerControl(r) == /\ r \in Control /\ Move(r, "read", "answer")
                    /\ UNCHANGED <<phase, queue, qid, runMu, replay, history>>

Enqueue(r) == /\ r \notin Control /\ Move(r, "read", "enqueue")
              /\ qmu = None
              /\ mem' = mem \union {[id |-> nextID, req |-> r]}
              /\ qid' = [qid EXCEPT ![r] = nextID]
              /\ nextID' = nextID + 1
              /\ qmu' = r /\ flush' = "open"
              /\ UNCHANGED <<phase, disk, runMu, replay, history>>

\* Mutant of LockRun: runMu is not waited for.
LockRunAnyway(r) == /\ Move(r, "queued", "running")
                    /\ runMu' = r
                    /\ UNCHANGED <<phase, queue, qid, replay, history>>

LockRun(r) == /\ Move(r, "queued", "running")
              /\ runMu = None
              /\ runMu' = r
              /\ UNCHANGED <<phase, queue, qid, replay, history>>

\* Mutants of UnlockRun: a run that failed is queued again; the answer is sent
\* without Dequeue; runMu is kept.
UnlockRunRetry(r) == /\ \/ Move(r, "running", "ran")
                        \/ Move(r, "running", "queued")
                     /\ runMu' = None
                     /\ runs' = [runs EXCEPT ![r] = @ + 1]
                     /\ UNCHANGED <<phase, queue, qid, replay, crashes, accepted, faults>>
UnlockRunAnswers(r) == /\ Move(r, "running", "answer")
                       /\ runMu' = None
                       /\ runs' = [runs EXCEPT ![r] = @ + 1]
                       /\ UNCHANGED <<phase, queue, qid, replay, crashes, accepted, faults>>
UnlockRunForgets(r) == /\ Move(r, "running", "ran")
                       /\ runs' = [runs EXCEPT ![r] = @ + 1]
                       /\ UNCHANGED <<phase, queue, qid, runMu, replay, crashes, accepted, faults>>

\* runRequest returns, with whatever exit code; runMu.Unlock().
UnlockRun(r) == /\ Move(r, "running", "ran")
                /\ runMu' = None
                /\ runs' = [runs EXCEPT ![r] = @ + 1]
                /\ UNCHANGED <<phase, queue, qid, replay, crashes, accepted, faults>>

Dequeue(r) == /\ Move(r, "ran", "dequeue")
              /\ qmu = None
              /\ mem' = {f \in mem : f.id # qid[r]}
              /\ qmu' = r /\ flush' = "open"
              /\ UNCHANGED <<phase, nextID, disk, qid, runMu, replay, history>>

\* writeResp; conn.Close().
Answer(r) == /\ Move(r, "answer", "done")
             /\ UNCHANGED <<phase, queue, qid, runMu, replay, history>>

----------------------------------------------------------------------------
\* The process dies, or exits on a signal: what it had in memory is gone, and
\* so are its connections.
Crash == /\ phase # "down" /\ crashes < MaxCrashes
         /\ phase' = "down" /\ crashes' = crashes + 1
         /\ mem' = {} /\ nextID' = 0 /\ qmu' = None /\ flush' = "idle"
         /\ pc' = [r \in Requests |-> IF pc[r] \in {"new", "done"} THEN pc[r] ELSE "lost"]
         /\ runMu' = None /\ pending' = {} /\ current' = {}
         /\ faults' = faults \union {f \in {"torn"} : flush = "write"}
         /\ UNCHANGED <<disk, qid, accepted, runs>>

Handler(r) == \/ Accept(r) \/ AnswerControl(r) \/ Enqueue(r) \/ LockRun(r)
              \/ UnlockRun(r) \/ Dequeue(r) \/ Answer(r)
File == Truncate \/ Write \/ FlushError
Daemon == NewQueue \/ ReplayStart \/ ReplayDequeue \/ Serve

Next == File \/ Daemon \/ Crash \/ \E r \in Requests : Handler(r)

Spec == Init /\ [][Next]_vars

\* Goroutines are scheduled, runs terminate, and a dead daemon is started again:
\* by the service manager (Restart=on-failure, KeepAlive) or by the next
\* command.  Go's mutexes do not starve a waiter.
Fairness == /\ WF_vars(File) /\ WF_vars(Daemon)
            /\ \A r \in Requests : WF_vars(Handler(r))

FairSpec == Spec /\ Fairness
----------------------------------------------------------------------------
(* Properties.                                                             *)

Stored(r) == \E e \in disk : e.req = r

\* The type invariant.
TypeOK == /\ phase \in {"down", "replay", "serve"}
          /\ mem \subseteq Entry /\ disk \subseteq Entry /\ pending \subseteq Entry
          /\ current \subseteq Entry
          /\ nextID \in Nat
          /\ qmu \in Requests \union {None, Replay}
          /\ flush \in {"idle", "open", "write"}
          /\ pc \in [Requests -> {"new", "read", "enqueue", "queued", "running",
                                  "ran", "dequeue", "answer", "done", "lost"}]
          /\ qid \in [Requests -> Nat]
          /\ runMu \in Requests \union {None}
          /\ crashes \in Nat
          /\ accepted \subseteq Requests
          /\ runs \in [Requests -> Nat]
          /\ faults \subseteq {"refused", "torn"}

\* Accepted requests that have not run to their end yet are in queue.json.
Kept == \A r \in accepted : runs[r] = 0 => Stored(r)

\* "Incoming requests are written before execution and removed on completion"
\* (docs/install-daemon.md): nothing accepted leaves the file before it ran,
\* across crashes and while others are dequeued, as long as every write of the
\* file was made and none was cut short.
Durable == faults = {} /\ flush # "write" => Kept

\* The same without the last condition: a crash may hit anywhere.
SurvivesCrashes == "refused" \notin faults /\ flush # "write" => Kept

\* Requests never run at the same time, replayed ones included: no handler runs
\* while replayQueue does, although replayQueue does not take runMu.
OneRunAtATime == \A r \in Requests : pc[r] = "running" =>
                    /\ current = {}
                    /\ \A s \in Requests : pc[s] = "running" => s = r

\* Ids are unique in the queue, after a restart too, and until it dequeues, a
\* handler's id names its own entry: Dequeue removes the request that ran.
OwnEntry == /\ \A e, f \in mem : e.id = f.id => e = f
            /\ \A r \in Requests : pc[r] \in {"queued", "running", "ran"} =>
                 [id |-> qid[r], req |-> r] \in mem

\* A request whose answer was sent is not in queue.json: no restart replays what
\* the client was told is finished, unless a write of the file was refused.
AnsweredNotReplayed ==
    "refused" \notin faults => \A r \in Requests : pc[r] = "done" => ~Stored(r)

\* A request runs again only because the daemon died: at most once per life.
AtMostOncePerLife == \A r \in Requests : runs[r] <= crashes + 1

\* "On restart, any pending items are replayed": an accepted request is run to
\* its end, by its handler or by a replay, unless the file was damaged.
EventuallyRun == \A r \in Requests : (r \in accepted) ~> (runs[r] > 0 \/ faults # {})

\* A connection that was accepted is answered unless the daemon dies.
EventuallyAnswered == \A r \in Requests : (pc[r] = "read") ~> (pc[r] \in {"done", "lost"})

\* "Persistent FIFO queue": a request starts to run only if no request that was
\* queued before it is still waiting.
Fifo == [][\A r \in Requests : (pc[r] = "queued" /\ pc'[r] = "running") =>
             ~\E s \in Requests : pc[s] = "queued" /\ qid[s] < qid[r]]_vars
=============================================================================
