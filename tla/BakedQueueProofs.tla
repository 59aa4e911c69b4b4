-------------------------- MODULE BakedQueueProofs --------------------------
(***************************************************************************)
(* Proofs about BakedQueue, for every set of requests and every number of  *)
(* crashes.                                                                *)
(***************************************************************************)
EXTENDS BakedQueue, TLAPS

InQueue(r, S) == [id |-> qid[r], req |-> r] \in S
UniqueIds(S) == \A e, f \in S : e.id = f.id => e = f

Settled == {"new", "done", "lost"}

\* Where the daemon is determines what may be going on.
Phases ==
    /\ phase = "down" => mem = {} /\ qmu = None
    /\ phase # "serve" => \A r \in Requests : pc[r] \in Settled
    /\ phase # "replay" => pending = {} /\ current = {}
    /\ current \subseteq pending
    /\ phase = "replay" => mem = IF qmu = Replay THEN pending \ current ELSE pending

\* q.mu and runMu are held by those whose program counter says so.
Locking ==
    /\ qmu = None <=> flush = "idle"
    /\ qmu = Replay => current # {}
    /\ \A r \in Requests : /\ qmu = r <=> pc[r] \in {"enqueue", "dequeue"}
                           /\ runMu = r <=> pc[r] = "running"

\* Ids are unique and below nextID; a handler's id is that of its own entry.
Identity ==
    /\ UniqueIds(mem) /\ UniqueIds(disk) /\ UniqueIds(pending)
    /\ \A e \in mem : e.id < nextID
    /\ \A e, f \in current : e = f
    /\ \A r \in Requests :
         pc[r] \in {"enqueue", "queued", "running", "ran"} => InQueue(r, mem)

QueueInv == TypeOK /\ Phases /\ Locking /\ Identity

LEMMA QueueInit == Init => QueueInv
BY RequestAssumption DEF Init, QueueInv, TypeOK, Phases, Locking, Identity, UniqueIds, Settled

LEMMA QueueNext == QueueInv /\ [Next]_vars => QueueInv'
<1> USE RequestAssumption
    DEF QueueInv, TypeOK, Entry, Phases, Locking, Identity, UniqueIds, InQueue, Settled,
        Move, queue, replay, history
<1> SUFFICES ASSUME QueueInv, [Next]_vars PROVE QueueInv'
  OBVIOUS
<1>1. CASE Truncate BY <1>1 DEF Truncate
<1>2. CASE Write BY <1>2 DEF Write, EndFlush
<1>3. CASE FlushError
  <2>1. (faults \subseteq {"refused", "torn"})' BY <1>3 DEF FlushError
  <2>2. EndFlush /\ disk' = disk /\ flush \in {"open", "write"} BY <1>3 DEF FlushError
  <2>3. Phases' /\ Locking' /\ Identity' BY <2>2 DEF EndFlush
  <2>4. TypeOK' BY <2>1, <2>2 DEF EndFlush
  <2> QED BY <2>3, <2>4
<1>4. CASE NewQueue BY <1>4 DEF NewQueue
<1>5. CASE ReplayStart BY <1>5 DEF ReplayStart
<1>6. CASE ReplayDequeue BY <1>6 DEF ReplayDequeue
<1>7. CASE Serve BY <1>7 DEF Serve
<1>8. CASE Crash
  <2>1. (faults \subseteq {"refused", "torn"})' BY <1>8 DEF Crash
  <2>2. Phases' /\ Locking' /\ Identity' BY <1>8 DEF Crash
  <2>3. TypeOK' BY <1>8, <2>1 DEF Crash
  <2> QED BY <2>2, <2>3
<1>9. ASSUME NEW r \in Requests, Handler(r) PROVE QueueInv'
  <2>1. CASE Accept(r) BY <2>1 DEF Accept
  <2>2. CASE AnswerControl(r) BY <2>2 DEF AnswerControl
  <2>3. CASE Enqueue(r) BY <2>3 DEF Enqueue
  <2>4. CASE LockRun(r) BY <2>4 DEF LockRun
  <2>5. CASE UnlockRun(r) BY <2>5 DEF UnlockRun
  <2>6. CASE Dequeue(r)
    <3> USE <2>6 DEF Dequeue
    <3>1. TypeOK' OBVIOUS
    <3>2. Phases' OBVIOUS
    <3>3. Locking' OBVIOUS
    <3>4. ASSUME NEW s \in Requests, pc'[s] \in {"enqueue", "queued", "running", "ran"}
          PROVE InQueue(s, mem)'
      <4>1. s # r /\ pc[s] = pc'[s] BY <3>4
      <4>2. pc[r] = "ran" OBVIOUS
      <4>3. [id |-> qid[s], req |-> s] \in mem BY <3>4, <4>1
      <4>4. [id |-> qid[r], req |-> r] \in mem BY <4>2
      <4>5. qid[s] # qid[r] BY <4>1, <4>3, <4>4
      <4> QED BY <4>3, <4>5
    <3>5. Identity' BY <3>4
    <3> QED BY <3>1, <3>2, <3>3, <3>5
  <2>7. CASE Answer(r) BY <2>7 DEF Answer
  <2> QED BY <1>9, <2>1, <2>2, <2>3, <2>4, <2>5, <2>6, <2>7 DEF Handler
<1>10. CASE UNCHANGED vars BY <1>10 DEF vars
<1> QED
  BY <1>1, <1>2, <1>3, <1>4, <1>5, <1>6, <1>7, <1>8, <1>9, <1>10 DEF Next, File, Daemon

THEOREM QueueInvariant == Spec => []QueueInv
BY QueueInit, QueueNext, PTL DEF Spec

\* The type invariant holds, whatever crashes and fails.
THEOREM TypeCorrect == Spec => []TypeOK
<1>1. QueueInv => TypeOK BY DEF QueueInv
<1> QED BY <1>1, QueueInvariant, PTL

\* Two requests never run at the same time, replayed or not.
THEOREM RunsExclude == Spec => []OneRunAtATime
<1>1. QueueInv => OneRunAtATime
  BY RequestAssumption DEF QueueInv, Phases, Locking, TypeOK, Settled, OneRunAtATime
<1> QED BY <1>1, QueueInvariant, PTL

\* Dequeue removes the entry of the request that ran and no other.
THEOREM EntriesAreOwned == Spec => []OwnEntry
<1>1. QueueInv => OwnEntry
  BY DEF QueueInv, Identity, UniqueIds, InQueue, OwnEntry
<1> QED BY <1>1, QueueInvariant, PTL

----------------------------------------------------------------------------
(* The queue on disk, while no write of the file was cut short or refused. *)

Waiting(r) == r \in accepted /\ runs[r] = 0

\* How the file follows the memory, and which requests are in them.
DiskInv == faults = {} =>
    /\ flush = "idle" /\ phase # "down" => disk = mem
    /\ flush = "open" => \A e \in mem : e \in disk \/ pc[e.req] = "enqueue"
    /\ \A r \in Requests : pc[r] \in {"new", "read", "enqueue"} => r \notin accepted
    /\ \A r \in Requests : pc[r] \in {"ran", "dequeue"} => runs[r] # 0
    /\ \A r \in Requests : Waiting(r) =>
         IF phase = "down" THEN Stored(r) ELSE \E e \in mem : e.req = r

LEMMA DiskInit == Init => DiskInv
BY DEF Init, DiskInv, Waiting

LEMMA DiskNext == QueueInv /\ DiskInv /\ [Next]_vars => DiskInv'
<1> USE RequestAssumption
    DEF QueueInv, TypeOK, Entry, Phases, Locking, Identity, UniqueIds, InQueue, Settled,
        DiskInv, Waiting, Stored, Move, queue, replay, history
<1> SUFFICES ASSUME QueueInv, DiskInv, [Next]_vars, faults' = {} PROVE DiskInv'
  BY DEF DiskInv
<1> faults = {}
  BY DEF Next, File, Daemon, Handler, vars, Truncate, Write, FlushError, NewQueue,
         ReplayStart, ReplayDequeue, Serve, Crash, Accept, AnswerControl, Enqueue,
         LockRun, UnlockRun, Dequeue, Answer, history
<1>1. CASE Truncate BY <1>1 DEF Truncate
<1>2. CASE Write
  <2> USE <1>2 DEF Write, EndFlush
  <2>1. phase # "down" /\ UNCHANGED <<mem, phase, runs>> /\ disk' = mem /\ flush' = "idle"
    OBVIOUS
  <2>2. ASSUME NEW s \in Requests, Waiting(s)' PROVE \E e \in mem : e.req = s
    <3>1. CASE Waiting(s) BY <3>1, <2>1
    <3>2. CASE ~Waiting(s)
      <4>1. pc[s] = "enqueue" BY <2>2, <3>2
      <4>2. [id |-> qid[s], req |-> s] \in mem BY <4>1
      <4> QED BY <4>2
    <3> QED BY <3>1, <3>2
  <2>3. \A s \in Requests : pc'[s] \in {"new", "read", "enqueue"} => s \notin accepted'
    OBVIOUS
  <2>4. \A s \in Requests : pc'[s] \in {"ran", "dequeue"} => runs'[s] # 0
    OBVIOUS
  <2> QED BY <2>1, <2>2, <2>3, <2>4
<1>3. CASE FlushError BY <1>3 DEF FlushError
<1>4. CASE NewQueue BY <1>4 DEF NewQueue
<1>5. CASE ReplayStart BY <1>5 DEF ReplayStart
<1>6. CASE ReplayDequeue BY <1>6 DEF ReplayDequeue
<1>7. CASE Serve BY <1>7 DEF Serve
<1>8. CASE Crash BY <1>8 DEF Crash
<1>9. ASSUME NEW r \in Requests, Handler(r) PROVE DiskInv'
  <2>1. CASE Accept(r) BY <2>1 DEF Accept
  <2>2. CASE AnswerControl(r) BY <2>2 DEF AnswerControl
  <2>3. CASE Enqueue(r) BY <2>3 DEF Enqueue
  <2>4. CASE LockRun(r) BY <2>4 DEF LockRun
  <2>5. CASE UnlockRun(r) BY <2>5 DEF UnlockRun
  <2>6. CASE Dequeue(r)
    <3> USE <2>6 DEF Dequeue
    <3>1. /\ pc[r] = "ran" /\ pc' = [pc EXCEPT ![r] = "dequeue"]
          /\ mem' = {f \in mem : f.id # qid[r]}
          /\ flush' = "open"
          /\ UNCHANGED <<phase, disk, accepted, runs>>
      OBVIOUS
    <3>2. phase = "serve" /\ disk = mem BY <3>1
    <3>3. [id |-> qid[r], req |-> r] \in mem BY <3>1
    <3>4. ASSUME NEW s \in Requests, Waiting(s) PROVE \E e \in mem' : e.req = s
      <4>1. PICK e \in mem : e.req = s BY <3>2, <3>4
      <4>2. s # r BY <3>1, <3>4
      <4>3. e.id # qid[r] BY <3>3, <4>1, <4>2
      <4> QED BY <3>1, <4>1, <4>3
    <3> QED BY <3>1, <3>2, <3>4
  <2>7. CASE Answer(r) BY <2>7 DEF Answer
  <2> QED BY <1>9, <2>1, <2>2, <2>3, <2>4, <2>5, <2>6, <2>7 DEF Handler
<1>10. CASE UNCHANGED vars BY <1>10 DEF vars
<1> QED
  BY <1>1, <1>2, <1>3, <1>4, <1>5, <1>6, <1>7, <1>8, <1>9, <1>10 DEF Next, File, Daemon

\* An accepted request that has not run is in the file, whatever crashes come,
\* while every write of the file is made in full.
THEOREM QueueIsDurable == Spec => []Durable
<1>1. QueueInv /\ DiskInv => Durable
  BY DEF QueueInv, TypeOK, Entry, Phases, Locking, DiskInv, Durable, Kept, Waiting, Stored
<1> QED BY <1>1, DiskInit, DiskNext, QueueInvariant, PTL DEF Spec

\* No entry of a request that was not enqueued, or whose answer is due.
AnswerInv == "refused" \notin faults =>
    /\ \A e, f \in mem : e.req = f.req => e = f
    /\ \A e, f \in disk : e.req = f.req => e = f
    /\ \A e \in mem \union disk : pc[e.req] \notin {"new", "read", "answer", "done"}
    /\ \A e \in mem : pc[e.req] # "dequeue"

LEMMA AnswerNext == QueueInv /\ AnswerInv /\ [Next]_vars => AnswerInv'
<1> USE RequestAssumption
    DEF QueueInv, TypeOK, Entry, Phases, Locking, Identity, UniqueIds, InQueue, Settled,
        AnswerInv, Move, queue, replay, history
<1> SUFFICES ASSUME QueueInv, AnswerInv, [Next]_vars, "refused" \notin faults'
             PROVE  AnswerInv'
  BY DEF AnswerInv
<1> "refused" \notin faults
  BY DEF Next, File, Daemon, Handler, vars, Truncate, Write, FlushError, NewQueue,
         ReplayStart, ReplayDequeue, Serve, Crash, Accept, AnswerControl, Enqueue,
         LockRun, UnlockRun, Dequeue, Answer, history
<1>1. CASE Truncate BY <1>1 DEF Truncate
<1>2. CASE Write BY <1>2 DEF Write, EndFlush
<1>3. CASE FlushError BY <1>3 DEF FlushError
<1>4. CASE NewQueue BY <1>4 DEF NewQueue
<1>5. CASE ReplayStart BY <1>5 DEF ReplayStart
<1>6. CASE ReplayDequeue BY <1>6 DEF ReplayDequeue
<1>7. CASE Serve BY <1>7 DEF Serve
<1>8. CASE Crash BY <1>8 DEF Crash
<1>9. ASSUME NEW r \in Requests, Handler(r) PROVE AnswerInv'
  <2>1. CASE Accept(r) BY <2>1 DEF Accept
  <2>2. CASE AnswerControl(r) BY <2>2 DEF AnswerControl
  <2>3. CASE Enqueue(r) BY <2>3 DEF Enqueue
  <2>4. CASE LockRun(r) BY <2>4 DEF LockRun
  <2>5. CASE UnlockRun(r) BY <2>5 DEF UnlockRun
  <2>6. CASE Dequeue(r)
    <3> USE <2>6 DEF Dequeue
    <3>1. /\ pc[r] = "ran" /\ pc' = [pc EXCEPT ![r] = "dequeue"]
          /\ mem' = {f \in mem : f.id # qid[r]}
          /\ UNCHANGED disk
      OBVIOUS
    <3>2. [id |-> qid[r], req |-> r] \in mem BY <3>1
    <3>3. \A e \in mem' : e \in mem /\ e.req # r BY <3>1, <3>2
    <3>4. \A e \in mem : e.req \in Requests OBVIOUS
    <3>5. \A e \in disk : e.req \in Requests OBVIOUS
    <3> QED BY <3>1, <3>3, <3>4, <3>5
  <2>7. CASE Answer(r) BY <2>7 DEF Answer
  <2> QED BY <1>9, <2>1, <2>2, <2>3, <2>4, <2>5, <2>6, <2>7 DEF Handler
<1>10. CASE UNCHANGED vars BY <1>10 DEF vars
<1> QED
  BY <1>1, <1>2, <1>3, <1>4, <1>5, <1>6, <1>7, <1>8, <1>9, <1>10 DEF Next, File, Daemon

\* No restart replays a request whose client has its answer, even if a crash
\* cuts a write of the file short.
THEOREM AnsweredIsGone == Spec => []AnsweredNotReplayed
<1>1. Init => AnswerInv
  BY DEF Init, AnswerInv
<1>2. AnswerInv => AnsweredNotReplayed
  BY DEF AnswerInv, AnsweredNotReplayed, Stored
<1> QED BY <1>1, <1>2, AnswerNext, QueueInvariant, PTL DEF Spec

\* A request has one entry, and has not run yet in the life it is waiting in.
LifeInv ==
    /\ \A e, f \in mem : e.req = f.req => e = f
    /\ \A e, f \in disk : e.req = f.req => e = f
    /\ \A e \in mem \union disk : pc[e.req] \notin {"new", "read"}
    /\ \A r \in Requests :
         /\ pc[r] \in {"new", "read", "enqueue", "queued", "running"} => runs[r] = 0
         /\ phase = "down" => runs[r] <= crashes
         /\ runs[r] <= crashes + 1
    /\ phase = "replay" => \A e \in mem : runs[e.req] <= crashes

LEMMA LifeNext == QueueInv /\ LifeInv /\ [Next]_vars => LifeInv'
<1> USE RequestAssumption
    DEF QueueInv, TypeOK, Entry, Phases, Locking, Identity, UniqueIds, InQueue, Settled,
        LifeInv, Move, queue, replay, history
<1> SUFFICES ASSUME QueueInv, LifeInv, [Next]_vars PROVE LifeInv'
  OBVIOUS
<1>1. CASE Truncate BY <1>1 DEF Truncate
<1>2. CASE Write BY <1>2 DEF Write, EndFlush
<1>3. CASE FlushError BY <1>3 DEF FlushError, EndFlush
<1>4. CASE NewQueue BY <1>4 DEF NewQueue
<1>5. CASE ReplayStart BY <1>5 DEF ReplayStart
<1>6. CASE ReplayDequeue
  <2>1. PICK e \in current : /\ qmu = None
                             /\ runs' = [runs EXCEPT ![e.req] = @ + 1]
                             /\ mem' = {f \in mem : f.id # e.id}
    BY <1>6 DEF ReplayDequeue
  <2>2. UNCHANGED <<phase, disk, pc, crashes>> BY <1>6 DEF ReplayDequeue
  <2>3. phase = "replay" /\ e \in mem BY <2>1
  <2>4. e.req \in Requests /\ runs[e.req] <= crashes BY <2>3
  <2>5. runs'[e.req] = runs[e.req] + 1 /\ \A r \in Requests \ {e.req} : runs'[r] = runs[r]
    BY <2>1, <2>4
  <2>6. \A f \in mem' : f \in mem /\ f.req # e.req BY <2>1, <2>3
  <2>7. pc[e.req] \notin {"new", "read", "enqueue", "queued", "running"}
    BY <2>3, <2>4
  <2>8. \A f \in mem' : f.req \in Requests BY <2>6
  <2> QED BY <2>2, <2>3, <2>4, <2>5, <2>6, <2>7, <2>8
<1>7. CASE Serve BY <1>7 DEF Serve
<1>8. CASE Crash BY <1>8 DEF Crash
<1>9. ASSUME NEW r \in Requests, Handler(r) PROVE LifeInv'
  <2>1. CASE Accept(r) BY <2>1 DEF Accept
  <2>2. CASE AnswerControl(r) BY <2>2 DEF AnswerControl
  <2>3. CASE Enqueue(r) BY <2>3 DEF Enqueue
  <2>4. CASE LockRun(r) BY <2>4 DEF LockRun
  <2>5. CASE UnlockRun(r) BY <2>5 DEF UnlockRun
  <2>6. CASE Dequeue(r) BY <2>6 DEF Dequeue
  <2>7. CASE Answer(r) BY <2>7 DEF Answer
  <2> QED BY <1>9, <2>1, <2>2, <2>3, <2>4, <2>5, <2>6, <2>7 DEF Handler
<1>10. CASE UNCHANGED vars BY <1>10 DEF vars
<1> QED
  BY <1>1, <1>2, <1>3, <1>4, <1>5, <1>6, <1>7, <1>8, <1>9, <1>10 DEF Next, File, Daemon

\* A request runs again only because the daemon died: at most once per life, for any
\* number of crashes, torn and refused writes included.
THEOREM RunsOncePerLife == Spec => []AtMostOncePerLife
<1>1. Init => LifeInv BY RequestAssumption DEF Init, LifeInv
<1>2. LifeInv => AtMostOncePerLife BY DEF LifeInv, AtMostOncePerLife
<1> QED BY <1>1, <1>2, LifeNext, QueueInvariant, PTL DEF Spec
=============================================================================
