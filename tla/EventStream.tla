---------------------------- MODULE EventStream ----------------------------
(***************************************************************************)
(* The machine-readable output of runner.Run (--json): emitEvent and       *)
(* lockedWriter in internal/runner/runner.go, and the step output that     *)
(* shares the standard output with them.  Each target of a level emits its *)
(* events from a goroutine of its own; an event is two writes, the object  *)
(* and the newline, and every write goes through the lock by itself.  The  *)
(* underlying writer takes a write in two pieces, so that writes that are  *)
(* not serialised can be seen to mix.                                      *)
(***************************************************************************)
EXTENDS Naturals, Sequences, SequencesExt

CONSTANTS Emitters,    \* targets that run at the same time
          Silent,       \* emitters whose steps print nothing on standard output
          MaxEvents    \* events per emitter

NoOne == "none"

ASSUME EventAssumption ==
    MaxEvents \in Nat /\ Silent \subseteq Emitters /\ NoOne \notin Emitters

VARIABLES out,     \* what has reached standard output, a sequence of pieces
          count,   \* count[e]: events e has begun
         at,      \* at[e]: where e is in emitEvent
          lock     \* lw.mu

stream == <<out, count, at, lock>>

Piece(e, what) == [by |-> e, nr |-> count[e], what |-> what]

InitStream == /\ out = <<>>
              /\ count = [e \in Emitters |-> 0]
              /\ at = [e \in Emitters |-> "idle"]
              /\ lock = NoOne

\* emitEvent(ev, ...): json.Marshal, then w.Write(b).
Emit(e) == /\ at[e] = "idle" /\ count[e] < MaxEvents
           /\ count' = [count EXCEPT ![e] = @ + 1]
           /\ at' = [at EXCEPT ![e] = "body"]
           /\ UNCHANGED <<out, lock>>

\* Mutant of BeginWrite: the writer is not locked.
BeginWriteUnlocked(e) == /\ at[e] \in {"body", "newline"}
                         /\ lock' = e
                         /\ out' = Append(out, Piece(e, at[e]))
                         /\ at' = [at EXCEPT ![e] = IF @ = "body" THEN "inBody" ELSE "inNewline"]
                         /\ UNCHANGED count

\* lw.mu.Lock(); the first piece of the object, or the newline.
BeginWrite(e) == /\ at[e] \in {"body", "newline"}
                 /\ lock = NoOne
                 /\ lock' = e
                 /\ out' = Append(out, Piece(e, at[e]))
                 /\ at' = [at EXCEPT ![e] = IF @ = "body" THEN "inBody" ELSE "inNewline"]
                 /\ UNCHANGED count

\* Mutant of EndWrite: the lock is kept.
EndWriteLocked(e) == /\ at[e] \in {"inBody", "inNewline"}
                     /\ out' = IF at[e] = "inBody" THEN Append(out, Piece(e, "rest")) ELSE out
                     /\ at' = [at EXCEPT ![e] = IF @ = "inBody" THEN "newline" ELSE "idle"]
                     /\ UNCHANGED <<count, lock>>

\* The rest of the write; the deferred lw.mu.Unlock().
EndWrite(e) == /\ at[e] \in {"inBody", "inNewline"}
               /\ lock' = NoOne
               /\ out' = IF at[e] = "inBody" THEN Append(out, Piece(e, "rest")) ELSE out
               /\ at' = [at EXCEPT ![e] = IF @ = "inBody" THEN "newline" ELSE "idle"]
               /\ UNCHANGED count

\* A step prints a line.  Only the requested target has its StepStdout set to
\* standard error; the options of a dependency leave it nil, which is os.Stdout.
StepOutput(e) == /\ e \notin Silent /\ at[e] = "idle" /\ count[e] = 1
                 /\ \A k \in 1..Len(out) : out[k] # Piece(e, "step")
                 /\ out' = Append(out, Piece(e, "step"))
                 /\ UNCHANGED <<count, at, lock>>

NextStream == \E e \in Emitters : Emit(e) \/ BeginWrite(e) \/ EndWrite(e) \/ StepOutput(e)

SpecStream == InitStream /\ [][NextStream]_stream
FairStream == SpecStream /\ \A e \in Emitters : WF_stream(Emit(e) \/ BeginWrite(e) \/ EndWrite(e))

----------------------------------------------------------------------------
(* Properties.                                                             *)

\* "Writes are now serialized via a locked writer" (docs/changelog.md): no event
\* is torn by another one, however the goroutines interleave.
BodiesWhole == \A k \in 1..Len(out) : out[k].what = "body" =>
                 \/ k = Len(out) /\ lock = out[k].by
                 \/ k < Len(out) /\ out[k + 1] = [out[k] EXCEPT !.what = "rest"]
                 \/ k < Len(out) /\ out[k + 1].what = "step"

\* The pieces of e's events in the order it emitted them.
Emitted(e) == FlattenSeq([n \in 1..MaxEvents |->
                 [k \in 1..3 |-> [by |-> e, nr |-> n, what |-> <<"body", "rest", "newline">>[k]]]])

\* Every event of every target reaches the stream whole, once, with its newline
\* and in the order it was emitted, whoever else writes in between.
AllDelivered == <>[](\A e \in Emitters :
                     SelectSeq(out, LAMBDA p : p.by = e /\ p.what # "step") = Emitted(e))

\* "RunEvent is one NDJSON line": an object is followed by the newline that ends it.
LinePerEvent == \A k \in 1..(Len(out) - 1) :
                  out[k].what = "rest" => out[k + 1].what = "newline"

\* "Emit NDJSON event stream to stdout [...]; step output goes to stderr"
\* (docs/cli-reference.md): standard output holds events only.
EventsOnly == \A k \in 1..Len(out) : out[k].what # "step"
=============================================================================
