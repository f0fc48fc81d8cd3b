------------------------------ MODULE Recorder ------------------------------
(***************************************************************************)
(* JsonlRecorder (recorder.py): a bounded queue of events, one task that   *)
(* gathers them into batches and appends a batch to the file when it is    *)
(* full, when the flush interval passes without an event, or when stop()   *)
(* puts the sentinel.                                                      *)
(***************************************************************************)
EXTENDS Naturals, Sequences

CONSTANTS
    Events,         \* the events recorded, 1..n in order
    QueueMax,       \* queue_max
    BatchSize,      \* batch_size
    AppendMayRaise  \* whether an append may fail (disk full, file removed)

\* assumed where the recorder is instantiated
RecorderAssumption ==
    /\ Events \subseteq Nat \ {0}
    /\ QueueMax \in Nat \ {0}
    /\ BatchSize \in Nat \ {0}
    /\ AppendMayRaise \in BOOLEAN

Stop == 0           \* the None that ends _run

VARIABLES
    next,       \* the next event to be recorded
    queue,      \* JsonlRecorder._queue
    batch,      \* _run's batch
    task,       \* _run: absent | waiting | flushing | closing | returned | raised
    file,       \* the lines of events.jsonl
    accepted,   \* the events put on the queue (history)
    dropped,    \* dropped_events
    caller      \* Bot.run: new | running | disabled | putting | awaiting | stopped | failed

vars == <<next, queue, batch, task, file, accepted, dropped, caller>>

TypeOK ==
    /\ next \in Nat
    /\ queue \in Seq(Events \cup {Stop}) /\ Len(queue) =< QueueMax
    /\ batch \in Seq(Events) /\ Len(batch) =< BatchSize
    /\ task \in {"absent", "waiting", "flushing", "closing", "returned", "raised"}
    /\ file \in Seq(Events)
    /\ accepted \in Seq(Events)
    /\ dropped \in Nat
    /\ caller \in {"new", "running", "disabled", "putting", "awaiting", "stopped", "failed"}

Init ==
    /\ next = 1
    /\ queue = <<>>
    /\ batch = <<>>
    /\ task = "absent"
    /\ file = <<>>
    /\ accepted = <<>>
    /\ dropped = 0
    /\ caller = "new"

\* start(): a recorder that is not enabled starts no task, and record() and stop()
\* return at once.
Start ==
    /\ caller = "new"
    /\ \/ task' = "waiting" /\ caller' = "running"
       \/ task' = "absent" /\ caller' = "disabled"
    /\ UNCHANGED <<next, queue, batch, file, accepted, dropped>>

\* record() of a recorder that is enabled: put_nowait, or count the drop
Record ==
    /\ caller = "running"
    /\ next \in Events
    /\ next' = next + 1
    /\ \/ /\ Len(queue) < QueueMax
          /\ queue' = Append(queue, next)
          /\ accepted' = Append(accepted, next)
          /\ UNCHANGED dropped
       \/ /\ Len(queue) >= QueueMax
          /\ dropped' = dropped + 1
          /\ UNCHANGED <<queue, accepted>>
    /\ UNCHANGED <<batch, task, file, caller>>

\* _run gets an event: into the batch, which is appended when it is full.
Gather ==
    /\ task = "waiting"
    /\ queue # <<>> /\ Head(queue) # Stop
    /\ queue' = Tail(queue)
    /\ batch' = Append(batch, Head(queue))
    /\ task' = IF Len(batch') >= BatchSize THEN "flushing" ELSE "waiting"
    /\ UNCHANGED <<next, file, accepted, dropped, caller>>

\* bug: a timeout that is not followed by a flush
TimeoutIgnored ==
    /\ task = "waiting"
    /\ queue = <<>>
    /\ batch # <<>>
    /\ UNCHANGED vars

\* The flush interval passed with nothing on the queue.
FlushTimeout ==
    /\ task = "waiting"
    /\ queue = <<>>
    /\ batch # <<>>
    /\ task' = "flushing"
    /\ UNCHANGED <<next, queue, batch, file, accepted, dropped, caller>>

\* _run gets the sentinel: append what is left, then return.
GatherStop ==
    /\ task = "waiting"
    /\ queue # <<>> /\ Head(queue) = Stop
    /\ queue' = Tail(queue)
    /\ task' = IF batch = <<>> THEN "returned" ELSE "closing"
    /\ UNCHANGED <<next, batch, file, accepted, dropped, caller>>

\* bug: no batch.clear() after the append
AppendedNotCleared ==
    /\ task \in {"flushing", "closing"}
    /\ file' = file \o batch
    /\ task' = IF task = "closing" THEN "returned" ELSE "waiting"
    /\ UNCHANGED <<next, queue, batch, accepted, dropped, caller>>

\* _append_jsonl wrote the batch; batch.clear().
Appended ==
    /\ task \in {"flushing", "closing"}
    /\ file' = file \o batch
    /\ batch' = <<>>
    /\ task' = IF task = "closing" THEN "returned" ELSE "waiting"
    /\ UNCHANGED <<next, queue, accepted, dropped, caller>>

\* _append_jsonl raised after writing some of its lines; the task ends.
AppendRaises ==
    /\ AppendMayRaise
    /\ task \in {"flushing", "closing"}
    /\ \E n \in 0..Len(batch) : file' = file \o SubSeq(batch, 1, n)
    /\ task' = "raised"
    /\ UNCHANGED <<next, queue, batch, accepted, dropped, caller>>

\* stop(), from the finally of Bot.run, its tasks cancelled
StopBegins ==
    /\ \/ caller = "running" /\ caller' = "putting"
       \/ caller = "disabled" /\ caller' = "stopped"
    /\ UNCHANGED <<next, queue, batch, task, file, accepted, dropped>>

\* await self._queue.put(None)
PutStop ==
    /\ caller = "putting"
    /\ Len(queue) < QueueMax
    /\ queue' = Append(queue, Stop)
    /\ caller' = "awaiting"
    /\ UNCHANGED <<next, batch, task, file, accepted, dropped>>

\* await self._task: returns, or re-raises what the append raised
TaskAwaited ==
    /\ caller = "awaiting"
    /\ \/ task = "returned" /\ caller' = "stopped"
       \/ task = "raised" /\ caller' = "failed"
    /\ UNCHANGED <<next, queue, batch, task, file, accepted, dropped>>

Worker == Gather \/ FlushTimeout \/ GatherStop \/ Appended \/ AppendRaises
Caller == Start \/ StopBegins \/ PutStop \/ TaskAwaited

Next == Worker \/ Caller \/ Record

Spec == Init /\ [][Next]_vars

-----------------------------------------------------------------------------
(***************************************************************************)
(* Properties; Lifecycle states those that need the run of the bot.        *)
(***************************************************************************)

\* stop() does not join the queue: it is the order of the queue, and the batch
\* kept across the sentinel, that leave every recorded event in the file.
StoppedMeansFlushed == caller = "stopped" => file = accepted

\* The recorder keeps the promise of the abstract log.
Log == INSTANCE WriteLog WITH Item <- Events, stored <- file
ImplementsWriteLog == Log!Spec
=============================================================================
