---------------------------- MODULE StorageWriter ----------------------------
(***************************************************************************)
(* AsyncStorageWriter (storage_writer.py): a bounded asyncio queue in      *)
(* front of SQLite, one task that takes an item at a time and runs it in a *)
(* thread, and a stop() that joins the queue, puts a sentinel and awaits   *)
(* the task.  A write that raises leaves _run by its finally: the item is  *)
(* marked done, the task ends, and nobody takes the rest of the queue.     *)
(***************************************************************************)
EXTENDS Naturals, Sequences

CONSTANTS
    Writes,       \* the writes submitted, 1..n in the order of submission
    QueueMax,     \* storage_queue_max
    MayRaise      \* the writes that may raise (a locked or full database)

ASSUME WriterAssumption ==
    /\ QueueMax \in Nat \ {0}
    /\ Writes \subseteq Nat \ {0}
    /\ MayRaise \subseteq Writes

Stop == 0           \* the None that ends _run

VARIABLES
    next,       \* the next write the bot submits
    queue,      \* AsyncStorageWriter._queue
    unfinished, \* the queue's count of items without a task_done()
    task,       \* _run: absent | waiting | writing | returned | raised
    current,    \* the item _run holds
    table,      \* what SQLite has committed
    accepted,   \* the writes put on the queue (history)
    dropped,    \* dropped_writes
    caller      \* Bot.run: new | running | joining | putting | awaiting | stopped | failed

vars == <<next, queue, unfinished, task, current, table, accepted, dropped, caller>>

TypeOK ==
    /\ next \in Nat
    /\ queue \in Seq(Writes \cup {Stop}) /\ Len(queue) =< QueueMax
    /\ unfinished \in 0..(QueueMax + 1)
    /\ task \in {"absent", "waiting", "writing", "returned", "raised"}
    /\ current \in Writes \cup {Stop}
    /\ table \in Seq(Writes)
    /\ accepted \in Seq(Writes)
    /\ dropped \in Nat
    /\ caller \in {"new", "running", "joining", "putting", "awaiting", "stopped", "failed"}

Init ==
    /\ next = 1
    /\ queue = <<>>
    /\ unfinished = 0
    /\ task = "absent"
    /\ current = Stop
    /\ table = <<>>
    /\ accepted = <<>>
    /\ dropped = 0
    /\ caller = "new"

\* start()
Start ==
    /\ caller = "new"
    /\ task' = "waiting"
    /\ caller' = "running"
    /\ UNCHANGED <<next, queue, unfinished, current, table, accepted, dropped>>

\* bug: QueueFull swallowed without counting
DropUncounted ==
    /\ caller = "running"
    /\ next \in Writes
    /\ next' = next + 1
    /\ IF Len(queue) < QueueMax
       THEN /\ queue' = Append(queue, next)
            /\ unfinished' = unfinished + 1
            /\ accepted' = Append(accepted, next)
       ELSE UNCHANGED <<queue, unfinished, accepted>>
    /\ UNCHANGED <<task, current, table, caller, dropped>>

\* submit(): put_nowait, or count the drop
Submit ==
    /\ caller = "running"
    /\ next \in Writes
    /\ next' = next + 1
    /\ IF Len(queue) < QueueMax
       THEN /\ queue' = Append(queue, next)
            /\ unfinished' = unfinished + 1
            /\ accepted' = Append(accepted, next)
            /\ UNCHANGED dropped
       ELSE /\ dropped' = dropped + 1
            /\ UNCHANGED <<queue, unfinished, accepted>>
    /\ UNCHANGED <<task, current, table, caller>>

\* bug: task_done() called when the item is taken, not when it is written
DoneWhenTaken ==
    /\ task = "waiting"
    /\ queue # <<>>
    /\ queue' = Tail(queue)
    /\ unfinished' = unfinished - 1
    /\ task' = IF Head(queue) = Stop THEN "returned" ELSE "writing"
    /\ current' = Head(queue)
    /\ UNCHANGED <<next, table, accepted, dropped, caller>>

\* bug: a LifoQueue
TakeLast ==
    /\ task = "waiting"
    /\ queue # <<>>
    /\ queue' = SubSeq(queue, 1, Len(queue) - 1)
    /\ LET item == queue[Len(queue)]
       IN  IF item = Stop
           THEN /\ task' = "returned"
                /\ unfinished' = unfinished - 1
                /\ UNCHANGED current
           ELSE /\ task' = "writing"
                /\ current' = item
                /\ UNCHANGED unfinished
    /\ UNCHANGED <<next, table, accepted, dropped, caller>>

\* _run takes the head of the queue and, unless it is the sentinel, hands it to
\* a thread.
Take ==
    /\ task = "waiting"
    /\ queue # <<>>
    /\ queue' = Tail(queue)
    /\ IF Head(queue) = Stop
       THEN /\ task' = "returned"
            /\ unfinished' = unfinished - 1
            /\ UNCHANGED current
       ELSE /\ task' = "writing"
            /\ current' = Head(queue)
            /\ UNCHANGED unfinished
    /\ UNCHANGED <<next, table, accepted, dropped, caller>>

\* bug: no task_done() after a write
WrittenNotDone ==
    /\ task = "writing"
    /\ table' = Append(table, current)
    /\ task' = "waiting"
    /\ UNCHANGED <<next, queue, unfinished, current, accepted, dropped, caller>>

\* The thread committed the write; task_done().
Written ==
    /\ task = "writing"
    /\ table' = Append(table, current)
    /\ unfinished' = unfinished - 1
    /\ task' = "waiting"
    /\ UNCHANGED <<next, queue, current, accepted, dropped, caller>>

\* The write raised in the thread: finally marks the item done, the exception
\* ends the task.
WriteRaises ==
    /\ task = "writing"
    /\ current \in MayRaise
    /\ unfinished' = unfinished - 1
    /\ task' = "raised"
    /\ UNCHANGED <<next, queue, current, table, accepted, dropped, caller>>

\* stop(), entered from the finally of Bot.run once its tasks are cancelled: no
\* callback submits any more.
StopBegins ==
    /\ caller = "running"
    /\ caller' = "joining"
    /\ UNCHANGED <<next, queue, unfinished, task, current, table, accepted, dropped>>

\* await self._queue.join()
Joined ==
    /\ caller = "joining"
    /\ unfinished = 0
    /\ caller' = "putting"
    /\ UNCHANGED <<next, queue, unfinished, task, current, table, accepted, dropped>>

\* await self._queue.put(None)
PutStop ==
    /\ caller = "putting"
    /\ Len(queue) < QueueMax
    /\ queue' = Append(queue, Stop)
    /\ unfinished' = unfinished + 1
    /\ caller' = "awaiting"
    /\ UNCHANGED <<next, task, current, table, accepted, dropped>>

\* await self._task: returns, or re-raises what the write raised
TaskAwaited ==
    /\ caller = "awaiting"
    /\ task \in {"returned", "raised"}
    /\ caller' = IF task = "raised" THEN "failed" ELSE "stopped"
    /\ UNCHANGED <<next, queue, unfinished, task, current, table, accepted, dropped>>

Worker == Take \/ Written \/ WriteRaises
Caller == Start \/ StopBegins \/ Joined \/ PutStop \/ TaskAwaited

Next == Worker \/ Caller \/ Submit

Spec == Init /\ [][Next]_vars

-----------------------------------------------------------------------------
(***************************************************************************)
(* Properties; Lifecycle states those that need the run of the bot.        *)
(***************************************************************************)

\* When stop() returns, every write that was taken has been committed.
StoppedMeansStored == caller = "stopped" => table = accepted

\* The write in the thread, or the one that raised there.
Held == IF task \in {"writing", "raised"} THEN <<current>> ELSE <<>>

\* The writes still on the queue; the sentinel, put after a join, is alone on it.
Pending == IF queue = <<Stop>> THEN <<>> ELSE queue

\* No write is lost without trace, and none overtakes another: those taken are, in
\* their order, stored, in the thread (or the one that raised), and waiting; the rest
\* are counted as dropped.
NothingVanishes ==
    /\ accepted = table \o Held \o Pending
    /\ next - 1 = Len(accepted) + dropped

\* The writer keeps the promise of the abstract log: what SQLite holds is a prefix
\* of what was taken, in the order of submission, without repetition.
Log == INSTANCE WriteLog WITH Item <- Writes, stored <- table
ImplementsWriteLog == Log!Spec
=============================================================================
