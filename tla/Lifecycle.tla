------------------------------ MODULE Lifecycle ------------------------------
(***************************************************************************)
(* Bot.run and what follows it in asyncio.run: the start of the recorder   *)
(* and of the writer, the first notification, the tasks, and the finally   *)
(* that stops the recorder, stops the writer and closes the connection,    *)
(* one after the other, each only if the one before it did not raise.      *)
(*                                                                         *)
(* The variables of StorageWriter are the writer's; rec_... are those of   *)
(* Recorder.  Once run has ended asyncio.run cancels the two tasks that    *)
(* are left: what is on their queues stays there, and only a thread that   *)
(* is at work goes on.                                                     *)
(***************************************************************************)
EXTENDS StorageWriter

CONSTANTS
    Events, BatchSize, AppendMayRaise   \* see Recorder; the queues are as long

VARIABLES
    rec_next, rec_queue, batch, rec_task, file, rec_accepted, rec_dropped, rec_caller,
    run,        \* Bot.run: new | starting | running | stopping | ended
    open        \* whether the SQLite connection is open

Rec == INSTANCE Recorder WITH
    next <- rec_next, queue <- rec_queue, task <- rec_task, accepted <- rec_accepted,
    dropped <- rec_dropped, caller <- rec_caller

ASSUME LifecycleAssumption == Rec!RecorderAssumption

recorder == <<rec_next, rec_queue, batch, rec_task, file, rec_accepted, rec_dropped, rec_caller>>
lifeVars == <<vars, recorder, run, open>>

LifeTypeOK ==
    /\ TypeOK
    /\ Rec!TypeOK
    /\ run \in {"new", "starting", "running", "stopping", "ended"}
    /\ open \in BOOLEAN

LifeInit ==
    /\ Init
    /\ Rec!Init
    /\ run = "new"
    /\ open = TRUE

-----------------------------------------------------------------------------
\* await recorder.start(), await storage_writer.start(): neither has anything to wait
\* for. If the recorder cannot make its directory the run is over.
RunStarts ==
    /\ run = "new"
    /\ \/ Rec!Start /\ Start /\ run' = "starting"
       \/ run' = "ended" /\ UNCHANGED <<vars, recorder>>
    /\ UNCHANGED open

\* submit(log_event, "startup"), then, with all tasks running, what the loops submit
Submits ==
    /\ run = "running" \/ (run = "starting" /\ next = 1)
    /\ Submit
    /\ UNCHANGED <<recorder, run, open>>

\* The first telegram.send returns, or it raises (or is interrupted): it stands
\* before the try, so that nothing is stopped.
Greeted ==
    /\ run = "starting" /\ next > 1
    /\ run' \in {"running", "ended"}
    /\ UNCHANGED <<vars, recorder, open>>

Records ==
    /\ run = "running"
    /\ Rec!Record
    /\ UNCHANGED <<vars, run, open>>

\* A task of the gather raises (the heartbeat's telegram.send, the dashboard) or the
\* process is interrupted: every task is cancelled, and recorder.stop() begins.
GatherEnds ==
    /\ run = "running"
    /\ Rec!StopBegins
    /\ run' = "stopping"
    /\ UNCHANGED <<vars, open>>

\* await self.recorder.stop(): if it raises the rest of the finally is left out.
RecorderStops ==
    /\ run = "stopping"
    /\ Rec!PutStop \/ Rec!TaskAwaited
    /\ run' = IF rec_caller' = "failed" THEN "ended" ELSE run
    /\ UNCHANGED <<vars, open>>

\* await self.storage_writer.stop()
WriterStops ==
    /\ run = "stopping" /\ rec_caller = "stopped"
    /\ StopBegins \/ Joined \/ PutStop \/ TaskAwaited
    /\ run' = IF caller' = "failed" THEN "ended" ELSE run
    /\ UNCHANGED <<recorder, open>>

\* bug: the connection is closed without waiting for the writer
CloseAtOnce ==
    /\ run = "stopping" /\ caller \in {"joining", "stopped"}
    /\ open' = FALSE
    /\ run' = "ended"
    /\ UNCHANGED <<vars, recorder>>

\* self.storage.close()
Close ==
    /\ run = "stopping" /\ caller = "stopped"
    /\ open' = FALSE
    /\ run' = "ended"
    /\ UNCHANGED <<vars, recorder>>

\* An interrupt while the finally awaits: it goes no further.
Interrupted ==
    /\ run = "stopping"
    /\ run' = "ended"
    /\ UNCHANGED <<vars, recorder, open>>

\* bug: the tasks end with the gather
WriterTaskCancelled ==
    /\ \/ run \in {"starting", "running"} /\ Take
       \/ Written \/ WriteRaises
    /\ UNCHANGED <<recorder, run, open>>

\* AsyncStorageWriter._run; after the end only its thread goes on.
WriterTask ==
    /\ \/ run # "ended" /\ Take
       \/ Written \/ WriteRaises
    /\ UNCHANGED <<recorder, run, open>>

\* JsonlRecorder._run
RecorderTask ==
    /\ \/ run # "ended" /\ (Rec!Gather \/ Rec!FlushTimeout \/ Rec!GatherStop)
       \/ Rec!Appended \/ Rec!AppendRaises
    /\ UNCHANGED <<vars, run, open>>

Run == RunStarts \/ Greeted \/ RecorderStops \/ WriterStops \/ Close

LifeNext ==
    Run \/ Submits \/ Records \/ GatherEnds \/ Interrupted \/ WriterTask \/ RecorderTask

\* The event loop runs every task that can go on, its timers fire, requests end, and a
\* thread returns or raises. Nothing says that the bot submits, records, ends or is
\* interrupted.
LifeFairness ==
    WF_lifeVars(Run) /\ WF_lifeVars(WriterTask) /\ WF_lifeVars(RecorderTask)

LifeSpec == LifeInit /\ [][LifeNext]_lifeVars /\ LifeFairness

-----------------------------------------------------------------------------
(***************************************************************************)
(* Properties                                                              *)
(***************************************************************************)

\* The connection is closed only when every write that was taken is committed and
\* every event that was taken is in the file: not under a write, not after a stop
\* that raised.
ClosedIsComplete ==
    ~open => /\ StoppedMeansStored /\ caller = "stopped"
             /\ Rec!StoppedMeansFlushed /\ rec_caller = "stopped"

\* A queue whose task has ended by an exception blocks the stop that waits for it:
\* the writer's if anything is left on it, the recorder's if it is full.
Stuck ==
    \/ caller = "joining" /\ task = "raised" /\ unfinished > 0
    \/ rec_caller = "putting" /\ rec_task = "raised" /\ Len(rec_queue) = QueueMax

\* The shutdown ends, but for those two ways to be stuck.
RunEnds == run = "stopping" ~> run = "ended" \/ Stuck

\* Every write that is taken is committed, unless a write has raised or the run has
\* ended without closing the connection.
TakenIsStored ==
    \A w \in Writes :
        (\E i \in DOMAIN accepted : accepted[i] = w)
            ~> \/ \E i \in DOMAIN table : table[i] = w
               \/ task = "raised"
               \/ run = "ended" /\ open

\* Every event that is taken reaches the file, even if none comes after it: the flush
\* interval does what a full batch would have done.
RecordedIsFlushed ==
    \A e \in Events :
        (\E i \in DOMAIN rec_accepted : rec_accepted[i] = e)
            ~> \/ \E i \in DOMAIN file : file[i] = e
               \/ rec_task = "raised"
               \/ run = "ended" /\ rec_caller # "stopped"

\* The recorder keeps the promise of the abstract log.
RecorderImplementsWriteLog == Rec!ImplementsWriteLog
=============================================================================
