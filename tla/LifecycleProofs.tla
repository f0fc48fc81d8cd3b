--------------------------- MODULE LifecycleProofs ---------------------------
(***************************************************************************)
(* Theorems about the writer, the recorder and the shutdown that composes  *)
(* them, for every length of the queues, every batch size and every choice *)
(* of the writes and appends that may raise.                               *)
(***************************************************************************)
EXTENDS Lifecycle, TLAPS

-----------------------------------------------------------------------------
(***************************************************************************)
(* The writer                                                              *)
(***************************************************************************)

\* Where the items of the queue are while the bot runs and while stop() waits: join()
\* returns only when the queue is empty and nothing is in the thread, so that the
\* sentinel is alone on it, and the task can only have returned once it took it.
WriterInv ==
    /\ unfinished = Len(queue) + (IF task = "writing" THEN 1 ELSE 0)
    /\ task \in {"writing", "raised"} => current \in Writes
    /\ caller = "new" <=> task = "absent"
    /\ caller \in {"new", "running", "joining", "putting"} =>
           queue \in Seq(Writes) /\ task # "returned"
    /\ caller = "putting" => unfinished = 0
    /\ caller = "awaiting" =>
           \/ queue = <<>> /\ task = "returned"
           \/ queue = <<Stop>> /\ task \in {"waiting", "raised"}
    /\ caller = "stopped" => queue = <<>> /\ task = "returned"
    /\ caller = "failed" => task = "raised" /\ queue = <<Stop>>

\* The whole invariant of the writer.
WriterIInv == TypeOK /\ WriterInv /\ NothingVanishes

\* The sentinel is not a write.
LEMMA StopIsNoWrite == Stop \notin Writes
  BY WriterAssumption DEF Stop

\* A queue of writes does not hold the sentinel.
LEMMA NoStopAmongWrites == ASSUME NEW q \in Seq(Writes) PROVE q # <<Stop>>
<1> SUFFICES ASSUME q = <<Stop>> PROVE FALSE
  OBVIOUS
<1>1. Len(q) = 1 /\ q[1] = Stop
  OBVIOUS
<1> QED
  BY <1>1, StopIsNoWrite

\* It holds at the start.
LEMMA WriterStarts == Init => WriterIInv
  BY WriterAssumption
  DEF Init, WriterIInv, TypeOK, WriterInv, NothingVanishes, Held, Pending, Stop

\* submit() keeps it.
LEMMA SubmitKeeps == WriterIInv /\ Submit => WriterIInv'
<1> SUFFICES ASSUME WriterIInv, Submit PROVE WriterIInv'
  OBVIOUS
<1> USE WriterAssumption, StopIsNoWrite
<1>1. /\ TypeOK /\ WriterInv /\ NothingVanishes
      /\ caller = "running" /\ next \in Writes
      /\ queue \in Seq(Writes) /\ task # "returned"
  BY DEF WriterIInv, WriterInv, Submit
<1>2. CASE Len(queue) < QueueMax
  <2>1. /\ queue' = Append(queue, next) /\ accepted' = Append(accepted, next)
        /\ unfinished' = unfinished + 1 /\ next' = next + 1
        /\ UNCHANGED <<task, current, table, caller, dropped>>
    BY <1>2 DEF Submit
  <2>2. queue' \in Seq(Writes) /\ queue' \in Seq(Writes \cup {Stop}) /\ Len(queue') = Len(queue) + 1
    BY <1>1, <2>1
  <2>3. TypeOK' /\ WriterInv'
    BY <1>1, <1>2, <2>1, <2>2, SMTT(30) DEF TypeOK, WriterInv
  <2>4. Pending = queue /\ Pending' = queue'
    BY <1>1, <2>2, NoStopAmongWrites DEF Pending
  <2>5. Held \in Seq(Writes) /\ Held' = Held /\ table \in Seq(Writes) /\ table' = table
    BY <1>1, <2>1 DEF TypeOK, WriterInv, Held
  <2>6. accepted = table \o Held \o queue
    BY <1>1, <2>4 DEF NothingVanishes
  <2>7. Append(table \o Held \o queue, next) = table \o Held \o Append(queue, next)
    BY <1>1, <2>5, SMTT(30)
  <2>8. accepted' = table' \o Held' \o Pending'
    BY <2>1, <2>4, <2>5, <2>6, <2>7
  <2>9. next' - 1 = Len(accepted') + dropped'
    BY <1>1, <2>1 DEF NothingVanishes, TypeOK
  <2> QED
    BY <2>3, <2>8, <2>9 DEF WriterIInv, NothingVanishes
<1>3. CASE ~(Len(queue) < QueueMax)
  <2>1. /\ dropped' = dropped + 1 /\ next' = next + 1
        /\ UNCHANGED <<queue, unfinished, accepted, task, current, table, caller>>
    BY <1>3 DEF Submit
  <2>2. TypeOK' /\ WriterInv'
    BY <1>1, <2>1 DEF TypeOK, WriterInv
  <2>3. accepted' = table' \o Held' \o Pending'
    BY <1>1, <2>1 DEF NothingVanishes, Held, Pending
  <2>4. next' - 1 = Len(accepted') + dropped'
    BY <1>1, <2>1 DEF NothingVanishes, TypeOK
  <2> QED
    BY <2>2, <2>3, <2>4 DEF WriterIInv, NothingVanishes
<1> QED
  BY <1>2, <1>3

\* The task takes the head of the queue: the oldest of the writes not yet taken.
LEMMA TakeKeeps == WriterIInv /\ Take => WriterIInv'
<1> SUFFICES ASSUME WriterIInv, Take PROVE WriterIInv'
  OBVIOUS
<1> USE WriterAssumption, StopIsNoWrite
<1>1. /\ TypeOK /\ WriterInv /\ NothingVanishes
      /\ task = "waiting" /\ queue # <<>> /\ queue' = Tail(queue)
      /\ UNCHANGED <<next, table, accepted, dropped, caller>>
  BY DEF WriterIInv, Take
<1>2. Len(queue') = Len(queue) - 1 /\ Len(queue) \in Nat \ {0}
  BY <1>1 DEF TypeOK
<1>3. CASE Head(queue) = Stop
  <2>1. task' = "returned" /\ unfinished' = unfinished - 1 /\ UNCHANGED current
    BY <1>3 DEF Take
  <2>2. queue \notin Seq(Writes)
    BY <1>1, <1>3
  <2>3. caller = "awaiting" /\ queue = <<Stop>>
    BY <1>1, <2>2 DEF WriterInv, TypeOK
  <2>4. queue' = <<>>
    BY <1>1, <2>3
  <2>5. TypeOK' /\ WriterInv'
    BY <1>1, <2>1, <2>3, <2>4 DEF TypeOK, WriterInv
  <2>6. NothingVanishes'
    BY <1>1, <2>1, <2>3, <2>4 DEF NothingVanishes, Held, Pending
  <2> QED
    BY <2>5, <2>6 DEF WriterIInv
<1>4. CASE Head(queue) # Stop
  <2>1. task' = "writing" /\ current' = Head(queue) /\ UNCHANGED unfinished
    BY <1>4 DEF Take
  <2>2. queue # <<Stop>>
    BY <1>1, <1>4
  <2>3. queue \in Seq(Writes) /\ caller \in {"new", "running", "joining", "putting"}
    BY <1>1, <2>2 DEF WriterInv, TypeOK
  <2>4. caller # "new" /\ caller # "putting"
    BY <1>1, <1>2, <2>3 DEF WriterInv
  <2>5. Head(queue) \in Writes /\ Tail(queue) \in Seq(Writes) /\ Tail(queue) \in Seq(Writes \cup {Stop})
    BY <1>1, <2>3
  <2>6. TypeOK' /\ WriterInv'
    BY <1>1, <1>2, <2>1, <2>3, <2>4, <2>5 DEF TypeOK, WriterInv
  <2>7. accepted = table \o <<>> \o queue /\ Held' = <<Head(queue)>> /\ Pending' = Tail(queue)
    BY <1>1, <2>1, <2>2, <2>5, NoStopAmongWrites DEF NothingVanishes, Held, Pending
  <2>8. table \o <<>> \o queue = table \o <<Head(queue)>> \o Tail(queue)
    BY <1>1, <2>3, SMTT(30) DEF TypeOK
  <2> QED
    BY <1>1, <2>6, <2>7, <2>8 DEF WriterIInv, NothingVanishes
<1> QED
  BY <1>3, <1>4

\* The thread commits the write it holds.
LEMMA WrittenKeeps == WriterIInv /\ Written => WriterIInv'
<1> SUFFICES ASSUME WriterIInv, Written PROVE WriterIInv'
  OBVIOUS
<1> USE WriterAssumption
<1>1. /\ TypeOK /\ WriterInv /\ NothingVanishes
      /\ task = "writing" /\ table' = Append(table, current) /\ unfinished' = unfinished - 1
      /\ task' = "waiting" /\ UNCHANGED <<next, queue, current, accepted, dropped, caller>>
  BY DEF WriterIInv, Written
<1>2. current \in Writes /\ table \in Seq(Writes)
  BY <1>1 DEF TypeOK, WriterInv
<1>3. table' \in Seq(Writes)
  BY <1>1, <1>2
<1>4. TypeOK' /\ WriterInv'
  BY <1>1, <1>3 DEF TypeOK, WriterInv
<1>5. Held = <<current>> /\ Held' = <<>> /\ Pending' = Pending
  BY <1>1 DEF Held, Pending
<1>6. table \o <<current>> \o Pending = Append(table, current) \o <<>> \o Pending
  BY <1>2
<1> QED
  BY <1>1, <1>4, <1>5, <1>6 DEF WriterIInv, NothingVanishes

\* A write that raises stays the one that is held.
LEMMA RaiseKeeps == WriterIInv /\ WriteRaises => WriterIInv'
<1> SUFFICES ASSUME WriterIInv, WriteRaises PROVE WriterIInv'
  OBVIOUS
<1> USE WriterAssumption
<1>1. TypeOK' /\ WriterInv'
  <2>1. /\ TypeOK /\ WriterInv /\ task = "writing" /\ task' = "raised"
        /\ unfinished' = unfinished - 1
        /\ UNCHANGED <<next, queue, current, table, accepted, dropped, caller>>
    BY DEF WriterIInv, WriteRaises
  <2> QED
    BY <2>1 DEF TypeOK, WriterInv
<1>2. NothingVanishes'
  BY DEF WriterIInv, WriteRaises, NothingVanishes, Held, Pending
<1> QED
  BY <1>1, <1>2 DEF WriterIInv

\* start() and the steps of stop() move nothing.
LEMMA CallerKeeps == WriterIInv /\ Caller => WriterIInv'
<1> SUFFICES ASSUME WriterIInv, Caller PROVE WriterIInv'
  OBVIOUS
<1> USE WriterAssumption, StopIsNoWrite DEF WriterIInv, NothingVanishes, Held, Pending
<1>1. CASE Start
  BY <1>1 DEF Start, TypeOK, WriterInv
<1>2. CASE StopBegins
  BY <1>2 DEF StopBegins, TypeOK, WriterInv
<1>3. CASE Joined
  BY <1>3 DEF Joined, TypeOK, WriterInv
<1>4. CASE PutStop
  <2>1. queue = <<>> /\ task # "writing" /\ task # "returned"
    BY <1>4 DEF PutStop, TypeOK, WriterInv
  <2>2. queue' = <<Stop>> /\ <<Stop>> \in Seq(Writes \cup {Stop}) /\ Len(<<Stop>>) = 1
    BY <1>4, <2>1 DEF PutStop
  <2>3. caller' = "awaiting" /\ caller = "putting" /\ unfinished' = unfinished + 1
        /\ UNCHANGED <<next, task, current, table, accepted, dropped>>
    BY <1>4 DEF PutStop
  <2>4. task \in {"waiting", "raised"}
    BY <2>1, <2>3 DEF TypeOK, WriterInv
  <2>5. TypeOK' /\ WriterInv'
    BY <2>1, <2>2, <2>3, <2>4 DEF TypeOK, WriterInv
  <2>6. NothingVanishes'
    BY <2>1, <2>2, <2>3
  <2> QED
    BY <2>5, <2>6
<1>5. CASE TaskAwaited
  BY <1>5 DEF TaskAwaited, TypeOK, WriterInv
<1> QED
  BY <1>1, <1>2, <1>3, <1>4, <1>5 DEF Caller

\* Every step of the writer keeps its invariant.
LEMMA WriterStep == WriterIInv /\ [Next]_vars => WriterIInv'
<1>1. WriterIInv /\ UNCHANGED vars => WriterIInv'
  BY DEF vars, WriterIInv, TypeOK, WriterInv, NothingVanishes, Held, Pending
<1> QED
  BY <1>1, SubmitKeeps, TakeKeeps, WrittenKeeps, RaiseKeeps, CallerKeeps DEF Next, Worker

LEMMA WriterInvariant == Spec => []WriterIInv
<1> QED
  BY WriterStarts, WriterStep, PTL DEF Spec

\* No write is lost without trace and none overtakes another: submit(), _run and
\* stop() together account for every write, in its order.
THEOREM WriterKeepsAll == Spec => []NothingVanishes
<1>1. WriterIInv => NothingVanishes
  BY DEF WriterIInv
<1> QED
  BY <1>1, WriterInvariant, PTL

\* When stop() of the writer returns, every write taken is committed.
THEOREM WriterStoppedIsStored == Spec => []StoppedMeansStored
<1>1. WriterIInv => StoppedMeansStored
  <2> SUFFICES ASSUME WriterIInv, caller = "stopped" PROVE table = accepted
    BY DEF StoppedMeansStored
  <2>1. Held = <<>> /\ Pending = <<>> /\ table \in Seq(Writes)
    BY DEF WriterIInv, WriterInv, TypeOK, Held, Pending
  <2>2. accepted = table \o <<>> \o <<>>
    BY <2>1 DEF WriterIInv, NothingVanishes
  <2> QED
    BY <2>1, <2>2
<1> QED
  BY <1>1, WriterInvariant, PTL

\* The writer, whatever its queue, its thread and its stop() do, is the abstract log:
\* what SQLite holds is a prefix of what was taken.
THEOREM WriterIsWriteLog == Spec => ImplementsWriteLog
<1>1. Init => Log!Init
  BY DEF Init, Log!Init
<1>2. WriterIInv /\ [Next]_vars => [Log!Next]_Log!vars
  <2> SUFFICES ASSUME WriterIInv, [Next]_vars PROVE [Log!Next]_Log!vars
    OBVIOUS
  <2> USE DEF Log!Next, Log!vars, Log!Accept, Log!Drop, Log!Store
  <2>1. CASE Submit
    BY <2>1 DEF Submit
  <2>2. CASE Written
    <3>1. /\ task = "writing" /\ table' = Append(table, current)
          /\ UNCHANGED <<accepted, dropped>>
      BY <2>2 DEF Written
    <3>2. /\ current \in Writes /\ table \in Seq(Writes) /\ Pending \in Seq(Writes \cup {Stop})
          /\ accepted = table \o <<current>> \o Pending
      <4>1. current \in Writes /\ table \in Seq(Writes) /\ Pending \in Seq(Writes \cup {Stop})
        BY <3>1 DEF WriterIInv, TypeOK, WriterInv, Pending
      <4>2. accepted = table \o <<current>> \o Pending
        BY <3>1 DEF WriterIInv, NothingVanishes, Held
      <4> QED
        BY <4>1, <4>2
    <3>3. /\ SubSeq(table \o <<current>> \o Pending, 1, Len(table) + 1) = Append(table, current)
          /\ Len(table) + 1 \in (Len(table) + 1)..Len(table \o <<current>> \o Pending)
      BY <3>2
    <3> QED
      BY <3>1, <3>2, <3>3
  <2>3. CASE Take \/ WriteRaises \/ Caller \/ UNCHANGED vars
    BY <2>3 DEF Take, WriteRaises, Caller, Start, StopBegins, Joined, PutStop, TaskAwaited, vars
  <2> QED
    BY <2>1, <2>2, <2>3 DEF Next, Worker
<1> QED
  BY <1>1, <1>2, WriterInvariant, PTL DEF Spec, ImplementsWriteLog, Log!Spec

-----------------------------------------------------------------------------
(***************************************************************************)
(* The recorder                                                            *)
(***************************************************************************)

\* What is left on the queue, the sentinel apart, comes after what is in the batch,
\* which comes after what is in the file. An append that raised ends the task, and of
\* its batch the file may hold a part.
LeftIs(left) ==
    /\ left \in Seq(Events)
    /\ rec_queue = left \/ rec_queue = Append(left, Stop)
    /\ rec_caller \in {"new", "disabled"} => rec_task = "absent"
    /\ rec_task = "absent" => rec_caller \in {"new", "disabled", "stopped"} /\ rec_queue = <<>>
    /\ rec_caller \in {"new", "running", "disabled", "putting"} =>
           rec_queue = left /\ rec_task \notin {"closing", "returned"}
    /\ rec_task \in {"closing", "returned"} => rec_queue = <<>>
    /\ rec_task \in {"flushing", "closing"} => batch # <<>>
    /\ rec_task = "waiting" => Len(batch) < BatchSize
    /\ rec_task \in {"absent", "returned"} => batch = <<>>
    /\ rec_caller = "stopped" => rec_task \in {"absent", "returned"}
    /\ rec_caller = "failed" => rec_task = "raised"
    /\ rec_task # "raised" => rec_accepted = file \o batch \o left
    /\ \E rest \in Seq(Events) : rec_accepted = file \o rest

RecorderInv == \E left \in Seq(Events) : LeftIs(left)

\* The whole invariant of the recorder.
RecorderIInv == Rec!TypeOK /\ RecorderInv

\* The sentinel is not an event.
LEMMA StopIsNoEvent == Stop \notin Events /\ Rec!Stop = Stop
  BY LifecycleAssumption DEF Stop, Rec!Stop, Rec!RecorderAssumption

\* What is appended to a concatenation is appended to its second part.
LEMMA AppendToLast ==
    \A s, t \in Seq(Events) : \A e \in Events : Append(s \o t, e) = s \o Append(t, e)
  OBVIOUS

\* Where the parts of a concatenation are joined makes no difference.
LEMMA Regroup ==
    \A s, t, u \in Seq(Events) : (s \o t) \o u = s \o (t \o u)
  OBVIOUS

\* A sequence is what is taken from its front and what is left.
LEMMA SplitAt ==
    ASSUME NEW s \in Seq(Events), NEW n \in 0..Len(s)
    PROVE  SubSeq(s, 1, n) \o SubSeq(s, n + 1, Len(s)) = s
<1> DEFINE p == SubSeq(s, 1, n)
           q == SubSeq(s, n + 1, Len(s))
<1>1. /\ p \in Seq(Events) /\ Len(p) = n /\ \A i \in 1..n : p[i] = s[i]
      /\ q \in Seq(Events) /\ Len(q) = Len(s) - n /\ \A i \in 1..(Len(s) - n) : q[i] = s[n + i]
  OBVIOUS
<1>2. n \in Nat /\ Len(s) \in Nat /\ n =< Len(s)
  OBVIOUS
<1> DEFINE whole == p \o q
<1> HIDE DEF p, q
<1>3. /\ p \o q \in Seq(Events) /\ Len(p \o q) = Len(s)
      /\ \A i \in 1..Len(s) : (p \o q)[i] = IF i =< n THEN p[i] ELSE q[i - n]
  BY <1>1, <1>2
<1>4. \A i \in 1..Len(s) : (p \o q)[i] = s[i]
  <2> SUFFICES ASSUME NEW i \in 1..Len(s) PROVE (p \o q)[i] = s[i]
    OBVIOUS
  <2>1. CASE i =< n
    BY <1>1, <1>2, <1>3, <2>1
  <2>2. CASE ~(i =< n)
    <3>1. i - n \in 1..(Len(s) - n) /\ n + (i - n) = i
      BY <1>2, <2>2
    <3> QED
      BY <1>1, <1>2, <1>3, <2>2, <3>1
  <2> QED
    BY <2>1, <2>2
<1>5. whole \in Seq(Events) /\ Len(whole) = Len(s) /\ \A i \in 1..Len(s) : whole[i] = s[i]
  BY <1>3, <1>4
<1> HIDE DEF whole
<1>6. whole = s
  BY <1>5
<1> QED
  BY <1>6 DEF whole, p, q

\* It holds at the start.
LEMMA RecorderStarts == Rec!Init => RecorderIInv
<1> SUFFICES ASSUME Rec!Init PROVE RecorderIInv
  OBVIOUS
<1>1. Rec!TypeOK
  BY LifecycleAssumption DEF Rec!Init, Rec!TypeOK, Rec!Stop, Rec!RecorderAssumption
<1>2. rec_accepted = file \o batch \o <<>> /\ rec_accepted = file \o <<>> /\ <<>> \in Seq(Events)
  BY DEF Rec!Init
<1>3. LeftIs(<<>>)
  BY <1>2 DEF Rec!Init, LeftIs
<1> QED
  BY <1>1, <1>2, <1>3 DEF RecorderIInv, RecorderInv

\* record() keeps it.
LEMMA RecordKeeps == RecorderIInv /\ Rec!Record => RecorderIInv'
<1> SUFFICES ASSUME RecorderIInv, Rec!Record PROVE RecorderIInv'
  OBVIOUS
<1>1. PICK left \in Seq(Events) : LeftIs(left)
  BY DEF RecorderIInv, RecorderInv
<1>2. /\ Rec!TypeOK /\ rec_caller = "running" /\ rec_next \in Events /\ rec_queue = left
      /\ rec_task \notin {"closing", "returned"}
      /\ rec_next' = rec_next + 1 /\ UNCHANGED <<batch, rec_task, file, rec_caller>>
  BY <1>1 DEF RecorderIInv, LeftIs, Rec!Record
<1>3. CASE Len(rec_queue) < QueueMax
  <2>1. /\ rec_queue' = Append(rec_queue, rec_next)
        /\ rec_accepted' = Append(rec_accepted, rec_next) /\ UNCHANGED rec_dropped
    BY <1>2, <1>3, LifecycleAssumption DEF Rec!Record, Rec!TypeOK, Rec!RecorderAssumption
  <2>2. /\ rec_queue' \in Seq(Events) /\ rec_queue' \in Seq(Events \cup {Stop})
        /\ Len(rec_queue') = Len(rec_queue) + 1
    BY <1>1, <1>2, <2>1
  <2>3. Rec!TypeOK'
    BY <1>2, <1>3, <2>1, <2>2, StopIsNoEvent, LifecycleAssumption
    DEF Rec!TypeOK, Rec!RecorderAssumption
  <2>4. /\ file \in Seq(Events) /\ batch \in Seq(Events)
        /\ left \in Seq(Events) /\ rec_next \in Events
    BY <1>1, <1>2 DEF Rec!TypeOK
  <2>5. rec_task' # "raised" => rec_accepted' = file' \o batch' \o rec_queue'
    <3>1. Append(file \o batch \o left, rec_next) = file \o batch \o Append(left, rec_next)
      <4>1. file \o batch \in Seq(Events)
        BY <2>4
      <4> QED
        BY <2>4, <4>1, AppendToLast, Zenon
    <3> QED
      BY <1>1, <1>2, <2>1, <3>1 DEF LeftIs
  <2>6. \E rest \in Seq(Events) : rec_accepted' = file' \o rest
    <3>1. PICK rest \in Seq(Events) : rec_accepted = file \o rest
      BY <1>1 DEF LeftIs
    <3>2. Append(file \o rest, rec_next) = file \o Append(rest, rec_next)
      BY <2>4, AppendToLast, Zenon
    <3>3. Append(rest, rec_next) \in Seq(Events)
      BY <2>4
    <3> QED
      BY <1>2, <2>1, <3>1, <3>2, <3>3
  <2>7. LeftIs(rec_queue)'
    BY <1>1, <1>2, <2>2, <2>5, <2>6 DEF LeftIs
  <2> QED
    BY <2>2, <2>3, <2>7 DEF RecorderIInv, RecorderInv
<1>4. CASE ~(Len(rec_queue) < QueueMax)
  <2>1. rec_dropped' = rec_dropped + 1 /\ UNCHANGED <<rec_queue, rec_accepted>>
    BY <1>2, <1>4, LifecycleAssumption DEF Rec!Record, Rec!TypeOK, Rec!RecorderAssumption
  <2>2. Rec!TypeOK'
    BY <1>2, <2>1, StopIsNoEvent DEF Rec!TypeOK
  <2>3. LeftIs(left)'
    BY <1>1, <1>2, <2>1 DEF LeftIs
  <2> QED
    BY <2>2, <2>3 DEF RecorderIInv, RecorderInv
<1> QED
  BY <1>3, <1>4

\* While anything but the sentinel is left it is at the head of the queue.
LEMMA HeadOfLeft ==
    ASSUME NEW left \in Seq(Events), LeftIs(left), left # <<>>
    PROVE  Head(rec_queue) = Head(left) /\ Head(left) \in Events
<1>1. Head(Append(left, Stop)) = Head(left) /\ Head(left) \in Events
  OBVIOUS
<1>2. rec_queue = left \/ rec_queue = Append(left, Stop)
  BY DEF LeftIs
<1> QED
  BY <1>1, <1>2, Zenon

\* The task moves the head of the queue to the end of the batch.
LEMMA GatherKeeps == RecorderIInv /\ Rec!Gather => RecorderIInv'
<1> SUFFICES ASSUME RecorderIInv, Rec!Gather PROVE RecorderIInv'
  OBVIOUS
<1>1. PICK left \in Seq(Events) : LeftIs(left)
  BY DEF RecorderIInv, RecorderInv
<1>2. /\ Rec!TypeOK /\ rec_task = "waiting" /\ rec_queue # <<>> /\ Head(rec_queue) # Stop
      /\ rec_queue' = Tail(rec_queue) /\ batch' = Append(batch, Head(rec_queue))
      /\ rec_task' = IF Len(batch') >= BatchSize THEN "flushing" ELSE "waiting"
      /\ UNCHANGED <<rec_next, file, rec_accepted, rec_dropped, rec_caller>>
  BY StopIsNoEvent DEF RecorderIInv, Rec!Gather
<1>3. left # <<>>
  BY <1>1, <1>2 DEF LeftIs
<1>4. /\ left \in Seq(Events) /\ file \in Seq(Events) /\ batch \in Seq(Events)
      /\ Head(left) \in Events /\ Tail(left) \in Seq(Events)
  BY <1>1, <1>2, <1>3 DEF Rec!TypeOK
<1>5. Head(rec_queue) = Head(left)
  BY <1>1, <1>3, HeadOfLeft
<1>6. rec_queue' = Tail(left) \/ rec_queue' = Append(Tail(left), Stop)
  <2>1. CASE rec_queue = left
    BY <1>2, <2>1
  <2>2. CASE rec_queue = Append(left, Stop)
    <3>1. Tail(Append(left, Stop)) = Append(Tail(left), Stop)
      BY <1>3, <1>4
    <3> QED
      BY <1>2, <2>2, <3>1
  <2> QED
    BY <1>1, <2>1, <2>2 DEF LeftIs
<1>7. batch' \in Seq(Events) /\ batch' # <<>> /\ Len(batch') = Len(batch) + 1
  BY <1>2, <1>4, <1>5
<1>8. rec_accepted' = file' \o batch' \o Tail(left)
  <2>1. rec_accepted = file \o batch \o left
    BY <1>1, <1>2 DEF LeftIs
  <2>2. file \o batch \o left = file \o Append(batch, Head(left)) \o Tail(left)
    BY <1>3, <1>4, SMTT(30)
  <2> QED
    BY <1>2, <1>5, <2>1, <2>2
<1>9. Rec!TypeOK'
  <2>1. rec_queue' \in Seq(Events \cup {Stop}) /\ Len(rec_queue') =< QueueMax
    BY <1>2, StopIsNoEvent, LifecycleAssumption DEF Rec!TypeOK, Rec!RecorderAssumption
  <2>2. Len(batch') =< BatchSize
    BY <1>1, <1>2, <1>7, LifecycleAssumption DEF Rec!TypeOK, LeftIs, Rec!RecorderAssumption
  <2> QED
    BY <1>2, <1>7, <2>1, <2>2, StopIsNoEvent DEF Rec!TypeOK
<1>10. LeftIs(Tail(left))'
  <2>1. rec_task' \in {"waiting", "flushing"} /\ (rec_task' = "waiting" => Len(batch') < BatchSize)
    BY <1>2, <1>7, LifecycleAssumption DEF Rec!TypeOK, Rec!RecorderAssumption
  <2>2. rec_caller \in {"new", "running", "disabled", "putting"} => rec_queue' = Tail(left)
    BY <1>1, <1>2 DEF LeftIs
  <2>3. rec_caller \notin {"new", "disabled", "stopped", "failed"}
    BY <1>1, <1>2 DEF LeftIs
  <2>4. \E rest \in Seq(Events) : rec_accepted' = file' \o rest
    BY <1>1, <1>2 DEF LeftIs
  <2> QED
    BY <1>2, <1>4, <1>6, <1>7, <1>8, <2>1, <2>2, <2>3, <2>4 DEF LeftIs
<1> QED
  BY <1>4, <1>9, <1>10 DEF RecorderIInv, RecorderInv

\* A timeout, the sentinel and the steps of start() and stop() move no event.
LEMMA RecorderMovesKeep ==
    RecorderIInv /\ (Rec!FlushTimeout \/ Rec!GatherStop \/ Rec!Caller) => RecorderIInv'
<1> SUFFICES ASSUME RecorderIInv, Rec!FlushTimeout \/ Rec!GatherStop \/ Rec!Caller
             PROVE  RecorderIInv'
  OBVIOUS
<1>1. PICK left \in Seq(Events) : LeftIs(left)
  BY DEF RecorderIInv, RecorderInv
<1>2. Rec!TypeOK /\ left \in Seq(Events)
  BY <1>1 DEF RecorderIInv
<1>3. CASE Rec!FlushTimeout
  <2>1. Rec!TypeOK' /\ LeftIs(left)'
    BY <1>1, <1>2, <1>3 DEF Rec!FlushTimeout, Rec!TypeOK, LeftIs
  <2> QED
    BY <1>2, <2>1 DEF RecorderIInv, RecorderInv
<1>4. CASE Rec!GatherStop
  <2>1. /\ rec_task = "waiting" /\ rec_queue # <<>> /\ Head(rec_queue) = Stop
        /\ rec_queue' = Tail(rec_queue) /\ rec_task' = IF batch = <<>> THEN "returned" ELSE "closing"
        /\ UNCHANGED <<rec_next, batch, file, rec_accepted, rec_dropped, rec_caller>>
    BY <1>4, StopIsNoEvent DEF Rec!GatherStop
  <2>2. left = <<>>
    BY <1>1, <2>1, HeadOfLeft, StopIsNoEvent
  <2>3. rec_queue = Append(<<>>, Stop)
    BY <1>1, <2>1, <2>2 DEF LeftIs
  <2>4. rec_queue' = <<>>
    BY <2>1, <2>3
  <2>5. rec_caller \notin {"new", "running", "disabled", "putting", "stopped", "failed"}
    BY <1>1, <2>1, <2>2 DEF LeftIs
  <2>6. Rec!TypeOK'
    BY <1>2, <2>1, <2>4, LifecycleAssumption DEF Rec!TypeOK, Rec!RecorderAssumption
  <2>7. LeftIs(<<>>)'
    BY <1>1, <2>1, <2>2, <2>4, <2>5 DEF LeftIs
  <2> QED
    BY <1>2, <2>2, <2>6, <2>7 DEF RecorderIInv, RecorderInv
<1>5. CASE Rec!Start
  <2>1. /\ rec_caller = "new"
        /\ <<rec_task', rec_caller'>> \in {<<"waiting", "running">>, <<"absent", "disabled">>}
        /\ UNCHANGED <<rec_next, rec_queue, batch, file, rec_accepted, rec_dropped>>
    BY <1>5 DEF Rec!Start
  <2>2. rec_task = "absent" /\ batch = <<>> /\ rec_queue = <<>> /\ Len(batch) < BatchSize
    BY <1>1, <2>1, LifecycleAssumption DEF LeftIs, Rec!RecorderAssumption
  <2>3. Rec!TypeOK'
    BY <1>2, <2>1 DEF Rec!TypeOK
  <2>4. LeftIs(left)'
    BY <1>1, <2>1, <2>2 DEF LeftIs
  <2> QED
    BY <1>2, <2>3, <2>4 DEF RecorderIInv, RecorderInv
<1>6. CASE Rec!StopBegins
  <2>1. Rec!TypeOK' /\ LeftIs(left)'
    BY <1>1, <1>2, <1>6 DEF Rec!StopBegins, Rec!TypeOK, LeftIs
  <2> QED
    BY <1>2, <2>1 DEF RecorderIInv, RecorderInv
<1>7. CASE Rec!PutStop
  <2>1. /\ rec_caller = "putting" /\ Len(rec_queue) < QueueMax /\ rec_queue' = Append(rec_queue, Stop)
        /\ rec_caller' = "awaiting" /\ UNCHANGED <<rec_next, batch, rec_task, file, rec_accepted, rec_dropped>>
    BY <1>7, StopIsNoEvent DEF Rec!PutStop
  <2>2. rec_queue = left /\ rec_task \notin {"closing", "returned"}
    BY <1>1, <2>1 DEF LeftIs
  <2>3. Rec!TypeOK'
    BY <1>2, <2>1, StopIsNoEvent, LifecycleAssumption DEF Rec!TypeOK, Rec!RecorderAssumption
  <2>4. LeftIs(left)'
    BY <1>1, <2>1, <2>2 DEF LeftIs
  <2> QED
    BY <1>2, <2>3, <2>4 DEF RecorderIInv, RecorderInv
<1>8. CASE Rec!TaskAwaited
  <2>1. Rec!TypeOK' /\ LeftIs(left)'
    BY <1>1, <1>2, <1>8 DEF Rec!TaskAwaited, Rec!TypeOK, LeftIs
  <2> QED
    BY <1>2, <2>1 DEF RecorderIInv, RecorderInv
<1> QED
  BY <1>3, <1>4, <1>5, <1>6, <1>7, <1>8 DEF Rec!Caller

\* An append writes the batch, or a part of it when it raises.
LEMMA AppendKeeps == RecorderIInv /\ (Rec!Appended \/ Rec!AppendRaises) => RecorderIInv'
<1> SUFFICES ASSUME RecorderIInv, Rec!Appended \/ Rec!AppendRaises PROVE RecorderIInv'
  OBVIOUS
<1>1. PICK left \in Seq(Events) : LeftIs(left)
  BY DEF RecorderIInv, RecorderInv
<1>2. /\ Rec!TypeOK /\ left \in Seq(Events) /\ file \in Seq(Events) /\ batch \in Seq(Events)
      /\ rec_task \in {"flushing", "closing"}
      /\ UNCHANGED <<rec_next, rec_queue, rec_accepted, rec_dropped, rec_caller>>
  BY <1>1 DEF RecorderIInv, Rec!TypeOK, Rec!Appended, Rec!AppendRaises
<1>3. rec_accepted = file \o batch \o left
  BY <1>1, <1>2 DEF LeftIs
<1>4. CASE Rec!Appended
  <2>1. /\ file' = file \o batch /\ batch' = <<>>
        /\ rec_task' = IF rec_task = "closing" THEN "returned" ELSE "waiting"
    BY <1>4 DEF Rec!Appended
  <2>2. file \o batch \in Seq(Events)
    BY <1>2
  <2>3. Rec!TypeOK'
    BY <1>2, <2>1, <2>2, LifecycleAssumption DEF Rec!TypeOK, Rec!RecorderAssumption
  <2>4. file \o batch \o left = (file \o batch) \o <<>> \o left
    BY <1>2
  <2>5. rec_accepted' = file' \o batch' \o left
    BY <1>2, <1>3, <2>1, <2>4, Zenon
  <2>6. \E rest \in Seq(Events) : rec_accepted' = file' \o rest
    BY <1>2, <1>3, <2>1, Zenon
  <2>7. Len(batch') < BatchSize
    BY <2>1, LifecycleAssumption DEF Rec!RecorderAssumption
  <2>8. LeftIs(left)'
    BY <1>1, <1>2, <2>1, <2>5, <2>6, <2>7 DEF LeftIs
  <2> QED
    BY <1>2, <2>3, <2>8 DEF RecorderIInv, RecorderInv
<1>5. CASE Rec!AppendRaises
  <2>1. PICK n \in 0..Len(batch) : file' = file \o SubSeq(batch, 1, n)
    BY <1>5 DEF Rec!AppendRaises
  <2>2. rec_task' = "raised" /\ UNCHANGED batch
    BY <1>5 DEF Rec!AppendRaises
  <2> DEFINE part == SubSeq(batch, 1, n)
             rest == SubSeq(batch, n + 1, Len(batch)) \o left
  <2>3. part \in Seq(Events) /\ SubSeq(batch, n + 1, Len(batch)) \in Seq(Events) /\ file \o part \in Seq(Events)
    BY <1>2
  <2>4. rest \in Seq(Events)
    BY <1>2, <2>3
  <2>5. part \o SubSeq(batch, n + 1, Len(batch)) = batch
    BY <1>2, SplitAt, Zenon
  <2>6. file \o batch \o left = (file \o part) \o rest
    <3> DEFINE tail == SubSeq(batch, n + 1, Len(batch))
    <3>1. /\ file \in Seq(Events) /\ part \in Seq(Events) /\ tail \in Seq(Events) /\ left \in Seq(Events)
      BY <1>2, <2>3
    <3>2. part \o tail = batch
      BY <2>5
    <3> HIDE DEF part, tail
    <3>3. file \o part \in Seq(Events)
      BY <3>1
    <3>4. (file \o part) \o tail = file \o (part \o tail)
      BY <3>1, Regroup, ZenonT(60)
    <3>5. ((file \o part) \o tail) \o left = (file \o part) \o (tail \o left)
      BY <3>1, <3>3, Regroup, ZenonT(60)
    <3> QED
      BY <3>2, <3>4, <3>5, Zenon DEF tail
  <2>7. rec_accepted' = file' \o rest
    BY <1>2, <1>3, <2>1, <2>6, Zenon
  <2>8. Rec!TypeOK'
    BY <1>2, <2>1, <2>2, <2>3 DEF Rec!TypeOK
  <2>9. LeftIs(left)'
    BY <1>1, <1>2, <2>2, <2>4, <2>7 DEF LeftIs
  <2> QED
    BY <1>2, <2>8, <2>9 DEF RecorderIInv, RecorderInv
<1> QED
  BY <1>4, <1>5

\* Every step of the recorder keeps its invariant.
LEMMA RecorderStep == RecorderIInv /\ [Rec!Next]_Rec!vars => RecorderIInv'
<1>1. RecorderIInv /\ UNCHANGED Rec!vars => RecorderIInv'
  <2> SUFFICES ASSUME RecorderIInv, UNCHANGED Rec!vars PROVE RecorderIInv'
    OBVIOUS
  <2>1. PICK left \in Seq(Events) : LeftIs(left)
    BY DEF RecorderIInv, RecorderInv
  <2>2. LeftIs(left)'
    BY <2>1 DEF LeftIs, Rec!vars
  <2>3. Rec!TypeOK'
    BY DEF RecorderIInv, Rec!TypeOK, Rec!vars
  <2> QED
    BY <2>1, <2>2, <2>3 DEF RecorderIInv, RecorderInv
<1> QED
  BY <1>1, RecordKeeps, GatherKeeps, RecorderMovesKeep, AppendKeeps DEF Rec!Next, Rec!Worker

LEMMA RecorderInvariant == Rec!Spec => []RecorderIInv
<1> QED
  BY RecorderStarts, RecorderStep, PTL DEF Rec!Spec

\* When stop() of the recorder returns, every event taken is in the file, although
\* stop() does not join the queue.
THEOREM RecorderStoppedIsFlushed == Rec!Spec => []Rec!StoppedMeansFlushed
<1>1. RecorderIInv => Rec!StoppedMeansFlushed
  <2> SUFFICES ASSUME RecorderIInv, rec_caller = "stopped" PROVE file = rec_accepted
    BY DEF Rec!StoppedMeansFlushed
  <2>1. PICK left \in Seq(Events) : LeftIs(left)
    BY DEF RecorderIInv, RecorderInv
  <2>2. rec_task \in {"absent", "returned"} /\ rec_queue = <<>> /\ batch = <<>>
    BY <2>1 DEF LeftIs
  <2>3. left = <<>>
    BY <2>1, <2>2 DEF LeftIs
  <2>4. rec_accepted = file \o <<>> \o <<>> /\ file \in Seq(Events)
    BY <2>1, <2>2, <2>3 DEF LeftIs, RecorderIInv, Rec!TypeOK
  <2> QED
    BY <2>4
<1> QED
  BY <1>1, RecorderInvariant, PTL

\* The recorder, with its batches, its flush interval and its appends that raise half
\* way, is the abstract log too.
THEOREM RecorderIsWriteLog == Rec!Spec => Rec!ImplementsWriteLog
<1>1. Rec!Init => Rec!Log!Init
  BY DEF Rec!Init, Rec!Log!Init
<1>2. RecorderIInv /\ [Rec!Next]_Rec!vars => [Rec!Log!Next]_Rec!Log!vars
  <2> SUFFICES ASSUME RecorderIInv, [Rec!Next]_Rec!vars PROVE [Rec!Log!Next]_Rec!Log!vars
    OBVIOUS
  <2> USE DEF Rec!Log!Next, Rec!Log!vars, Rec!Log!Accept, Rec!Log!Drop, Rec!Log!Store
  <2>1. CASE Rec!Record
    BY <2>1 DEF Rec!Record
  <2>2. CASE Rec!Appended \/ Rec!AppendRaises
    <3>1. PICK left \in Seq(Events) : LeftIs(left)
      BY DEF RecorderIInv, RecorderInv
    <3>2. /\ rec_task \in {"flushing", "closing"} /\ UNCHANGED <<rec_accepted, rec_dropped>>
          /\ \E n \in 0..Len(batch) : file' = file \o SubSeq(batch, 1, n)
      <4>1. batch \in Seq(Events)
        BY DEF RecorderIInv, Rec!TypeOK
      <4>2. SubSeq(batch, 1, Len(batch)) = batch /\ Len(batch) \in 0..Len(batch)
        BY <4>1
      <4> QED
        BY <2>2, <4>2 DEF Rec!Appended, Rec!AppendRaises
    <3>3. PICK n \in 0..Len(batch) : file' = file \o SubSeq(batch, 1, n)
      BY <3>2, SMTT(30)
    <3>4. /\ file \in Seq(Events) /\ batch \in Seq(Events) /\ left \in Seq(Events)
          /\ rec_accepted = file \o batch \o left
      BY <3>1, <3>2 DEF RecorderIInv, Rec!TypeOK, LeftIs
    <3>5. CASE n = 0
      <4>1. file' = file
        BY <3>3, <3>4, <3>5
      <4> QED
        BY <3>2, <4>1
    <3>6. CASE n # 0
      <4>1. SubSeq(file \o batch \o left, 1, Len(file) + n) = file \o SubSeq(batch, 1, n)
        BY <3>3, <3>4
      <4>2. Len(file) + n \in (Len(file) + 1)..Len(file \o batch \o left)
        BY <3>3, <3>4, <3>6
      <4> QED
        BY <3>2, <3>3, <3>4, <4>1, <4>2
    <3> QED
      BY <3>5, <3>6
  <2>3. CASE Rec!Gather \/ Rec!FlushTimeout \/ Rec!GatherStop \/ Rec!Caller \/ UNCHANGED Rec!vars
    BY <2>3 DEF Rec!Gather, Rec!FlushTimeout, Rec!GatherStop, Rec!Caller, Rec!Start,
                Rec!StopBegins, Rec!PutStop, Rec!TaskAwaited, Rec!vars
  <2> QED
    BY <2>1, <2>2, <2>3 DEF Rec!Next, Rec!Worker
<1> QED
  BY <1>1, <1>2, RecorderInvariant, PTL DEF Rec!Spec, Rec!ImplementsWriteLog, Rec!Log!Spec

-----------------------------------------------------------------------------
(***************************************************************************)
(* The shutdown                                                            *)
(***************************************************************************)

\* The actions of Lifecycle are those of its two components, so what is proved of
\* either holds here.
LEMMA LifecycleOfComponents == LifeSpec => Spec /\ Rec!Spec
<1>1. LifeInit => Init /\ Rec!Init
  BY DEF LifeInit
<1>2. [LifeNext]_lifeVars => [Next]_vars /\ [Rec!Next]_Rec!vars
  <2> SUFFICES ASSUME [LifeNext]_lifeVars PROVE [Next]_vars /\ [Rec!Next]_Rec!vars
    OBVIOUS
  <2> USE DEF Next, Worker, Caller, Rec!Next, Rec!Worker, Rec!Caller
  <2>1. UNCHANGED recorder => UNCHANGED Rec!vars
    BY DEF recorder, Rec!vars
  <2>2. CASE Run
    BY <2>1, <2>2 DEF Run, RunStarts, Greeted, RecorderStops, WriterStops, Close
  <2>3. CASE Submits \/ Records \/ GatherEnds \/ Interrupted
    BY <2>1, <2>3 DEF Submits, Records, GatherEnds, Interrupted
  <2>4. CASE WriterTask \/ RecorderTask
    BY <2>1, <2>4 DEF WriterTask, RecorderTask
  <2>5. CASE UNCHANGED lifeVars
    BY <2>1, <2>5 DEF lifeVars
  <2> QED
    BY <2>2, <2>3, <2>4, <2>5 DEF LifeNext
<1> QED
  BY <1>1, <1>2, PTL DEF LifeSpec, Spec, Rec!Spec

\* What the finally has done so far: the writer is stopped after the recorder, and the
\* connection is closed after both.
LifeInv ==
    /\ run \in {"new", "starting", "running", "stopping", "ended"}
    /\ open \in BOOLEAN
    /\ caller \notin {"new", "running"} => rec_caller = "stopped"
    /\ ~open => caller = "stopped"

LEMMA LifeInvariant == LifeSpec => []LifeInv
<1>1. LifeInit => LifeInv
  BY DEF LifeInit, LifeInv, Init, Rec!Init
<1>2. LifeInv /\ [LifeNext]_lifeVars => LifeInv'
  <2> SUFFICES ASSUME LifeInv, [LifeNext]_lifeVars PROVE LifeInv'
    OBVIOUS
  <2> USE DEF LifeInv, vars, recorder
  <2>1. CASE RunStarts
    BY <2>1 DEF RunStarts, Start, Rec!Start
  <2>2. CASE Greeted \/ Close \/ Interrupted
    BY <2>2 DEF Greeted, Close, Interrupted
  <2>3. CASE RecorderStops
    BY <2>3 DEF RecorderStops, Rec!PutStop, Rec!TaskAwaited
  <2>4. CASE WriterStops
    BY <2>4 DEF WriterStops, StopBegins, Joined, PutStop, TaskAwaited
  <2>5. CASE Submits \/ Records \/ GatherEnds
    BY <2>5 DEF Submits, Submit, Records, Rec!Record, GatherEnds, Rec!StopBegins
  <2>6. CASE WriterTask
    BY <2>6 DEF WriterTask, Take, Written, WriteRaises
  <2>7. CASE RecorderTask
    BY <2>7 DEF RecorderTask, Rec!Gather, Rec!FlushTimeout, Rec!GatherStop, Rec!Appended, Rec!AppendRaises
  <2>8. CASE UNCHANGED lifeVars
    BY <2>8 DEF lifeVars
  <2> QED
    BY <2>1, <2>2, <2>3, <2>4, <2>5, <2>6, <2>7, <2>8 DEF LifeNext, Run
<1> QED
  BY <1>1, <1>2, PTL DEF LifeSpec

\* The invariants of the components hold in their composition.
LEMMA ComponentInvariants == LifeSpec => [](WriterIInv /\ RecorderIInv)
<1> QED
  BY LifecycleOfComponents, WriterInvariant, RecorderInvariant, PTL

\* Type correctness of the shutdown and of both components in it.
THEOREM LifecycleTypeCorrect == LifeSpec => []LifeTypeOK
<1>1. WriterIInv /\ RecorderIInv /\ LifeInv => LifeTypeOK
  BY DEF WriterIInv, RecorderIInv, LifeInv, LifeTypeOK
<1> QED
  BY <1>1, LifeInvariant, ComponentInvariants, PTL

\* No write is lost without trace, through start, run, shutdown and interrupts.
THEOREM LifecycleKeepsAll == LifeSpec => []NothingVanishes
<1> QED
  BY LifecycleOfComponents, WriterKeepsAll, PTL

\* The connection is closed only over a complete table and a complete file.
THEOREM ClosedOverComplete == LifeSpec => []ClosedIsComplete
<1>1. StoppedMeansStored /\ Rec!StoppedMeansFlushed /\ LifeInv => ClosedIsComplete
  BY DEF LifeInv, ClosedIsComplete
<1> QED
  BY <1>1, LifeInvariant, LifecycleOfComponents, WriterStoppedIsStored,
     RecorderStoppedIsFlushed, PTL

\* Both queues are the abstract log in the program they are part of.
THEOREM LifecycleIsWriteLogs == LifeSpec => ImplementsWriteLog /\ RecorderImplementsWriteLog
<1> QED
  BY LifecycleOfComponents, WriterIsWriteLog, RecorderIsWriteLog, PTL
  DEF RecorderImplementsWriteLog
=============================================================================
