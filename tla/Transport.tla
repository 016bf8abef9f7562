----------------------------- MODULE Transport -----------------------------
(***************************************************************************)
(* The transport of semlog (src/src/semlog/_transport.py) in steady state: *)
(* application threads put finished lines into the bounded queue of a      *)
(* SemlogQueueHandler, one Writer thread, started by the first emit, takes *)
(* them out and writes them to stdout, and flush() waits for a marker that *)
(* travels through the same queue.                                         *)
(*                                                                         *)
(* Every object that install() can make anew is indexed, so that Lifecycle *)
(* extends this module with install(), fork and shutdown: a pipeline is    *)
(* one SemlogQueueHandler with its queue and its counters, a writer is one *)
(* Writer object.  Here one pipeline is installed and stays installed.     *)
(*                                                                         *)
(* Granularity: CPython switches threads only around calls, so a step goes *)
(* from one call that can block or be overtaken to the next; in particular *)
(* "counters.dropped += 1" is one step, as on every build with a GIL.      *)
(***************************************************************************)
EXTENDS Integers, Sequences, FiniteSets

CONSTANTS
  Producers,   \* application threads that log
  Flushers,    \* application threads that call flush()
  Pipelines,   \* SemlogQueueHandler objects
  Writers,     \* Writer objects
  None,        \* the Python value None
  QueueSize,   \* queue_size of configure()
  Overflow,    \* overflow of configure(): "block" or "drop"
  Levels,      \* [Producers -> severities it logs]: "low" is below WARNING
  Quota,       \* bound: records each producer logs
  FlushQuota,  \* bound: calls of flush() by each flusher
  Faults       \* what may raise: "prepare", "stream", "start"

ASSUME ConstantsAssumption ==
  /\ IsFiniteSet(Producers)            \* a process has finitely many threads
  /\ QueueSize \in Nat \ {0}           \* _config.py:102
  /\ Overflow \in {"block", "drop"}    \* _config.py:100
  /\ Levels \in [Producers -> SUBSET {"low", "high"}]
  /\ Quota \in Nat
  /\ FlushQuota \in Nat
  /\ Faults \subseteq {"prepare", "stream", "start"}
  /\ None \notin Producers \cup Flushers \cup Pipelines \cup Writers
  /\ Producers \cap Flushers = {}

VARIABLES
  handler,     \* _state.handler
  writer,      \* _state.writer
  root,        \* the semlog handler in the root logger's list
  queue,       \* [Pipelines -> Seq(Item)]: handler.queue
  started,     \* [Pipelines -> BOOLEAN]: handler._started
  startLock,   \* [Pipelines -> owner of handler._start_lock, or None]
  dropped,     \* [Pipelines -> Nat]: handler.counters.dropped
  wpc,         \* [Writers -> where the writer is]
  wqueue,      \* [Writers -> the pipeline whose queue it serves]
  hand,        \* [Writers -> the item it has dequeued, or None]
  reported,    \* [Writers -> Nat]: writer._reported
  ppc,         \* [Producers -> where the emit is]
  via,         \* [Producers -> the handler its record was dispatched to]
  level,       \* [Producers -> severity of the record]
  left,        \* [Producers -> records it may still log]
  fpc,         \* [Flushers -> where the flush is]
  fon,         \* [Flushers -> the pipeline flush() read from _state]
  fwriter,     \* [Flushers -> the writer flush() read from _state]
  timed,       \* [Flushers -> BOOLEAN]: was a timeout given?
  calls,       \* [Flushers -> calls of flush() so far]
  released,    \* markers (caller, call) that have been set
  stream,      \* everything written to the stream, in order
  flushed,     \* how much of it has left the process's buffer
  broken,      \* history: has an operation of the stream failed?
  tickets,     \* history: [Pipelines -> lines ever put into the queue]
  logged,      \* history: [Pipelines -> records given to it, but for raising emits]
  before       \* history: [Flushers -> tickets when flush() was called]

stateVars    == <<handler, writer, root>>
pipeVars     == <<queue, started, startLock, dropped, tickets, logged>>
writerVars   == <<wpc, wqueue, hand, reported>>
producerVars == <<ppc, via, level, left>>
flushVars    == <<fpc, fon, fwriter, timed, calls, before>>
sinkVars     == <<released, stream, flushed, broken>>
vars == <<stateVars, pipeVars, writerVars, producerVars, flushVars, sinkVars>>

-----------------------------------------------------------------------------
(* What travels through a queue, and what reaches the stream.  A line is   *)
(* known by its ticket: the how-manieth line of its pipeline it is.        *)

Line(h, p) == [kind |-> "line", by |-> p, n |-> tickets[h] + 1, level |-> level[p]]
Marker(f)  == [kind |-> "marker", by |-> f, n |-> calls[f], level |-> "high"]
WrongSentinel == [kind |-> "marker", by |-> None, n |-> 0, level |-> "high"]
Sentinel   == [kind |-> "sentinel", by |-> None, n |-> 0, level |-> "high"]

Item  == [kind : {"line", "marker", "sentinel"},
          by : Producers \cup Flushers \cup {None}, n : Nat,
          level : {"low", "high"}]
Entry == [kind : {"line", "note"}, on : Pipelines, n : Nat]

\* _writer_alive(): the thread exists and has not ended.
Alive(w) == wpc[w] \in {"get", "handle", "empty"}

\* Where emit's drop policy stops records below WARNING: ceil(0.9 * maxsize),
\* and where it stops the others.
Reserve == (9 * QueueSize + 9) \div 10
WrongThreshold(l) == QueueSize
Threshold(l) == IF l = "high" THEN QueueSize ELSE Reserve

-----------------------------------------------------------------------------
(* The small operations the steps are made of.  The ones named Wrong are  *)
(* mistakes that the properties must notice; no step uses them.            *)

\* queue.put(item)
WrongPush(h, item) ==  \* a deque(maxlen): full, it lets go of its oldest item
  IF Len(queue[h]) + 1 < QueueSize
  THEN Append(queue[h], item) ELSE Append(Tail(queue[h]), item)
Push(h, item) == Append(queue[h], item)

\* queue.get()
WrongRest(h) == queue[h]
Rest(h) == Tail(queue[h])

\* self.counters.dropped += 1
WrongCounted(h) == dropped
Counted(h) == [dropped EXCEPT ![h] = @ + 1]

\* stream.flush(): nothing stays in the buffer.
WrongFlushed == flushed
Flushed == Len(stream)

\* The drops that the next notice reports.
WrongDelta(w) == reported[w] - dropped[wqueue[w]]
WrongDeltaTotal(w) == dropped[wqueue[w]]
Delta(w) == dropped[wqueue[w]] - reported[w]

\* The end of "with self._start_lock".
Unlocked(h) == [startLock EXCEPT ![h] = None]

\* record.set(), on the marker in the writer's hand.
Released(w) == released \cup {<<hand[w].by, hand[w].n>>}

\* The look at _started under the lock.
WrongSecondLook(h) == TRUE
SecondLook(h) == ~ started[h]

-----------------------------------------------------------------------------
Init ==
  /\ handler \in Pipelines
  /\ root = handler
  /\ writer = None
  /\ queue = [h \in Pipelines |-> <<>>]
  /\ started = [h \in Pipelines |-> FALSE]
  /\ startLock = [h \in Pipelines |-> None]
  /\ dropped = [h \in Pipelines |-> 0]
  /\ tickets = [h \in Pipelines |-> 0]
  /\ logged = [h \in Pipelines |-> 0]
  /\ wpc = [w \in Writers |-> "unmade"]
  /\ wqueue = [w \in Writers |-> None]
  /\ hand = [w \in Writers |-> None]
  /\ reported = [w \in Writers |-> 0]
  /\ ppc = [p \in Producers |-> "idle"]
  /\ via = [p \in Producers |-> None]
  /\ level = [p \in Producers |-> "low"]
  /\ left = [p \in Producers |-> Quota]
  /\ fpc = [f \in Flushers |-> "idle"]
  /\ fon = [f \in Flushers |-> None]
  /\ fwriter = [f \in Flushers |-> None]
  /\ timed = [f \in Flushers |-> FALSE]
  /\ calls = [f \in Flushers |-> 0]
  /\ before = [f \in Flushers |-> 0]
  /\ released = {}
  /\ stream = <<>>
  /\ flushed = 0
  /\ broken = FALSE

-----------------------------------------------------------------------------
(* SemlogQueueHandler.emit, by thread p.                                   *)

Goto(p, there) == ppc' = [ppc EXCEPT ![p] = there]

\* Logger.callHandlers finds the semlog handler on root and calls handle().
Dispatch(p) ==
  /\ ppc[p] = "idle"
  /\ left[p] > 0
  /\ root \in Pipelines
  /\ left' = [left EXCEPT ![p] = @ - 1]
  /\ via' = [via EXCEPT ![p] = root]
  /\ \E l \in Levels[p] : level' = [level EXCEPT ![p] = l]
  /\ logged' = [logged EXCEPT ![root] = @ + 1]
  /\ Goto(p, "emit")
  /\ UNCHANGED <<stateVars, queue, started, startLock, dropped, tickets,
                 writerVars, flushVars, sinkVars>>

\* The unlocked look at _started.
SeeStarted(p) ==
  /\ ppc[p] = "emit"
  /\ Goto(p, IF started[via[p]] THEN "prepare" ELSE "lock")
  /\ UNCHANGED <<stateVars, pipeVars, writerVars, via, level, left,
                 flushVars, sinkVars>>

\* Another thread was first: the second look, under the lock, finds _started.
StartedMeanwhile(p) ==
  /\ ppc[p] = "lock"
  /\ startLock[via[p]] = None
  /\ started[via[p]]
  /\ Goto(p, "prepare")
  /\ UNCHANGED <<stateVars, pipeVars, writerVars, via, level, left,
                 flushVars, sinkVars>>

\* This thread is first: it sets _started and keeps the lock.
ClaimStart(p) ==
  /\ ppc[p] = "lock"
  /\ startLock[via[p]] = None
  /\ SecondLook(via[p])
  /\ startLock' = [startLock EXCEPT ![via[p]] = p]
  /\ started' = [started EXCEPT ![via[p]] = TRUE]
  /\ Goto(p, "create")
  /\ UNCHANGED <<stateVars, queue, dropped, tickets, logged, writerVars,
                 via, level, left, flushVars, sinkVars>>

\* _start_writer, up to the call of start(): a Writer for the queue of
\* _state.handler, whichever handler is emitting.
NewWriter(w) ==
  /\ handler \in Pipelines
  /\ wpc[w] = "unmade"
  /\ wpc' = [wpc EXCEPT ![w] = "made"]
  /\ wqueue' = [wqueue EXCEPT ![w] = handler]
  /\ reported' = [reported EXCEPT ![w] = 0]
  /\ writer' = w

CreateWriter(p) ==
  /\ ppc[p] = "create"
  /\ \E w \in Writers : NewWriter(w)
  /\ Goto(p, "launch")
  /\ UNCHANGED <<handler, root, pipeVars, hand, via, level, left, flushVars,
                 sinkVars>>

\* _state.writer.start() returns once the thread runs; emit leaves the lock.
LaunchWriter(p) ==
  /\ ppc[p] = "launch"
  /\ writer # None
  /\ wpc[writer] = "made"
  /\ wpc' = [wpc EXCEPT ![writer] = "get"]
  /\ startLock' = Unlocked(via[p])
  /\ Goto(p, "prepare")
  /\ UNCHANGED <<stateVars, queue, started, dropped, tickets, logged, wqueue,
                 hand, reported, via, level, left, flushVars, sinkVars>>

\* Thread.start() raises ("can't start new thread"): the exception leaves the
\* lock and emit; _started stays set and the record is gone.
LaunchFails(p) ==
  /\ "start" \in Faults
  /\ ppc[p] = "launch"
  /\ startLock' = Unlocked(via[p])
  /\ logged' = [logged EXCEPT ![via[p]] = @ - 1]
  /\ Goto(p, "idle")
  /\ UNCHANGED <<stateVars, queue, started, dropped, tickets, writerVars, via,
                 level, left, flushVars, sinkVars>>

\* prepare() formats the record; then the overflow policy decides.
Prepare(p) ==
  /\ ppc[p] = "prepare"
  /\ Goto(p, IF Overflow = "block" THEN "put" ELSE "room")
  /\ UNCHANGED <<stateVars, pipeVars, writerVars, via, level, left,
                 flushVars, sinkVars>>

\* Formatting raises (a strict catalog, a failing __str__): counted, swallowed.
PrepareFails(p) ==
  /\ "prepare" \in Faults
  /\ ppc[p] = "prepare"
  /\ dropped' = Counted(via[p])
  /\ Goto(p, "idle")
  /\ UNCHANGED <<stateVars, queue, started, startLock, tickets, logged,
                 writerVars, via, level, left, flushVars, sinkVars>>

\* queue.put under "block", and put_nowait with room under "drop".
Enqueue(p) ==
  /\ ppc[p] \in {"put", "offer"}
  /\ Len(queue[via[p]]) < QueueSize
  /\ queue' = [queue EXCEPT ![via[p]] = Push(via[p], Line(via[p], p))]
  /\ tickets' = [tickets EXCEPT ![via[p]] = @ + 1]
  /\ Goto(p, "idle")
  /\ UNCHANGED <<stateVars, started, startLock, dropped, logged, writerVars,
                 via, level, left, flushVars, sinkVars>>

\* "drop" looks at qsize() ...
CheckRoom(p) ==
  /\ ppc[p] = "room"
  /\ Goto(p, IF Len(queue[via[p]]) >= Threshold(level[p]) THEN "drop" ELSE "offer")
  /\ UNCHANGED <<stateVars, pipeVars, writerVars, via, level, left,
                 flushVars, sinkVars>>

\* ... and put_nowait may find the queue full after all.
OfferFull(p) ==
  /\ ppc[p] = "offer"
  /\ Len(queue[via[p]]) = QueueSize
  /\ Goto(p, "drop")
  /\ UNCHANGED <<stateVars, pipeVars, writerVars, via, level, left,
                 flushVars, sinkVars>>

CountDrop(p) ==
  /\ ppc[p] = "drop"
  /\ dropped' = Counted(via[p])
  /\ Goto(p, "idle")
  /\ UNCHANGED <<stateVars, queue, started, startLock, tickets, logged,
                 writerVars, via, level, left, flushVars, sinkVars>>

Emit(p) ==
  \/ Dispatch(p) \/ SeeStarted(p) \/ StartedMeanwhile(p) \/ ClaimStart(p)
  \/ CreateWriter(p) \/ LaunchWriter(p) \/ LaunchFails(p)
  \/ Prepare(p) \/ PrepareFails(p)
  \/ Enqueue(p) \/ CheckRoom(p) \/ OfferFull(p) \/ CountDrop(p)

-----------------------------------------------------------------------------
(* The writer thread: QueueListener._monitor and Writer.handle.            *)

\* dequeue(), and the comparison with the sentinel that ends the thread.
Take(w) ==
  LET q == queue[wqueue[w]] IN
  /\ wpc[w] = "get"
  /\ q # <<>>
  /\ queue' = [queue EXCEPT ![wqueue[w]] = Rest(wqueue[w])]
  /\ IF Head(q).kind = "sentinel"
     THEN wpc' = [wpc EXCEPT ![w] = "dead"] /\ UNCHANGED hand
     ELSE wpc' = [wpc EXCEPT ![w] = "handle"] /\ hand' = [hand EXCEPT ![w] = Head(q)]
  /\ UNCHANGED <<stateVars, started, startLock, dropped, tickets, logged,
                 wqueue, reported, producerVars, flushVars, sinkVars>>

\* A marker: flush the stream as best one can, then release the caller.
HandleMarker(w) ==
  /\ wpc[w] = "handle"
  /\ hand[w].kind = "marker"
  /\ \/ flushed' = Flushed /\ UNCHANGED broken
     \/ "stream" \in Faults /\ UNCHANGED flushed /\ broken' = TRUE
  /\ released' = Released(w)
  /\ hand' = [hand EXCEPT ![w] = None]
  /\ wpc' = [wpc EXCEPT ![w] = "get"]
  /\ UNCHANGED <<stateVars, pipeVars, wqueue, reported, producerVars,
                 flushVars, stream>>

\* A line: write it, then _report_drops.  The buffer may spill what it held
\* before the line; a notice ends with a flush; a notice that cannot be
\* written is forgotten, because _reported has moved already.
WriteLine(w) ==
  LET h == wqueue[w]
      written == Append(stream, [kind |-> "line", on |-> h, n |-> hand[w].n])
      notice == [kind |-> "note", on |-> h, n |-> Delta(w)]
  IN
  /\ wpc[w] = "handle"
  /\ hand[w].kind = "line"
  /\ \/ /\ Delta(w) # 0
        /\ stream' = Append(written, notice)
        /\ flushed' = Len(stream')
        /\ UNCHANGED broken
     \/ /\ Delta(w) = 0
        /\ stream' = written
        /\ flushed' \in {flushed, Len(stream)}
        /\ UNCHANGED broken
     \/ /\ Delta(w) # 0 /\ "stream" \in Faults
        /\ stream' \in {written, Append(written, notice)}
        /\ flushed' \in {flushed, Len(stream)}
        /\ broken' = TRUE
  /\ reported' = [reported EXCEPT ![w] = dropped[h]]
  /\ hand' = [hand EXCEPT ![w] = None]
  /\ wpc' = [wpc EXCEPT ![w] = "empty"]
  /\ UNCHANGED <<stateVars, pipeVars, wqueue, producerVars, flushVars, released>>

\* No stream, or write() raises: the line is lost and counted.
WriteFails(w) ==
  /\ "stream" \in Faults
  /\ wpc[w] = "handle"
  /\ hand[w].kind = "line"
  /\ dropped' = Counted(wqueue[w])
  /\ broken' = TRUE
  /\ hand' = [hand EXCEPT ![w] = None]
  /\ wpc' = [wpc EXCEPT ![w] = "get"]
  /\ UNCHANGED <<stateVars, queue, started, startLock, tickets, logged, wqueue,
                 reported, producerVars, flushVars, released, stream, flushed>>

\* "if self.queue.empty(): stream.flush()"
FlushIfEmpty(w) ==
  /\ wpc[w] = "empty"
  /\ flushed' = IF queue[wqueue[w]] = <<>> THEN Flushed ELSE flushed
  /\ wpc' = [wpc EXCEPT ![w] = "get"]
  /\ UNCHANGED <<stateVars, pipeVars, wqueue, hand, reported, producerVars,
                 flushVars, released, stream, broken>>

\* That flush raises: a line that was written is counted as dropped.
FlushFails(w) ==
  /\ "stream" \in Faults
  /\ wpc[w] = "empty"
  /\ queue[wqueue[w]] = <<>>
  /\ dropped' = Counted(wqueue[w])
  /\ broken' = TRUE
  /\ wpc' = [wpc EXCEPT ![w] = "get"]
  /\ UNCHANGED <<stateVars, queue, started, startLock, tickets, logged, wqueue,
                 hand, reported, producerVars, flushVars, released, stream, flushed>>

Write(w) == \/ Take(w) \/ HandleMarker(w) \/ WriteLine(w) \/ WriteFails(w)
            \/ FlushIfEmpty(w) \/ FlushFails(w)

-----------------------------------------------------------------------------
(* flush(timeout), by thread f.                                            *)

\* With no handler of ours, no writer or a dead one, flush returns at once
\* and changes nothing; otherwise it makes a marker.
StartFlush(f, timeout) ==
  /\ fpc[f] = "idle"
  /\ handler \in Pipelines
  /\ writer # None
  /\ Alive(writer)
  /\ fpc' = [fpc EXCEPT ![f] = "mark"]
  /\ fon' = [fon EXCEPT ![f] = handler]
  /\ fwriter' = [fwriter EXCEPT ![f] = writer]
  /\ timed' = [timed EXCEPT ![f] = timeout]
  /\ calls' = [calls EXCEPT ![f] = @ + 1]
  /\ before' = [before EXCEPT ![f] = tickets[handler]]
  /\ UNCHANGED <<stateVars, pipeVars, writerVars, producerVars, sinkVars>>

FlushCall(f) ==
  /\ calls[f] < FlushQuota
  /\ \E timeout \in BOOLEAN : StartFlush(f, timeout)

PutMarker(f) ==
  /\ fpc[f] = "mark"
  /\ Len(queue[fon[f]]) < QueueSize
  /\ queue' = [queue EXCEPT ![fon[f]] = Push(fon[f], Marker(f))]
  /\ fpc' = [fpc EXCEPT ![f] = "wait"]
  /\ UNCHANGED <<stateVars, started, startLock, dropped, tickets, logged,
                 writerVars, producerVars, fon, fwriter, timed, calls, before,
                 sinkVars>>

\* marker.wait() returns True.
FlushReleased(f) ==
  /\ fpc[f] = "wait"
  /\ <<f, calls[f]>> \in released
  /\ fpc' = [fpc EXCEPT ![f] = "idle"]
  /\ UNCHANGED <<stateVars, pipeVars, writerVars, producerVars, fon, fwriter,
                 timed, calls, before, sinkVars>>

\* The deadline passes: while the queue stays full, or between two slices.
FlushTimesOut(f) ==
  /\ timed[f]
  /\ \/ fpc[f] = "mark" /\ Len(queue[fon[f]]) = QueueSize
     \/ fpc[f] = "wait"
  /\ fpc' = [fpc EXCEPT ![f] = "idle"]
  /\ UNCHANGED <<stateVars, pipeVars, writerVars, producerVars, fon, fwriter,
                 timed, calls, before, sinkVars>>

\* (That the writer turns out dead while flush waits is in Lifecycle, where
\* writers end.)
Flush(f) == \/ FlushCall(f) \/ PutMarker(f) \/ FlushReleased(f)
            \/ FlushTimesOut(f)

-----------------------------------------------------------------------------
\* Every thread has done what it may do: the bounds end the run, not the code.
Quiet ==
  /\ \A p \in Producers : ppc[p] = "idle" /\ left[p] = 0
  /\ \A f \in Flushers : fpc[f] = "idle"
  /\ \A w \in Writers : Alive(w) => wpc[w] = "get" /\ queue[wqueue[w]] = <<>>

Finished == Quiet /\ UNCHANGED vars

Next == \/ \E p \in Producers : Emit(p)
        \/ \E w \in Writers : Write(w)
        \/ \E f \in Flushers : Flush(f)
        \/ Finished

Spec == Init /\ [][Next]_vars

\* The operating system runs every runnable thread; nothing else is assumed.
\* FlushCall and Dispatch stay free: nobody has to call flush() or to log.
Fairness ==
  /\ \A w \in Writers : WF_vars(Write(w))
  /\ \A p \in Producers : WF_vars(ppc[p] # "idle" /\ Emit(p))
  /\ \A f \in Flushers : WF_vars(fpc[f] # "idle" /\ Flush(f))

FairSpec == Spec /\ Fairness

-----------------------------------------------------------------------------
(* What the properties talk about.                                         *)

QueuedLines(h)  == {i \in DOMAIN queue[h] : queue[h][i].kind = "line"}
QueuedTickets(h) == {queue[h][i].n : i \in QueuedLines(h)}
HeldTickets(h)  == {hand[w].n : w \in {v \in Writers :
                       wqueue[v] = h /\ wpc[v] = "handle" /\ hand[v].kind = "line"}}
WrittenUpTo(h, k) == {stream[i].n : i \in {j \in 1 .. k :
                       stream[j].kind = "line" /\ stream[j].on = h}}
WrittenTickets(h) == WrittenUpTo(h, Len(stream))
DurableTickets(h) == WrittenUpTo(h, flushed)

\* The sum of the records_dropped notices of pipeline h.
Notice(e, h) == IF e.kind = "note" /\ e.on = h THEN e.n ELSE 0
NoticesIn(s, h) ==
  LET total[i \in 0 .. Len(s)] ==
        IF i = 0 THEN 0 ELSE total[i - 1] + Notice(s[i], h)
  IN  total[Len(s)]
NoticeTotal(h) == NoticesIn(stream, h)

InEmit(h) == {p \in Producers : via[p] = h /\ ppc[p] # "idle"}

StateTypeOK ==
  handler \in Pipelines /\ root \in Pipelines /\ writer \in Writers \cup {None}
PipeTypeOK ==
  /\ queue \in [Pipelines -> Seq(Item)]
  /\ started \in [Pipelines -> BOOLEAN]
  /\ startLock \in [Pipelines -> Producers \cup {None}]
  /\ dropped \in [Pipelines -> Nat]
  /\ tickets \in [Pipelines -> Nat]
  /\ logged \in [Pipelines -> Int]
WriterTypeOK ==
  /\ wpc \in [Writers -> {"unmade", "made", "get", "handle", "empty", "dead"}]
  /\ wqueue \in [Writers -> Pipelines \cup {None}]
  /\ hand \in [Writers -> Item \cup {None}]
  /\ reported \in [Writers -> Nat]
ProducerTypeOK ==
  /\ ppc \in [Producers -> {"idle", "emit", "lock", "create", "launch",
                            "prepare", "put", "room", "offer", "drop"}]
  /\ via \in [Producers -> Pipelines \cup {None}]
  /\ level \in [Producers -> {"low", "high"}]
  /\ left \in [Producers -> Nat]
FlushTypeOK ==
  /\ fpc \in [Flushers -> {"idle", "mark", "wait"}]
  /\ fon \in [Flushers -> Pipelines \cup {None}]
  /\ fwriter \in [Flushers -> Writers \cup {None}]
  /\ timed \in [Flushers -> BOOLEAN]
  /\ calls \in [Flushers -> Nat]
  /\ before \in [Flushers -> Nat]
SinkTypeOK ==
  /\ released \in SUBSET ((Producers \cup Flushers \cup {None}) \X Nat)
  /\ stream \in Seq(Entry)
  /\ flushed \in 0 .. Len(stream)
  /\ broken \in BOOLEAN

\* Every variable has its type.
TypeOK == /\ StateTypeOK /\ PipeTypeOK /\ WriterTypeOK
          /\ ProducerTypeOK /\ FlushTypeOK /\ SinkTypeOK

\* What a thread or a writer uses in a step was given to it by an earlier one.
EmitShape ==
  \A p \in Producers :
    /\ ppc[p] # "idle" => via[p] = handler
    /\ ppc[p] \in {"create", "launch"} => startLock[handler] = p
    /\ ppc[p] = "launch" => writer \in Writers /\ wpc[writer] = "made"
WriterShape ==
  \A w \in Writers :
    /\ wpc[w] # "unmade" => wqueue[w] = handler /\ reported[w] <= dropped[handler]
    /\ wpc[w] = "handle" => hand[w] \in Item /\ hand[w].kind # "sentinel"
FlushShape ==
  /\ writer # None => wpc[writer] # "unmade"
  /\ \A f \in Flushers :
       fpc[f] # "idle" => fon[f] = handler /\ fwriter[f] \in Writers
Shape == root = handler /\ EmitShape /\ WriterShape /\ FlushShape

\* LP-003: however many threads log their first record at once, a queue is
\* never served by two Writer objects (emit's double-checked start lock).
OneWriter ==
  \A v, w \in Writers :
    wpc[v] # "unmade" /\ wpc[w] # "unmade" /\ wqueue[v] = wqueue[w] => v = w

\* Why OneWriter is inductive: a queue without a started flag has no writer, and
\* the thread that is about to make one holds the lock and is the first.
FirstWriter ==
  /\ \A h \in Pipelines : ~ started[h] => startLock[h] = None
  /\ \A w \in Writers : wpc[w] # "unmade" =>
       /\ started[wqueue[w]]
       /\ \A p \in Producers : ppc[p] = "create" => wqueue[w] # via[p]

\* LP-009: lines of one pipeline reach the stream in the order in which they
\* entered its queue, and none reaches it twice.
InOrder ==
  \A i, j \in DOMAIN stream :
    i < j /\ stream[i].kind = "line" /\ stream[j].kind = "line"
          /\ stream[i].on = stream[j].on
    => stream[i].n < stream[j].n

\* Why InOrder is inductive: tickets rise along the way out of the queue.  What
\* is written comes before what a writer holds, and that before what is queued.
HoldsLine(w, h) == wpc[w] = "handle" /\ hand[w].kind = "line" /\ wqueue[w] = h
OnStream(k, h) == stream[k].kind = "line" /\ stream[k].on = h
StagedAt(h) ==
  /\ \A i \in QueuedLines(h) : queue[h][i].n <= tickets[h]
  /\ \A i, j \in QueuedLines(h) : i < j => queue[h][i].n < queue[h][j].n
  /\ \A w \in Writers : HoldsLine(w, h) =>
       /\ hand[w].n <= tickets[h]
       /\ \A i \in QueuedLines(h) : hand[w].n < queue[h][i].n
  /\ \A k \in DOMAIN stream : OnStream(k, h) =>
       /\ stream[k].n <= tickets[h]
       /\ \A i \in QueuedLines(h) : stream[k].n < queue[h][i].n
       /\ \A w \in Writers : HoldsLine(w, h) => stream[k].n < hand[w].n
Staged == \A h \in Pipelines : StagedAt(h)

\* flush(): once the marker is set, every line that was in the queue when flush()
\* was called has left the process, not only the queue, as long as the stream works.
FlushCovers ==
  ~ broken =>
    \A f \in Flushers :
      fpc[f] = "wait" /\ <<f, calls[f]>> \in released
      => 1 .. before[f] \subseteq DurableTickets(fon[f])

\* LP-007: every record given to the handler is on its way, written, or
\* counted in counters.dropped, whichever of formatting, policy and stream
\* failed.  (A flush that fails counts a written line too, so not "=".)
NoSilentLoss ==
  \A h \in Pipelines :
    logged[h] <= Cardinality(InEmit(h)) + Cardinality(QueuedLines(h))
                 + Cardinality(HeldTickets(h)) + Cardinality(WrittenTickets(h))
                 + dropped[h]

\* LP-007, the part the code can promise: threads that passed the qsize() check
\* together may push lines below WARNING into the reserved tenth of the queue,
\* but never more of them than there are such threads.
LowLinesBounded ==
  Overflow = "drop" =>
    \A h \in Pipelines :
        Cardinality({i \in QueuedLines(h) : queue[h][i].level = "low"})
      + Cardinality({p \in InEmit(h) : ppc[p] = "offer" /\ level[p] = "low"})
      <= Reserve - 1 + Cardinality(Producers)

\* LP-007: the notices in the stream account for every drop that was counted
\* before the latest line was written, each drop once, as long as the stream works.
NoticesComplete ==
  [][\A h \in Pipelines :
       ~ broken' /\ WrittenTickets(h)' # WrittenTickets(h)
       => NoticeTotal(h)' = dropped[h]]_vars

\* A line in the queue leaves the process in the end, without any flush():
\* the writer flushes when it finds the queue empty.
EventuallyDurable ==
  \A h \in Pipelines : \A n \in 1 .. Quota * Cardinality(Producers) :
    (n <= tickets[h]) ~> (n \in DurableTickets(h))

\* LP-007 "block": a call site that waits for room gets it.
EmitReturns == \A p \in Producers : (ppc[p] # "idle") ~> (ppc[p] = "idle")

\* LP-011: flush() returns, with a timeout and without.
FlushReturns == \A f \in Flushers : (fpc[f] # "idle") ~> (fpc[f] = "idle")

\* Every pipeline is a LogChannel: the queue's slots and the writer's hand are
\* its capacity.
Fate(h) == [n \in 1 .. tickets[h] |->
              IF n \in WrittenTickets(h) THEN "written"
              ELSE IF n \in QueuedTickets(h) \cup HeldTickets(h) THEN "pending"
              ELSE "lost"]
Channel == INSTANCE LogChannel WITH
             Channels <- Pipelines, Capacity <- QueueSize + 1,
             Lossy <- "stream" \in Faults,
             accepted <- tickets, fate <- [h \in Pipelines |-> Fate(h)]
ImplementsChannel == Channel!Spec
ImplementsFairChannel == Channel!FairSpec
=============================================================================
