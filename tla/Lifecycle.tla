----------------------------- MODULE Lifecycle -----------------------------
(***************************************************************************)
(* What the process does to the transport while Transport runs: os.fork()  *)
(* with semlog's three hooks, a further configure() (install and           *)
(* attach_root), and _shutdown at interpreter exit                         *)
(* (src/src/semlog/_transport.py:190-272, 321-341).                        *)
(*                                                                         *)
(* One thread, the Admin, runs these jobs one after the other.  The model  *)
(* follows one process: at a fork it goes on in the parent or in the child.*)
(* A handler or writer that a job makes takes an unused index.             *)
(***************************************************************************)
EXTENDS Transport

CONSTANTS
  Admin,     \* the thread that forks, configures and shuts down
  Direct,    \* the synchronous handler that _shutdown leaves behind
  Jobs,      \* bound: [JobKinds -> how many of them]
  Regime     \* which moments the application chooses for its jobs

JobKinds == {"fork", "install", "shutdown"}

ASSUME LifecycleAssumption ==
  /\ Admin \in Flushers
  /\ Direct \notin Pipelines \cup {None}
  /\ Jobs \in [JobKinds -> Nat]
  /\ Regime \in {"solo", "warm", "free"}
  /\ "start" \notin Faults   \* a failing Thread.start() is left to Transport

VARIABLES
  todo,        \* [JobKinds -> jobs still to come]
  job,         \* the kind of the job being done, or the last one
  jpc,         \* where the job is
  stopping,    \* the writer that the job found, and stops
  wasRunning,  \* _state.was_running
  made,        \* pipelines that exist
  inChild,     \* has the process been forked off?
  goal,        \* history: tickets when the job began
  floor        \* history: tickets when this process was forked off

jobVars  == <<todo, job, jpc, stopping, wasRunning, made, inChild, goal, floor>>
lifeVars == <<vars, jobVars>>

LifeInit ==
  /\ Init
  /\ todo = Jobs
  /\ job = "fork"
  /\ jpc = "idle"
  /\ stopping = None
  /\ wasRunning = FALSE
  /\ made = {handler}
  /\ inChild = FALSE
  /\ goal = [h \in Pipelines |-> 0]
  /\ floor = [h \in Pipelines |-> 0]
-----------------------------------------------------------------------------
(* When a job may begin.  "solo": while no other thread is in emit, and no  *)
(* thread logs until the job is done, as in a program with one thread.      *)
(* "warm": at any moment after the first line of the installed handler has  *)
(* started its writer.  "free": at any moment.                              *)

Moment ==
  /\ Regime = "solo" => \A p \in Producers : ppc[p] = "idle"
  /\ Regime = "warm" => started[handler] /\ startLock[handler] = None

MayLog == Regime = "solo" => jpc = "idle"

Begin(kind) ==
  /\ jpc = "idle"
  /\ handler \in Pipelines     \* nothing is done after _shutdown
  /\ todo[kind] > 0
  /\ Moment
  /\ todo' = [todo EXCEPT ![kind] = @ - 1]
  /\ job' = kind
  /\ stopping' = writer
  /\ goal' = tickets

-----------------------------------------------------------------------------
(* writer.stop(): the sentinel, then join().                               *)

\* The first thing stop() does: enqueue_sentinel asks whether the thread lives,
\* and waits for room only if it does.
CallStop == jpc' = IF Alive(writer) THEN "put" ELSE "force"

AfterStop == CASE job = "fork" -> "fork"
               [] job = "install" -> "swap"
               [] job = "shutdown" -> "redirect"

PutSentinel ==
  LET h == wqueue[stopping] IN
  /\ jpc = "put"
  /\ Len(queue[h]) < QueueSize
  /\ queue' = [queue EXCEPT ![h] = Push(h, Sentinel)]
  /\ jpc' = "join"
  /\ UNCHANGED <<stateVars, started, startLock, dropped, tickets, logged,
                 writerVars, producerVars, flushVars, sinkVars, todo, job,
                 stopping, wasRunning, made, inChild, goal, floor>>

\* No thread runs: older releases of QueueListener leave a sentinel in the queue all
\* the same, and join a thread if one has been started by now; newer ones do nothing.
ForceSentinel ==
  LET h == wqueue[stopping] IN
  /\ jpc = "force"
  /\ \/ UNCHANGED queue /\ jpc' = AfterStop
     \/ /\ Len(queue[h]) < QueueSize
        /\ queue' = [queue EXCEPT ![h] = Push(h, Sentinel)]
        /\ jpc' = "join"
  /\ UNCHANGED <<stateVars, started, startLock, dropped, tickets, logged,
                 writerVars, producerVars, flushVars, sinkVars, todo, job,
                 stopping, wasRunning, made, inChild, goal, floor>>

\* Those older releases, and a full queue: queue.Full ends configure(); a hook and
\* _shutdown carry on.
ForceFull ==
  /\ jpc = "force"
  /\ Len(queue[wqueue[stopping]]) = QueueSize
  /\ jpc' = IF job = "install" THEN "idle" ELSE AfterStop
  /\ UNCHANGED <<vars, todo, job, stopping, wasRunning, made, inChild, goal, floor>>

\* join() returns when the thread has ended.
WrongJoined(w) == TRUE
Joined(w) == ~ Alive(w)

Join ==
  /\ jpc = "join"
  /\ Joined(stopping)
  /\ jpc' = AfterStop
  /\ UNCHANGED <<vars, todo, job, stopping, wasRunning, made, inChild, goal, floor>>

Stop == PutSentinel \/ ForceSentinel \/ ForceFull \/ Join

-----------------------------------------------------------------------------
(* os.fork(): before, then after_in_parent or after_in_child.              *)

\* _state.was_running
WrongRunning == writer = None
Running == writer # None

ForkBegin ==
  /\ Begin("fork")
  /\ wasRunning' = Running
  /\ IF writer # None THEN CallStop ELSE jpc' = "fork"
  /\ UNCHANGED <<vars, made, inChild, floor>>

ParentResumes ==
  /\ jpc = "fork"
  /\ jpc' = IF wasRunning THEN "restart" ELSE "idle"
  /\ UNCHANGED <<vars, todo, job, stopping, wasRunning, made, inChild, goal, floor>>

\* start() on a writer that somebody else has started: newer releases of
\* QueueListener raise, older ones add a thread.  An index of Writers stands for a
\* Writer and the thread it has now: with the new thread, everybody who knows the
\* Writer knows it by another index, but for a join() that has been called.
Renamed(v, w) == IF v = writer THEN w ELSE v

AddThread(w) ==
  /\ wpc[w] = "unmade"
  /\ wpc' = [wpc EXCEPT ![w] = "get"]
  /\ wqueue' = [wqueue EXCEPT ![w] = wqueue[writer]]
  /\ reported' = [reported EXCEPT ![w] = reported[writer]]
  /\ writer' = w
  /\ fwriter' = [f \in Flushers |-> Renamed(fwriter[f], w)]
  /\ stopping' \in {Renamed(stopping, w)} \cup (IF jpc = "join" THEN {stopping} ELSE {})
  /\ UNCHANGED <<handler, root, fpc, fon, timed, calls, before>>

\* _start_writer in the parent, in two steps as in emit.
RestartWriter ==
  /\ jpc = "restart"
  /\ \E w \in Writers : NewWriter(w)
  /\ jpc' = "relaunch"
  /\ UNCHANGED <<handler, root, pipeVars, hand, producerVars, flushVars, sinkVars,
                 todo, job, stopping, wasRunning, made, inChild, goal, floor>>

RelaunchWriter ==
  /\ jpc = "relaunch"
  /\ wpc[writer] = "made"
  /\ wpc' = [wpc EXCEPT ![writer] = "get"]
  /\ jpc' = "idle"
  /\ UNCHANGED <<stateVars, pipeVars, wqueue, hand, reported, producerVars,
                 flushVars, sinkVars, todo, job, stopping, wasRunning, made,
                 inChild, goal, floor>>

\* An emit that was about to start a writer has started this one: an exception out
\* of the hook is only reported.
RelaunchAgain ==
  /\ jpc = "relaunch"
  /\ wpc[writer] # "made"
  /\ jpc' = "idle"
  /\ \/ UNCHANGED <<vars, stopping>>
     \/ /\ \E w \in Writers : AddThread(w)
        /\ UNCHANGED <<pipeVars, hand, producerVars, sinkVars>>
  /\ UNCHANGED <<todo, job, wasRunning, made, inChild, goal, floor>>

\* after_in_child's new queue.Queue
WrongRenewed == queue[handler]
Renewed == <<>>

\* In the child only the Admin's thread exists.  Every other thread is gone where
\* it was, locks stay as they were, and what the parent had not flushed is in the
\* child's buffer too.  The hook renews queue, counters and _started.
ChildResumes ==
  /\ jpc = "fork"
  /\ jpc' = "idle"
  /\ inChild' = TRUE
  /\ floor' = tickets
  /\ queue' = [queue EXCEPT ![handler] = Renewed]
  /\ dropped' = [dropped EXCEPT ![handler] = 0]
  /\ started' = [started EXCEPT ![handler] = FALSE]
  /\ writer' = None
  /\ wasRunning' = FALSE
  /\ wpc' = [w \in Writers |-> IF wpc[w] = "unmade" THEN "unmade" ELSE "dead"]
  /\ ppc' = [p \in Producers |-> "idle"]
  /\ fpc' = [f \in Flushers |-> "idle"]
  /\ logged' = [h \in Pipelines |-> 0]
  /\ stream' = SubSeq(stream, flushed + 1, Len(stream))
  /\ flushed' = 0
  /\ UNCHANGED <<handler, root, startLock, tickets, wqueue, hand, reported, via,
                 level, left, fon, fwriter, timed, calls, before, released,
                 broken, todo, job, stopping, made, goal>>

Fork == \/ ForkBegin \/ ParentResumes \/ RestartWriter \/ RelaunchWriter
        \/ RelaunchAgain \/ ChildResumes

-----------------------------------------------------------------------------
(* configure() once more, in "full" mode with a queue: install(), then     *)
(* attach_root(replace_all=True).                                          *)

InstallBegin ==
  /\ Begin("install")
  /\ IF writer # None THEN CallStop ELSE jpc' = "swap"
  /\ UNCHANGED <<vars, wasRunning, made, inChild, floor>>

InstallHandler ==
  /\ jpc = "swap"
  /\ \E h \in Pipelines \ made : handler' = h /\ made' = made \cup {h}
  /\ writer' = None
  /\ wasRunning' = FALSE
  /\ jpc' = "detach"
  /\ UNCHANGED <<root, pipeVars, writerVars, producerVars, flushVars, sinkVars,
                 todo, job, stopping, inChild, goal, floor>>

DetachRoot ==
  /\ jpc = "detach"
  /\ root' = None
  /\ jpc' = "attach"
  /\ UNCHANGED <<handler, writer, pipeVars, writerVars, producerVars, flushVars,
                 sinkVars, todo, job, stopping, wasRunning, made, inChild, goal,
                 floor>>

AttachRoot ==
  /\ jpc = "attach"
  /\ root' = handler
  /\ jpc' = "idle"
  /\ UNCHANGED <<handler, writer, pipeVars, writerVars, producerVars, flushVars,
                 sinkVars, todo, job, stopping, wasRunning, made, inChild, goal,
                 floor>>

Install == InstallBegin \/ InstallHandler \/ DetachRoot \/ AttachRoot

-----------------------------------------------------------------------------
(* _shutdown, from atexit.                                                 *)

ShutdownBegin ==
  /\ Begin("shutdown")
  /\ \/ writer = None /\ jpc' = "redirect" /\ UNCHANGED vars
     \/ writer # None /\ StartFlush(Admin, TRUE) /\ jpc' = "drain"
     \/ writer # None /\ ~ Alive(writer) /\ jpc' = "drain" /\ UNCHANGED vars
  /\ UNCHANGED <<wasRunning, made, inChild, floor>>

\* flush(timeout=5) has returned, in time or not; _state.writer is read once more.
ShutdownStop ==
  /\ jpc = "drain"
  /\ fpc[Admin] = "idle"
  /\ stopping' = writer
  /\ CallStop
  /\ UNCHANGED <<vars, todo, job, wasRunning, made, inChild, goal, floor>>

\* The handler on root gives way to a direct one ...
RedirectRoot ==
  /\ jpc = "redirect"
  /\ writer' = None
  /\ root' = Direct
  /\ jpc' = "forget"
  /\ UNCHANGED <<handler, pipeVars, writerVars, producerVars, flushVars, sinkVars,
                 todo, job, stopping, wasRunning, made, inChild, goal, floor>>

\* ... and then _state.handler does.
ForgetHandler ==
  /\ jpc = "forget"
  /\ handler' = Direct
  /\ jpc' = "idle"
  /\ UNCHANGED <<writer, root, pipeVars, writerVars, producerVars, flushVars,
                 sinkVars, todo, job, stopping, wasRunning, made, inChild, goal,
                 floor>>

Shutdown == ShutdownBegin \/ ShutdownStop \/ RedirectRoot \/ ForgetHandler

-----------------------------------------------------------------------------
(* What a job can do to an emit that is under way.                         *)

\* Root has the direct handler, or for a moment none: no pipeline is involved.
LogElsewhere(p) ==
  /\ ppc[p] = "idle"
  /\ left[p] > 0
  /\ root \in {Direct, None}
  /\ left' = [left EXCEPT ![p] = @ - 1]
  /\ UNCHANGED <<stateVars, pipeVars, writerVars, ppc, via, level, flushVars,
                 sinkVars>>

\* _start_writer finds the direct handler, which has no queue, or no writer any
\* more to call start() on: AttributeError leaves emit.
StartRaises(p) ==
  /\ \/ ppc[p] = "create" /\ handler = Direct
     \/ ppc[p] = "launch" /\ writer = None
  /\ startLock' = Unlocked(via[p])
  /\ logged' = [logged EXCEPT ![via[p]] = @ - 1]
  /\ Goto(p, "idle")
  /\ UNCHANGED <<stateVars, queue, started, dropped, tickets, writerVars, via,
                 level, left, flushVars, sinkVars>>

\* _start_writer finds a writer that has been started: the exception leaves emit, or
\* there is one more thread.
StartAgain(p) ==
  /\ ppc[p] = "launch"
  /\ writer # None
  /\ wpc[writer] # "made"
  /\ startLock' = Unlocked(via[p])
  /\ \/ /\ logged' = [logged EXCEPT ![via[p]] = @ - 1]
        /\ Goto(p, "idle")
        /\ UNCHANGED <<stateVars, writerVars, flushVars, stopping>>
     \/ /\ Goto(p, "prepare")
        /\ \E w \in Writers : AddThread(w)
        /\ UNCHANGED <<logged, hand>>
  /\ UNCHANGED <<queue, started, dropped, tickets, via, level, left, sinkVars, todo,
                 job, jpc, wasRunning, made, inChild, goal, floor>>

Log(p) ==
  /\ MayLog
  /\ \/ (Emit(p) \/ LogElsewhere(p) \/ StartRaises(p)) /\ UNCHANGED jobVars
     \/ StartAgain(p)

\* In flush(), after a slice, _writer_alive(writer) turns out false.
FlushFindsDead(f) ==
  /\ fpc[f] = "wait"
  /\ ~ Alive(fwriter[f])
  /\ fpc' = [fpc EXCEPT ![f] = "idle"]
  /\ UNCHANGED <<stateVars, pipeVars, writerVars, producerVars, fon, fwriter,
                 timed, calls, before, sinkVars>>

\* The Admin calls flush() as part of _shutdown, the others when they like.
Await(f) ==
  /\ f = Admin => fpc[f] # "idle"
  /\ Flush(f) \/ FlushFindsDead(f)
  /\ UNCHANGED jobVars

Serve(w) == Write(w) /\ UNCHANGED jobVars

Job == Stop \/ Fork \/ Install \/ Shutdown

\* The process is over, or nothing is left to do; or whoever is left waits for good,
\* for room in a queue that nobody serves, a lock that nobody holds any more, a marker
\* or the end of a thread.
LifeFinished ==
  /\ \/ jpc = "idle" /\ (handler = Direct \/ Quiet)
     \/ /\ jpc \in {"idle", "put", "join"}
        /\ \A p \in Producers : ppc[p] \in {"idle", "put", "lock"}
  /\ UNCHANGED lifeVars

LifeNext == \/ \E p \in Producers : Log(p)
            \/ \E w \in Writers : Serve(w)
            \/ \E f \in Flushers : Await(f)
            \/ Job
            \/ LifeFinished

LifeSpec == LifeInit /\ [][LifeNext]_lifeVars

\* As in Transport: every thread that can run does run.
LifeFairness ==
  /\ \A w \in Writers : WF_lifeVars(Serve(w))
  /\ \A p \in Producers : WF_lifeVars(ppc[p] # "idle" /\ Log(p))
  /\ \A f \in Flushers : WF_lifeVars(fpc[f] # "idle" /\ Await(f))
  /\ WF_lifeVars(jpc # "idle" /\ Job)

LifeFairSpec == LifeSpec /\ LifeFairness

-----------------------------------------------------------------------------
LifeStateTypeOK ==
  /\ handler \in Pipelines \cup {Direct} /\ root \in Pipelines \cup {Direct, None}
  /\ writer \in Writers \cup {None}
JobTypeOK ==
  /\ todo \in [JobKinds -> Nat] /\ job \in JobKinds
  /\ jpc \in {"idle", "put", "force", "join", "fork", "restart", "relaunch", "swap",
              "detach", "attach", "drain", "redirect", "forget"}
  /\ stopping \in Writers \cup {None}
  /\ wasRunning \in BOOLEAN /\ made \subseteq Pipelines /\ inChild \in BOOLEAN
  /\ goal \in [Pipelines -> Nat] /\ floor \in [Pipelines -> Nat]

\* Every variable has its type; a notice never reports a negative number of drops.
LifeTypeOK == /\ LifeStateTypeOK /\ PipeTypeOK /\ WriterTypeOK
              /\ ProducerTypeOK /\ FlushTypeOK /\ SinkTypeOK /\ JobTypeOK

\* LP-003: stop() drains.  When a job gets past stop(), every line that was in the
\* writer's queue when the job began is in the stream of this process.
StopDrains ==
  jpc \in {"fork", "swap", "redirect"} /\ stopping # None =>
    LET h == wqueue[stopping] IN floor[h] + 1 .. goal[h] \subseteq WrittenTickets(h)

\* LP-003, LP-008: at the moment of the fork no writer thread runs, so the child
\* inherits none of its locks and no half-written line.
ForkQuiet == jpc = "fork" => \A w \in Writers : ~ Alive(w)

\* LP-003: stopping, restarting and starting lazily again never lets two writer
\* threads serve one queue.
SoleWriter ==
  \A v, w \in Writers : Alive(v) /\ Alive(w) /\ wqueue[v] = wqueue[w] => v = w

\* LP-008: of the lines put into a queue in this process, none is missing.
NothingStranded ==
  \A h \in Pipelines :
    floor[h] + 1 .. tickets[h]
      \subseteq QueuedTickets(h) \cup HeldTickets(h) \cup WrittenTickets(h)

\* LP-003, LP-008: whatever races with whatever, a line that a writer puts on the stream
\* was logged in this process, as those in the queue at a fork are the parent's alone
\* (_transport.py:263-267), and is not on the stream or in its buffer already.
WritesOwnOnce ==
  [][\A i \in DOMAIN stream' :
       i > Len(stream) /\ stream'[i].kind = "line" =>
         /\ stream'[i].n > floor[stream'[i].on]
         /\ \A j \in 1 .. i - 1 : stream'[j] # stream'[i]
    ]_lifeVars

\* A job ends, whether the queue is full or the writer is in the middle of a line.
JobReturns == jpc # "idle" ~> jpc = "idle"

\* A line in the queue reaches the stream of the process that put it there, across
\* the stop and the restart of the writer; a child leaves it to its parent.
LineReachesStream ==
  \A h \in Pipelines : \A n \in 1 .. Quota * Cardinality(Producers) :
    (n <= tickets[h]) ~> (n \in WrittenTickets(h) \/ n <= floor[h])

\* LP-008: "MUST behave correctly across process forks": what a child writes is
\* what was logged in the child.
ChildWritesOwn ==
  inChild => \A h \in Pipelines : \A n \in WrittenTickets(h) : n > floor[h]

\* _transport.py:148: the notice is "for the counter delta": notices together never
\* report more drops than were counted.  (Every fork breaks this, as section 6 of the
\* README has it, so no run asks for it.)
ReportedOnce ==
  ~ inChild => \A h \in Pipelines : NoticeTotal(h) <= dropped[h]

\* LP-008: "no corrupted shared file descriptors or locks": a start lock that is
\* held is held by a thread of this process that is between its two ends.  (A fork
\* during the first emit breaks this: section 6 of the README.)
LocksOwned ==
  \A h \in Pipelines :
    startLock[h] # None => ppc[startLock[h]] \in {"create", "launch"}
=============================================================================
