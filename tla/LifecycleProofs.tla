--------------------------- MODULE LifecycleProofs ---------------------------
(***************************************************************************)
(* What holds of Lifecycle for every number of threads, pipelines and jobs *)
(* and every queue size: at any moment a job may begin, no line is written *)
(* twice or vanishes; and where the application forks, reconfigures and    *)
(* ends at the moments of the regimes "solo" and "warm", stop() drains, no *)
(* writer runs at a fork, and no queue has two.                            *)
(***************************************************************************)
EXTENDS Lifecycle, Facts

USE DEF vars, lifeVars, jobVars, stateVars, pipeVars, writerVars, producerVars, flushVars,
        sinkVars, Push, Rest, Counted, Flushed, Delta, Unlocked, Released, SecondLook, Goto,
        NewWriter, Alive

-----------------------------------------------------------------------------
(* What a thread, a writer or a job uses in a step was given to it before. *)

Serving(w) == wpc[w] \in {"made", "get", "handle", "empty"}
WriterSound(w) ==
  /\ wpc[w] # "unmade" => wqueue[w] \in Pipelines
  /\ wpc[w] = "unmade" => reported[w] = 0
  /\ Serving(w) \/ w = writer => reported[w] <= dropped[wqueue[w]]
  /\ wpc[w] = "handle" => hand[w] \in Item /\ hand[w].kind # "sentinel"
WritersSound == \A w \in Writers : WriterSound(w)
ThreadsSound ==
  /\ \A p \in Producers : ppc[p] # "idle" => via[p] \in Pipelines
  /\ \A f \in Flushers : fpc[f] # "idle" => fon[f] \in Pipelines
StopSound ==
  /\ writer # None => wpc[writer] # "unmade"
  /\ jpc = "relaunch" => writer # None
  /\ jpc \in {"put", "force", "join"} => stopping # None /\ wpc[stopping] # "unmade"
  /\ jpc = "drain" => writer # None
Given == WritersSound /\ ThreadsSound /\ StopSound

TypedAndGiven == LifeTypeOK /\ Given

LEMMA Names ==
  /\ None \notin Writers /\ None \notin Pipelines /\ Direct \notin Pipelines /\ Direct # None
  /\ None \notin Producers /\ Admin \in Flushers
BY ConstantsAssumption, LifecycleAssumption

LEMMA LifeInitTyped == LifeInit => TypedAndGiven
<1> SUFFICES ASSUME LifeInit PROVE TypedAndGiven
  OBVIOUS
<1>1. LifeStateTypeOK /\ PipeTypeOK
  BY DEF LifeInit, Init, LifeStateTypeOK, PipeTypeOK
<1>2. WriterTypeOK /\ ProducerTypeOK /\ FlushTypeOK
  BY ConstantsAssumption DEF LifeInit, Init, WriterTypeOK, ProducerTypeOK, FlushTypeOK
<1>3. SinkTypeOK
  <2>1. released = {} /\ stream = <<>> /\ flushed = 0 /\ broken = FALSE
    BY DEF LifeInit, Init
  <2>2. stream \in Seq(Entry) /\ flushed \in 0 .. Len(stream)
    BY <2>1
  <2>3. broken \in BOOLEAN
    BY <2>1, Zenon
  <2> QED BY <2>1, <2>2, <2>3, Zenon DEF SinkTypeOK
<1>4. JobTypeOK
  <2>1. wasRunning \in BOOLEAN /\ inChild \in BOOLEAN
    BY Zenon DEF LifeInit
  <2> QED BY <2>1, LifecycleAssumption DEF LifeInit, Init, JobTypeOK, JobKinds
<1>5. Given
  BY Names DEF LifeInit, Init, Given, WritersSound, WriterSound, ThreadsSound, StopSound, Serving
<1> QED BY <1>1, <1>2, <1>3, <1>4, <1>5 DEF TypedAndGiven, LifeTypeOK
\* A part of the state that a step leaves alone keeps its types.
LEMMA KeepTypes ==
  ASSUME LifeTypeOK,
         UNCHANGED stateVars \/ LifeStateTypeOK', UNCHANGED pipeVars \/ PipeTypeOK',
         UNCHANGED writerVars \/ WriterTypeOK', UNCHANGED producerVars \/ ProducerTypeOK',
         UNCHANGED flushVars \/ FlushTypeOK', UNCHANGED sinkVars \/ SinkTypeOK',
         UNCHANGED jobVars \/ JobTypeOK'
  PROVE  LifeTypeOK'
<1>1. LifeStateTypeOK'
  BY DEF LifeTypeOK, LifeStateTypeOK
<1>2. PipeTypeOK'
  BY DEF LifeTypeOK, PipeTypeOK
<1>3. WriterTypeOK'
  BY DEF LifeTypeOK, WriterTypeOK
<1>4. ProducerTypeOK'
  BY DEF LifeTypeOK, ProducerTypeOK
<1>5. FlushTypeOK'
  BY DEF LifeTypeOK, FlushTypeOK
<1>6. SinkTypeOK'
  BY DEF LifeTypeOK, SinkTypeOK
<1>7. JobTypeOK'
  BY DEF LifeTypeOK, JobTypeOK
<1> QED BY <1>1, <1>2, <1>3, <1>4, <1>5, <1>6, <1>7 DEF LifeTypeOK

\* What stop() is followed by.
LEMMA AfterStops == LifeTypeOK => AfterStop \in {"fork", "swap", "redirect"}
BY DEF LifeTypeOK, JobTypeOK, JobKinds, AfterStop

\* A queue and what is put into it.
LEMMA LifeItems ==
  ASSUME LifeTypeOK
  PROVE  /\ Sentinel \in Item
         /\ \A f \in Flushers : Marker(f) \in Item
         /\ \A h \in Pipelines : \A p \in Producers : Line(h, p) \in Item
BY DEF Sentinel, Marker, Line, Item, LifeTypeOK, PipeTypeOK, ProducerTypeOK, FlushTypeOK

LEMMA PutTyped ==
  ASSUME LifeTypeOK, NEW h, NEW x \in Item,
         queue' = [queue EXCEPT ![h] = Append(queue[h], x)],
         UNCHANGED <<started, startLock, dropped, logged>>,
         tickets' \in [Pipelines -> Nat]
  PROVE  PipeTypeOK'
<1>1. queue \in [Pipelines -> Seq(Item)]
  BY DEF LifeTypeOK, PipeTypeOK
<1>2. queue' \in [Pipelines -> Seq(Item)]
  <2>1. CASE h \in Pipelines
    <3>1. Append(queue[h], x) \in Seq(Item)
      BY <1>1, <2>1
    <3> QED BY <1>1, <3>1
  <2>2. CASE h \notin Pipelines
    BY <1>1, <2>2
  <2> QED BY <2>1, <2>2
<1> QED BY <1>2 DEF LifeTypeOK, PipeTypeOK

\* One more drop is counted.
LEMMA CountedTyped ==
  ASSUME LifeTypeOK, NEW h, NEW d, d = [dropped EXCEPT ![h] = @ + 1]
  PROVE  d \in [Pipelines -> Nat] /\ \A g \in Pipelines : dropped[g] <= d[g]
<1>1. dropped \in [Pipelines -> Nat]
  BY DEF LifeTypeOK, PipeTypeOK
<1>2. CASE h \in Pipelines
  <2>1. dropped[h] + 1 \in Nat /\ \A g \in Pipelines : dropped[g] \in Nat
    BY <1>1, <1>2
  <2>2. d \in [Pipelines -> Nat]
    BY <1>1, <2>1
  <2>3. \A g \in Pipelines : d[g] = IF g = h THEN dropped[h] + 1 ELSE dropped[g]
    BY <1>1
  <2>4. ASSUME NEW g \in Pipelines PROVE dropped[g] <= d[g]
    BY <2>1, <2>3
  <2> QED BY <2>2, <2>4
<1>3. CASE h \notin Pipelines
  <2>1. d = dropped
    BY <1>1, <1>3
  <2>2. ASSUME NEW g \in Pipelines PROVE d[g] \in Nat /\ dropped[g] <= d[g]
    BY <1>1, <2>1
  <2> QED BY <1>1, <2>1, <2>2
<1> QED BY <1>2, <1>3

\* get: an item comes out of the queue.
LEMMA TakeTyped ==
  ASSUME TypedAndGiven, NEW w \in Writers, Take(w)
  PROVE  /\ wqueue[w] \in Pipelines /\ queue[wqueue[w]] \in Seq(Item)
         /\ queue[wqueue[w]] # <<>> /\ Head(queue[wqueue[w]]) \in Item
         /\ Tail(queue[wqueue[w]]) \in Seq(Item)
<1>1. wqueue[w] \in Pipelines
  BY DEF TypedAndGiven, Given, WritersSound, WriterSound, Take
<1>2. queue[wqueue[w]] \in Seq(Item) /\ queue[wqueue[w]] # <<>>
  BY <1>1 DEF TypedAndGiven, LifeTypeOK, PipeTypeOK, Take
<1> HIDE DEF Item
<1>3. \A q \in Seq(Item) : q # <<>> => Head(q) \in Item /\ Tail(q) \in Seq(Item)
  OBVIOUS
<1> QED BY <1>1, <1>2, <1>3

\* What a written line and the notice behind it make of the stream.
LEMMA WriteLineTyped ==
  ASSUME TypedAndGiven, NEW w \in Writers, WriteLine(w)
  PROVE  SinkTypeOK'
<1> DEFINE h == wqueue[w]
           line == [kind |-> "line", on |-> h, n |-> hand[w].n]
           written == Append(stream, line)
           notice == [kind |-> "note", on |-> h, n |-> Delta(w)]
<1>1. h \in Pipelines /\ reported[w] <= dropped[h] /\ hand[w] \in Item
  BY DEF WriteLine, TypedAndGiven, Given, WritersSound, WriterSound, Serving
<1>2. hand[w].n \in Nat
  BY <1>1 DEF Item
<1>3. line \in Entry
  BY <1>1, <1>2 DEF Entry
<1>4. Delta(w) \in Nat
  BY <1>1 DEF TypedAndGiven, LifeTypeOK, PipeTypeOK, WriterTypeOK
<1>5. notice \in Entry
  BY <1>1, <1>4 DEF Entry
<1>6. stream \in Seq(Entry) /\ flushed \in 0 .. Len(stream) /\ released' = released
      /\ released \in SUBSET ((Producers \cup Flushers \cup {None}) \X Nat)
  BY DEF TypedAndGiven, LifeTypeOK, SinkTypeOK, WriteLine
<1>7. /\ stream' \in {written, Append(written, notice)}
      /\ flushed' \in {flushed, Len(stream), Len(stream')}
      /\ broken' \in {broken, TRUE}
  BY DEF WriteLine
<1> HIDE DEF line, notice
<1>8. written \in Seq(Entry) /\ Append(written, notice) \in Seq(Entry)
      /\ Len(written) = Len(stream) + 1 /\ Len(Append(written, notice)) = Len(stream) + 2
  BY <1>3, <1>5, <1>6
<1> HIDE DEF written
<1>9. Len(stream) <= Len(stream') /\ stream' \in Seq(Entry)
  BY <1>6, <1>7, <1>8
<1>10. flushed' \in 0 .. Len(stream')
  BY <1>6, <1>7, <1>9
<1>11. broken' \in BOOLEAN
  BY <1>7 DEF TypedAndGiven, LifeTypeOK, SinkTypeOK
<1> QED BY <1>6, <1>9, <1>10, <1>11 DEF SinkTypeOK

\* flush() begins.
LEMMA StartFlushTyped ==
  ASSUME LifeTypeOK, NEW f \in Flushers, NEW t \in BOOLEAN, StartFlush(f, t)
  PROVE  /\ FlushTypeOK' /\ handler \in Pipelines
         /\ UNCHANGED <<stateVars, pipeVars, writerVars, producerVars, sinkVars>>
<1>1. /\ handler \in Pipelines /\ tickets[handler] \in Nat /\ writer \in Writers \cup {None}
      /\ UNCHANGED <<stateVars, pipeVars, writerVars, producerVars, sinkVars>>
  BY DEF StartFlush, LifeTypeOK, PipeTypeOK, LifeStateTypeOK
<1>2. fpc' \in [Flushers -> {"idle", "mark", "wait"}] /\ fon' \in [Flushers -> Pipelines \cup {None}]
  BY <1>1 DEF StartFlush, LifeTypeOK, FlushTypeOK
<1>3. fwriter' \in [Flushers -> Writers \cup {None}] /\ timed' \in [Flushers -> BOOLEAN]
  <2>1. fwriter' \in [Flushers -> Writers \cup {None}]
    BY <1>1 DEF StartFlush, LifeTypeOK, FlushTypeOK
  <2>2. timed' = [timed EXCEPT ![f] = t] /\ timed \in [Flushers -> BOOLEAN]
    BY DEF StartFlush, LifeTypeOK, FlushTypeOK
  <2> QED BY <2>1, <2>2, Zenon
<1>4. calls' \in [Flushers -> Nat] /\ before' \in [Flushers -> Nat]
  BY <1>1 DEF StartFlush, LifeTypeOK, FlushTypeOK
<1> QED BY <1>1, <1>2, <1>3, <1>4 DEF FlushTypeOK

\* A job begins.
LEMMA BeginTyped ==
  ASSUME LifeTypeOK, NEW k \in JobKinds, Begin(k)
  PROVE  /\ todo' \in [JobKinds -> Nat] /\ job' \in JobKinds
         /\ stopping' \in Writers \cup {None} /\ goal' \in [Pipelines -> Nat]
<1>1. todo \in [JobKinds -> Nat] /\ todo[k] > 0 /\ todo' = [todo EXCEPT ![k] = @ - 1]
  BY DEF LifeTypeOK, JobTypeOK, Begin
<1>2. todo' \in [JobKinds -> Nat]
  BY <1>1
<1> QED BY <1>2 DEF Begin, LifeTypeOK, LifeStateTypeOK, PipeTypeOK

LEMMA JobNames == {"fork", "install", "shutdown"} = JobKinds
BY DEF JobKinds

\* Every step of an emit keeps the types.
LEMMA AddThreadTyped ==
  ASSUME LifeTypeOK, Given, NEW w \in Writers, AddThread(w), writer # None,
         UNCHANGED <<hand, dropped>>, jpc' \in {jpc, "idle"}
  PROVE  /\ LifeStateTypeOK' /\ WriterTypeOK' /\ FlushTypeOK' /\ stopping' \in Writers \cup {None}
         /\ WritersSound' /\ StopSound'
<1>1. /\ writer \in Writers /\ wpc[writer] # "unmade" /\ wqueue[writer] \in Pipelines
      /\ reported[writer] <= dropped[wqueue[writer]] /\ reported[writer] \in Nat
  BY DEF Given, StopSound, WritersSound, WriterSound, LifeTypeOK, LifeStateTypeOK, WriterTypeOK
<1>2. LifeStateTypeOK' /\ WriterTypeOK'
  BY <1>1 DEF AddThread, LifeTypeOK, LifeStateTypeOK, WriterTypeOK
<1>3. FlushTypeOK'
  BY DEF AddThread, Renamed, LifeTypeOK, FlushTypeOK
<1>4. stopping' \in Writers \cup {None}
  BY DEF AddThread, Renamed, LifeTypeOK, JobTypeOK
<1>5. WritersSound'
  <2> SUFFICES ASSUME NEW v \in Writers PROVE WriterSound(v)'
    BY DEF WritersSound
  <2>1. CASE v = w
    BY <1>1, <2>1 DEF AddThread, WriterSound, LifeTypeOK, WriterTypeOK
  <2>2. CASE v # w
    BY <2>2 DEF AddThread, Given, WritersSound, WriterSound, Serving, LifeTypeOK, WriterTypeOK
  <2> QED BY <2>1, <2>2
<1>6. StopSound'
  BY <1>1, Names DEF AddThread, Renamed, Given, StopSound, LifeTypeOK, WriterTypeOK, JobTypeOK
<1> QED BY <1>2, <1>3, <1>4, <1>5, <1>6

LEMMA EmitTyped ==
  ASSUME TypedAndGiven, NEW p \in Producers, Emit(p) \/ LogElsewhere(p) \/ StartRaises(p),
         UNCHANGED jobVars
  PROVE  TypedAndGiven'
<1> USE Names DEF TypedAndGiven, Given
<1>0. UNCHANGED jobVars
  OBVIOUS
<1>1. CASE Dispatch(p)
  <2>1. PipeTypeOK'
    <3>1. logged' \in [Pipelines -> Int]
      BY <1>1 DEF Dispatch, LifeTypeOK, PipeTypeOK
    <3>2. UNCHANGED <<queue, started, startLock, dropped, tickets>>
      BY <1>1 DEF Dispatch
    <3> QED BY <3>1, <3>2 DEF LifeTypeOK, PipeTypeOK
  <2>2. ProducerTypeOK'
    <3>1. PICK l \in Levels[p] : level' = [level EXCEPT ![p] = l]
      BY <1>1 DEF Dispatch
    <3>2. l \in {"low", "high"}
      BY ConstantsAssumption
    <3>3. level' \in [Producers -> {"low", "high"}]
      BY <3>1, <3>2 DEF LifeTypeOK, ProducerTypeOK
    <3> QED BY <1>1, <3>3 DEF Dispatch, LifeTypeOK, ProducerTypeOK
  <2>3. LifeTypeOK'
    BY <1>0, <1>1, <2>1, <2>2, KeepTypes DEF Dispatch
  <2>4. WritersSound'
    BY <1>0, <1>1 DEF Dispatch, WritersSound, WriterSound, Serving, LifeTypeOK, PipeTypeOK, WriterTypeOK, LifeStateTypeOK
  <2>5. ThreadsSound'
    BY <1>0, <1>1 DEF Dispatch, ThreadsSound, LifeTypeOK, ProducerTypeOK, FlushTypeOK, LifeStateTypeOK
  <2>6. StopSound'
    BY <1>0, <1>1 DEF Dispatch, StopSound, LifeTypeOK, WriterTypeOK, LifeStateTypeOK, JobTypeOK
  <2> QED BY <2>3, <2>4, <2>5, <2>6
<1>2. CASE SeeStarted(p)
  <2>1. ProducerTypeOK'
    BY <1>0, <1>2 DEF SeeStarted, LifeTypeOK, ProducerTypeOK
  <2>2. LifeTypeOK'
    BY <1>0, <1>2, <2>1, KeepTypes DEF SeeStarted
  <2>3. WritersSound'
    BY <1>0, <1>2 DEF SeeStarted, WritersSound, WriterSound, Serving, LifeTypeOK, PipeTypeOK, WriterTypeOK, LifeStateTypeOK
  <2>4. ThreadsSound'
    BY <1>0, <1>2 DEF SeeStarted, ThreadsSound, LifeTypeOK, ProducerTypeOK, FlushTypeOK, LifeStateTypeOK
  <2>5. StopSound'
    BY <1>0, <1>2 DEF SeeStarted, StopSound, LifeTypeOK, WriterTypeOK, LifeStateTypeOK, JobTypeOK
  <2> QED BY <2>2, <2>3, <2>4, <2>5
<1>3. CASE StartedMeanwhile(p)
  <2>1. ProducerTypeOK'
    BY <1>0, <1>3 DEF StartedMeanwhile, LifeTypeOK, ProducerTypeOK
  <2>2. LifeTypeOK'
    BY <1>0, <1>3, <2>1, KeepTypes DEF StartedMeanwhile
  <2>3. WritersSound'
    BY <1>0, <1>3 DEF StartedMeanwhile, WritersSound, WriterSound, Serving, LifeTypeOK, PipeTypeOK, WriterTypeOK, LifeStateTypeOK
  <2>4. ThreadsSound'
    BY <1>0, <1>3 DEF StartedMeanwhile, ThreadsSound, LifeTypeOK, ProducerTypeOK, FlushTypeOK, LifeStateTypeOK
  <2>5. StopSound'
    BY <1>0, <1>3 DEF StartedMeanwhile, StopSound, LifeTypeOK, WriterTypeOK, LifeStateTypeOK, JobTypeOK
  <2> QED BY <2>2, <2>3, <2>4, <2>5
<1>4. CASE ClaimStart(p)
  <2>1. PipeTypeOK'
    BY <1>0, <1>4 DEF ClaimStart, LifeTypeOK, PipeTypeOK
  <2>2. ProducerTypeOK'
    BY <1>0, <1>4 DEF ClaimStart, LifeTypeOK, ProducerTypeOK
  <2>3. LifeTypeOK'
    BY <1>0, <1>4, <2>1, <2>2, KeepTypes DEF ClaimStart
  <2>4. WritersSound'
    BY <1>0, <1>4 DEF ClaimStart, WritersSound, WriterSound, Serving, LifeTypeOK, PipeTypeOK, WriterTypeOK, LifeStateTypeOK
  <2>5. ThreadsSound'
    BY <1>0, <1>4 DEF ClaimStart, ThreadsSound, LifeTypeOK, ProducerTypeOK, FlushTypeOK, LifeStateTypeOK
  <2>6. StopSound'
    BY <1>0, <1>4 DEF ClaimStart, StopSound, LifeTypeOK, WriterTypeOK, LifeStateTypeOK, JobTypeOK
  <2> QED BY <2>3, <2>4, <2>5, <2>6
<1>5. CASE CreateWriter(p)
  <2>1. LifeStateTypeOK'
    BY <1>0, <1>5 DEF CreateWriter, LifeTypeOK, LifeStateTypeOK
  <2>2. WriterTypeOK'
    BY <1>0, <1>5 DEF CreateWriter, LifeTypeOK, WriterTypeOK, LifeStateTypeOK, PipeTypeOK, WritersSound, WriterSound, Serving
  <2>3. ProducerTypeOK'
    BY <1>0, <1>5 DEF CreateWriter, LifeTypeOK, ProducerTypeOK
  <2>4. LifeTypeOK'
    BY <1>0, <1>5, <2>1, <2>2, <2>3, KeepTypes DEF CreateWriter
  <2>5. WritersSound'
    BY <1>0, <1>5 DEF CreateWriter, WritersSound, WriterSound, Serving, LifeTypeOK, PipeTypeOK, WriterTypeOK, LifeStateTypeOK
  <2>6. ThreadsSound'
    BY <1>0, <1>5 DEF CreateWriter, ThreadsSound, LifeTypeOK, ProducerTypeOK, FlushTypeOK, LifeStateTypeOK
  <2>7. StopSound'
    BY <1>0, <1>5 DEF CreateWriter, StopSound, LifeTypeOK, WriterTypeOK, LifeStateTypeOK, JobTypeOK
  <2> QED BY <2>4, <2>5, <2>6, <2>7
<1>6. CASE LaunchWriter(p)
  <2>1. PipeTypeOK'
    BY <1>0, <1>6 DEF LaunchWriter, LifeTypeOK, PipeTypeOK, ThreadsSound, ProducerTypeOK, LifeStateTypeOK
  <2>2. WriterTypeOK'
    BY <1>0, <1>6 DEF LaunchWriter, LifeTypeOK, WriterTypeOK, LifeStateTypeOK, PipeTypeOK, WritersSound, WriterSound, Serving
  <2>3. ProducerTypeOK'
    BY <1>0, <1>6 DEF LaunchWriter, LifeTypeOK, ProducerTypeOK
  <2>4. LifeTypeOK'
    BY <1>0, <1>6, <2>1, <2>2, <2>3, KeepTypes DEF LaunchWriter
  <2>5. WritersSound'
    BY <1>0, <1>6 DEF LaunchWriter, WritersSound, WriterSound, Serving, LifeTypeOK, PipeTypeOK, WriterTypeOK, LifeStateTypeOK
  <2>6. ThreadsSound'
    BY <1>0, <1>6 DEF LaunchWriter, ThreadsSound, LifeTypeOK, ProducerTypeOK, FlushTypeOK, LifeStateTypeOK
  <2>7. StopSound'
    BY <1>0, <1>6 DEF LaunchWriter, StopSound, LifeTypeOK, WriterTypeOK, LifeStateTypeOK, JobTypeOK
  <2> QED BY <2>4, <2>5, <2>6, <2>7
<1>7. CASE LaunchFails(p)
  <2>1. PipeTypeOK'
    BY <1>0, <1>7 DEF LaunchFails, LifeTypeOK, PipeTypeOK, ThreadsSound, ProducerTypeOK, LifeStateTypeOK
  <2>2. ProducerTypeOK'
    BY <1>0, <1>7 DEF LaunchFails, LifeTypeOK, ProducerTypeOK
  <2>3. LifeTypeOK'
    BY <1>0, <1>7, <2>1, <2>2, KeepTypes DEF LaunchFails
  <2>4. WritersSound'
    BY <1>0, <1>7 DEF LaunchFails, WritersSound, WriterSound, Serving, LifeTypeOK, PipeTypeOK, WriterTypeOK, LifeStateTypeOK
  <2>5. ThreadsSound'
    BY <1>0, <1>7 DEF LaunchFails, ThreadsSound, LifeTypeOK, ProducerTypeOK, FlushTypeOK, LifeStateTypeOK
  <2>6. StopSound'
    BY <1>0, <1>7 DEF LaunchFails, StopSound, LifeTypeOK, WriterTypeOK, LifeStateTypeOK, JobTypeOK
  <2> QED BY <2>3, <2>4, <2>5, <2>6
<1>8. CASE Prepare(p)
  <2>1. ProducerTypeOK'
    BY <1>0, <1>8 DEF Prepare, LifeTypeOK, ProducerTypeOK
  <2>2. LifeTypeOK'
    BY <1>0, <1>8, <2>1, KeepTypes DEF Prepare
  <2>3. WritersSound'
    BY <1>0, <1>8 DEF Prepare, WritersSound, WriterSound, Serving, LifeTypeOK, PipeTypeOK, WriterTypeOK, LifeStateTypeOK
  <2>4. ThreadsSound'
    BY <1>0, <1>8 DEF Prepare, ThreadsSound, LifeTypeOK, ProducerTypeOK, FlushTypeOK, LifeStateTypeOK
  <2>5. StopSound'
    BY <1>0, <1>8 DEF Prepare, StopSound, LifeTypeOK, WriterTypeOK, LifeStateTypeOK, JobTypeOK
  <2> QED BY <2>2, <2>3, <2>4, <2>5
<1>9. CASE PrepareFails(p)
  <2>1. PipeTypeOK'
    <3>1. dropped' \in [Pipelines -> Nat]
      BY <1>9, CountedTyped DEF PrepareFails
    <3> QED BY <1>9, <3>1 DEF PrepareFails, LifeTypeOK, PipeTypeOK
  <2>2. ProducerTypeOK'
    BY <1>0, <1>9 DEF PrepareFails, LifeTypeOK, ProducerTypeOK
  <2>3. LifeTypeOK'
    BY <1>0, <1>9, <2>1, <2>2, KeepTypes DEF PrepareFails
  <2>4. WritersSound'
    BY <1>0, <1>9 DEF PrepareFails, WritersSound, WriterSound, Serving, LifeTypeOK, PipeTypeOK, WriterTypeOK, LifeStateTypeOK
  <2>5. ThreadsSound'
    BY <1>0, <1>9 DEF PrepareFails, ThreadsSound, LifeTypeOK, ProducerTypeOK, FlushTypeOK, LifeStateTypeOK
  <2>6. StopSound'
    BY <1>0, <1>9 DEF PrepareFails, StopSound, LifeTypeOK, WriterTypeOK, LifeStateTypeOK, JobTypeOK
  <2> QED BY <2>3, <2>4, <2>5, <2>6
<1>10. CASE Enqueue(p)
  <2>1. PipeTypeOK'
    <3>1. via[p] \in Pipelines
      BY <1>10 DEF Enqueue, ThreadsSound
    <3>2. Line(via[p], p) \in Item
      BY <3>1, LifeItems
    <3>3. tickets' \in [Pipelines -> Nat]
      BY <1>10, <3>1 DEF Enqueue, LifeTypeOK, PipeTypeOK
    <3>4. queue' = [queue EXCEPT ![via[p]] = Append(queue[via[p]], Line(via[p], p))]
          /\ UNCHANGED <<started, startLock, dropped, logged>>
      BY <1>10 DEF Enqueue
    <3> QED BY <3>2, <3>3, <3>4, PutTyped
  <2>2. ProducerTypeOK'
    BY <1>0, <1>10 DEF Enqueue, LifeTypeOK, ProducerTypeOK
  <2>3. LifeTypeOK'
    BY <1>0, <1>10, <2>1, <2>2, KeepTypes DEF Enqueue
  <2>4. WritersSound'
    BY <1>0, <1>10 DEF Enqueue, WritersSound, WriterSound, Serving, LifeTypeOK, PipeTypeOK, WriterTypeOK, LifeStateTypeOK
  <2>5. ThreadsSound'
    BY <1>0, <1>10 DEF Enqueue, ThreadsSound, LifeTypeOK, ProducerTypeOK, FlushTypeOK, LifeStateTypeOK
  <2>6. StopSound'
    BY <1>0, <1>10 DEF Enqueue, StopSound, LifeTypeOK, WriterTypeOK, LifeStateTypeOK, JobTypeOK
  <2> QED BY <2>3, <2>4, <2>5, <2>6
<1>11. CASE CheckRoom(p)
  <2>1. ProducerTypeOK'
    BY <1>0, <1>11 DEF CheckRoom, LifeTypeOK, ProducerTypeOK
  <2>2. LifeTypeOK'
    BY <1>0, <1>11, <2>1, KeepTypes DEF CheckRoom
  <2>3. WritersSound'
    BY <1>0, <1>11 DEF CheckRoom, WritersSound, WriterSound, Serving, LifeTypeOK, PipeTypeOK, WriterTypeOK, LifeStateTypeOK
  <2>4. ThreadsSound'
    BY <1>0, <1>11 DEF CheckRoom, ThreadsSound, LifeTypeOK, ProducerTypeOK, FlushTypeOK, LifeStateTypeOK
  <2>5. StopSound'
    BY <1>0, <1>11 DEF CheckRoom, StopSound, LifeTypeOK, WriterTypeOK, LifeStateTypeOK, JobTypeOK
  <2> QED BY <2>2, <2>3, <2>4, <2>5
<1>12. CASE OfferFull(p)
  <2>1. ProducerTypeOK'
    BY <1>0, <1>12 DEF OfferFull, LifeTypeOK, ProducerTypeOK
  <2>2. LifeTypeOK'
    BY <1>0, <1>12, <2>1, KeepTypes DEF OfferFull
  <2>3. WritersSound'
    BY <1>0, <1>12 DEF OfferFull, WritersSound, WriterSound, Serving, LifeTypeOK, PipeTypeOK, WriterTypeOK, LifeStateTypeOK
  <2>4. ThreadsSound'
    BY <1>0, <1>12 DEF OfferFull, ThreadsSound, LifeTypeOK, ProducerTypeOK, FlushTypeOK, LifeStateTypeOK
  <2>5. StopSound'
    BY <1>0, <1>12 DEF OfferFull, StopSound, LifeTypeOK, WriterTypeOK, LifeStateTypeOK, JobTypeOK
  <2> QED BY <2>2, <2>3, <2>4, <2>5
<1>13. CASE CountDrop(p)
  <2>1. PipeTypeOK'
    <3>1. dropped' \in [Pipelines -> Nat]
      BY <1>13, CountedTyped DEF CountDrop, Counted
    <3>2. UNCHANGED <<queue, started, startLock, tickets, logged>>
      BY <1>13 DEF CountDrop
    <3> QED BY <3>1, <3>2 DEF LifeTypeOK, PipeTypeOK
  <2>2. ProducerTypeOK'
    BY <1>0, <1>13 DEF CountDrop, LifeTypeOK, ProducerTypeOK
  <2>3. LifeTypeOK'
    BY <1>0, <1>13, <2>1, <2>2, KeepTypes DEF CountDrop
  <2>4. WritersSound'
    BY <1>0, <1>13 DEF CountDrop, WritersSound, WriterSound, Serving, LifeTypeOK, PipeTypeOK, WriterTypeOK, LifeStateTypeOK
  <2>5. ThreadsSound'
    BY <1>0, <1>13 DEF CountDrop, ThreadsSound, LifeTypeOK, ProducerTypeOK, FlushTypeOK, LifeStateTypeOK
  <2>6. StopSound'
    BY <1>0, <1>13 DEF CountDrop, StopSound, LifeTypeOK, WriterTypeOK, LifeStateTypeOK, JobTypeOK
  <2> QED BY <2>3, <2>4, <2>5, <2>6
<1>14. CASE LogElsewhere(p)
  <2>1. ProducerTypeOK'
    BY <1>0, <1>14 DEF LogElsewhere, LifeTypeOK, ProducerTypeOK
  <2>2. LifeTypeOK'
    BY <1>0, <1>14, <2>1, KeepTypes DEF LogElsewhere
  <2>3. WritersSound'
    BY <1>0, <1>14 DEF LogElsewhere, WritersSound, WriterSound, Serving, LifeTypeOK, PipeTypeOK, WriterTypeOK, LifeStateTypeOK
  <2>4. ThreadsSound'
    BY <1>0, <1>14 DEF LogElsewhere, ThreadsSound, LifeTypeOK, ProducerTypeOK, FlushTypeOK, LifeStateTypeOK
  <2>5. StopSound'
    BY <1>0, <1>14 DEF LogElsewhere, StopSound, LifeTypeOK, WriterTypeOK, LifeStateTypeOK, JobTypeOK
  <2> QED BY <2>2, <2>3, <2>4, <2>5
<1>15. CASE StartRaises(p)
  <2>1. PipeTypeOK'
    <3>1. /\ logged' \in [Pipelines -> Int]
          /\ startLock' \in [Pipelines -> Producers \cup {None}]
      <4>1. logged \in [Pipelines -> Int] /\ startLock \in [Pipelines -> Producers \cup {None}]
        BY DEF LifeTypeOK, PipeTypeOK
      <4>2. /\ logged' = [logged EXCEPT ![via[p]] = @ - 1]
            /\ startLock' = [startLock EXCEPT ![via[p]] = None]
        BY <1>15 DEF StartRaises, Unlocked
      <4>3. \A h \in Pipelines : logged[h] - 1 \in Int
        BY <4>1
      <4> QED BY <4>1, <4>2, <4>3
    <3>2. UNCHANGED <<queue, started, dropped, tickets>>
      BY <1>15 DEF StartRaises
    <3> QED BY <3>1, <3>2 DEF LifeTypeOK, PipeTypeOK
  <2>2. ProducerTypeOK'
    BY <1>0, <1>15 DEF StartRaises, LifeTypeOK, ProducerTypeOK
  <2>3. LifeTypeOK'
    BY <1>0, <1>15, <2>1, <2>2, KeepTypes DEF StartRaises
  <2>4. WritersSound'
    BY <1>0, <1>15 DEF StartRaises, WritersSound, WriterSound, Serving, LifeTypeOK, PipeTypeOK, WriterTypeOK, LifeStateTypeOK
  <2>5. ThreadsSound'
    BY <1>0, <1>15 DEF StartRaises, ThreadsSound, LifeTypeOK, ProducerTypeOK, FlushTypeOK, LifeStateTypeOK
  <2>6. StopSound'
    BY <1>0, <1>15 DEF StartRaises, StopSound, LifeTypeOK, WriterTypeOK, LifeStateTypeOK, JobTypeOK
  <2> QED BY <2>3, <2>4, <2>5, <2>6
<1> QED BY <1>1, <1>2, <1>3, <1>4, <1>5, <1>6, <1>7, <1>8, <1>9, <1>10, <1>11, <1>12, <1>13, <1>14, <1>15 DEF Emit

LEMMA LogTyped ==
  ASSUME TypedAndGiven, NEW p \in Producers, Log(p)
  PROVE  TypedAndGiven'
<1> USE Names DEF TypedAndGiven, Given
<1>1. CASE StartAgain(p)
  <2>1. PipeTypeOK'
    BY <1>1 DEF StartAgain, LifeTypeOK, PipeTypeOK, ThreadsSound, ProducerTypeOK, LifeStateTypeOK
  <2>2. ProducerTypeOK'
    BY <1>1 DEF StartAgain, LifeTypeOK, ProducerTypeOK
  <2>3. /\ LifeStateTypeOK' /\ WriterTypeOK' /\ FlushTypeOK' /\ stopping' \in Writers \cup {None}
        /\ WritersSound' /\ StopSound'
    <3>1. CASE UNCHANGED <<stateVars, writerVars, flushVars, stopping>>
      <4>1. UNCHANGED <<dropped, jpc>>
        BY <1>1 DEF StartAgain
      <4>2. WritersSound'
        BY <3>1, <4>1 DEF WritersSound, WriterSound, Serving
      <4> QED BY <3>1, <4>1, <4>2 DEF StopSound, LifeTypeOK, LifeStateTypeOK, WriterTypeOK, FlushTypeOK,
                                     JobTypeOK
    <3>2. CASE \E w \in Writers : AddThread(w) /\ UNCHANGED hand
      <4>1. PICK w \in Writers : AddThread(w) /\ UNCHANGED hand
        BY <3>2
      <4>2. writer # None /\ UNCHANGED <<dropped, jpc>>
        BY <1>1 DEF StartAgain
      <4> QED BY <4>1, <4>2, AddThreadTyped DEF Given
    <3> QED BY <1>1, <3>1, <3>2 DEF StartAgain
  <2>4. JobTypeOK'
    BY <1>1, <2>3 DEF StartAgain, LifeTypeOK, JobTypeOK
  <2>5. LifeTypeOK'
    BY <1>1, <2>1, <2>2, <2>3, <2>4, KeepTypes DEF StartAgain
  <2>6. ThreadsSound'
    BY <1>1 DEF StartAgain, AddThread, ThreadsSound, LifeTypeOK, ProducerTypeOK, FlushTypeOK
  <2> QED BY <2>3, <2>5, <2>6
<1> QED BY <1>1, EmitTyped DEF Log

\* Every step of a writer does.
LEMMA ServeTyped ==
  ASSUME TypedAndGiven, NEW w \in Writers, Serve(w)
  PROVE  TypedAndGiven'
<1> USE Names DEF TypedAndGiven, Given
<1>0. UNCHANGED jobVars
  BY DEF Serve
<1>1. CASE Take(w)
  <2>1. PipeTypeOK'
    BY <1>1, TakeTyped DEF Take, LifeTypeOK, PipeTypeOK
  <2>2. WriterTypeOK'
    BY <1>1, TakeTyped DEF Take, LifeTypeOK, WriterTypeOK
  <2>3. LifeTypeOK'
    BY <1>0, <1>1, <2>1, <2>2, KeepTypes DEF Take
  <2>4. WritersSound'
    BY <1>1, TakeTyped DEF Take, WritersSound, WriterSound, Serving, LifeTypeOK, WriterTypeOK
  <2>5. ThreadsSound'
    BY <1>0, <1>1 DEF Take, ThreadsSound, LifeTypeOK, ProducerTypeOK, FlushTypeOK, LifeStateTypeOK
  <2>6. StopSound'
    BY <1>0, <1>1 DEF Take, StopSound, LifeTypeOK, WriterTypeOK, LifeStateTypeOK, JobTypeOK
  <2> QED BY <2>3, <2>4, <2>5, <2>6
<1>2. CASE HandleMarker(w)
  <2>1. WriterTypeOK'
    BY <1>0, <1>2 DEF HandleMarker, LifeTypeOK, WriterTypeOK, LifeStateTypeOK, PipeTypeOK, WritersSound, WriterSound, Serving
  <2>2. SinkTypeOK'
    <3>1. hand[w] \in Item /\ released' = released \cup {<<hand[w].by, hand[w].n>>}
      BY <1>2 DEF HandleMarker, WritersSound, WriterSound
    <3>2. <<hand[w].by, hand[w].n>> \in (Producers \cup Flushers \cup {None}) \X Nat
      BY <3>1 DEF Item
    <3>3. /\ stream \in Seq(Entry) /\ Len(stream) \in Nat /\ flushed \in 0 .. Len(stream)
          /\ stream' = stream /\ flushed' \in {flushed, Len(stream)}
          /\ released \in SUBSET ((Producers \cup Flushers \cup {None}) \X Nat)
      BY <1>2 DEF HandleMarker, LifeTypeOK, SinkTypeOK
    <3>4. broken' \in BOOLEAN
      <4>1. broken' = broken \/ broken' = TRUE
        BY <1>2 DEF HandleMarker
      <4> QED BY <4>1 DEF LifeTypeOK, SinkTypeOK
    <3>5. flushed' \in 0 .. Len(stream')
      BY <3>3
    <3> QED BY <3>1, <3>2, <3>3, <3>4, <3>5 DEF SinkTypeOK
  <2>3. LifeTypeOK'
    BY <1>0, <1>2, <2>1, <2>2, KeepTypes DEF HandleMarker
  <2>4. WritersSound'
    BY <1>0, <1>2 DEF HandleMarker, WritersSound, WriterSound, Serving, LifeTypeOK, PipeTypeOK, WriterTypeOK, LifeStateTypeOK
  <2>5. ThreadsSound'
    BY <1>0, <1>2 DEF HandleMarker, ThreadsSound, LifeTypeOK, ProducerTypeOK, FlushTypeOK, LifeStateTypeOK
  <2>6. StopSound'
    BY <1>0, <1>2 DEF HandleMarker, StopSound, LifeTypeOK, WriterTypeOK, LifeStateTypeOK, JobTypeOK
  <2> QED BY <2>3, <2>4, <2>5, <2>6
<1>3. CASE WriteLine(w)
  <2>1. WriterTypeOK'
    BY <1>0, <1>3 DEF WriteLine, LifeTypeOK, WriterTypeOK, LifeStateTypeOK, PipeTypeOK, WritersSound, WriterSound, Serving
  <2>2. SinkTypeOK'
    BY <1>3, WriteLineTyped
  <2>3. LifeTypeOK'
    BY <1>0, <1>3, <2>1, <2>2, KeepTypes DEF WriteLine
  <2>4. WritersSound'
    <3>1. /\ wpc[w] = "handle" /\ UNCHANGED <<writer, dropped, wqueue>>
          /\ \A v \in Writers : wpc'[v] = IF v = w THEN "empty" ELSE wpc[v]
          /\ \A v \in Writers : v # w => hand'[v] = hand[v]
          /\ \A v \in Writers : reported'[v] = IF v = w THEN dropped[wqueue[w]] ELSE reported[v]
      BY <1>3 DEF WriteLine, LifeTypeOK, WriterTypeOK
    <3>2. wqueue[w] \in Pipelines /\ dropped[wqueue[w]] \in Nat
      BY <3>1 DEF WritersSound, WriterSound, LifeTypeOK, PipeTypeOK
    <3> SUFFICES ASSUME NEW v \in Writers PROVE WriterSound(v)'
      BY DEF WritersSound
    <3> QED BY <3>1, <3>2 DEF WritersSound, WriterSound, Serving
  <2>5. ThreadsSound'
    BY <1>0, <1>3 DEF WriteLine, ThreadsSound, LifeTypeOK, ProducerTypeOK, FlushTypeOK, LifeStateTypeOK
  <2>6. StopSound'
    BY <1>0, <1>3 DEF WriteLine, StopSound, LifeTypeOK, WriterTypeOK, LifeStateTypeOK, JobTypeOK
  <2> QED BY <2>3, <2>4, <2>5, <2>6
<1>4. CASE WriteFails(w)
  <2>1. PipeTypeOK'
    BY <1>4, CountedTyped DEF WriteFails, LifeTypeOK, PipeTypeOK
  <2>2. WriterTypeOK'
    BY <1>0, <1>4 DEF WriteFails, LifeTypeOK, WriterTypeOK, LifeStateTypeOK, PipeTypeOK, WritersSound, WriterSound, Serving
  <2>3. SinkTypeOK'
    BY <1>0, <1>4 DEF WriteFails, LifeTypeOK, SinkTypeOK
  <2>4. LifeTypeOK'
    BY <1>0, <1>4, <2>1, <2>2, <2>3, KeepTypes DEF WriteFails
  <2>5. WritersSound'
    BY <1>0, <1>4 DEF WriteFails, WritersSound, WriterSound, Serving, LifeTypeOK, PipeTypeOK, WriterTypeOK, LifeStateTypeOK
  <2>6. ThreadsSound'
    BY <1>0, <1>4 DEF WriteFails, ThreadsSound, LifeTypeOK, ProducerTypeOK, FlushTypeOK, LifeStateTypeOK
  <2>7. StopSound'
    BY <1>0, <1>4 DEF WriteFails, StopSound, LifeTypeOK, WriterTypeOK, LifeStateTypeOK, JobTypeOK
  <2> QED BY <2>4, <2>5, <2>6, <2>7
<1>5. CASE FlushIfEmpty(w)
  <2>1. WriterTypeOK'
    BY <1>0, <1>5 DEF FlushIfEmpty, LifeTypeOK, WriterTypeOK, LifeStateTypeOK, PipeTypeOK, WritersSound, WriterSound, Serving
  <2>2. SinkTypeOK'
    BY <1>0, <1>5 DEF FlushIfEmpty, LifeTypeOK, SinkTypeOK
  <2>3. LifeTypeOK'
    BY <1>0, <1>5, <2>1, <2>2, KeepTypes DEF FlushIfEmpty
  <2>4. WritersSound'
    BY <1>0, <1>5 DEF FlushIfEmpty, WritersSound, WriterSound, Serving, LifeTypeOK, PipeTypeOK, WriterTypeOK, LifeStateTypeOK
  <2>5. ThreadsSound'
    BY <1>0, <1>5 DEF FlushIfEmpty, ThreadsSound, LifeTypeOK, ProducerTypeOK, FlushTypeOK, LifeStateTypeOK
  <2>6. StopSound'
    BY <1>0, <1>5 DEF FlushIfEmpty, StopSound, LifeTypeOK, WriterTypeOK, LifeStateTypeOK, JobTypeOK
  <2> QED BY <2>3, <2>4, <2>5, <2>6
<1>6. CASE FlushFails(w)
  <2>1. PipeTypeOK'
    BY <1>6, CountedTyped DEF FlushFails, LifeTypeOK, PipeTypeOK
  <2>2. WriterTypeOK'
    BY <1>0, <1>6 DEF FlushFails, LifeTypeOK, WriterTypeOK, LifeStateTypeOK, PipeTypeOK, WritersSound, WriterSound, Serving
  <2>3. SinkTypeOK'
    BY <1>0, <1>6 DEF FlushFails, LifeTypeOK, SinkTypeOK
  <2>4. LifeTypeOK'
    BY <1>0, <1>6, <2>1, <2>2, <2>3, KeepTypes DEF FlushFails
  <2>5. WritersSound'
    BY <1>0, <1>6 DEF FlushFails, WritersSound, WriterSound, Serving, LifeTypeOK, PipeTypeOK, WriterTypeOK, LifeStateTypeOK
  <2>6. ThreadsSound'
    BY <1>0, <1>6 DEF FlushFails, ThreadsSound, LifeTypeOK, ProducerTypeOK, FlushTypeOK, LifeStateTypeOK
  <2>7. StopSound'
    BY <1>0, <1>6 DEF FlushFails, StopSound, LifeTypeOK, WriterTypeOK, LifeStateTypeOK, JobTypeOK
  <2> QED BY <2>4, <2>5, <2>6, <2>7
<1> QED BY <1>1, <1>2, <1>3, <1>4, <1>5, <1>6 DEF Serve, Write

\* Every step of a flush does.
LEMMA AwaitTyped ==
  ASSUME TypedAndGiven, NEW f \in Flushers, Await(f)
  PROVE  TypedAndGiven'
<1> USE Names DEF TypedAndGiven, Given
<1>0. UNCHANGED jobVars
  BY DEF Await
<1>1. CASE FlushCall(f)
  <2>1. FlushTypeOK'
    BY <1>1, StartFlushTyped DEF FlushCall
  <2>2. LifeTypeOK'
    BY <1>0, <1>1, <2>1, KeepTypes DEF FlushCall, StartFlush
  <2>3. WritersSound'
    BY <1>0, <1>1 DEF FlushCall, StartFlush, WritersSound, WriterSound, Serving, LifeTypeOK, PipeTypeOK, WriterTypeOK, LifeStateTypeOK
  <2>4. ThreadsSound'
    BY <1>0, <1>1 DEF FlushCall, StartFlush, ThreadsSound, LifeTypeOK, ProducerTypeOK, FlushTypeOK, LifeStateTypeOK
  <2>5. StopSound'
    BY <1>0, <1>1 DEF FlushCall, StartFlush, StopSound, LifeTypeOK, WriterTypeOK, LifeStateTypeOK, JobTypeOK
  <2> QED BY <2>2, <2>3, <2>4, <2>5
<1>2. CASE PutMarker(f)
  <2>1. PipeTypeOK'
    BY <1>0, <1>2, PutTyped, LifeItems DEF PutMarker, LifeTypeOK, PipeTypeOK
  <2>2. FlushTypeOK'
    BY <1>0, <1>2 DEF PutMarker, LifeTypeOK, FlushTypeOK
  <2>3. LifeTypeOK'
    BY <1>0, <1>2, <2>1, <2>2, KeepTypes DEF PutMarker
  <2>4. WritersSound'
    BY <1>0, <1>2 DEF PutMarker, WritersSound, WriterSound, Serving, LifeTypeOK, PipeTypeOK, WriterTypeOK, LifeStateTypeOK
  <2>5. ThreadsSound'
    BY <1>0, <1>2 DEF PutMarker, ThreadsSound, LifeTypeOK, ProducerTypeOK, FlushTypeOK, LifeStateTypeOK
  <2>6. StopSound'
    BY <1>0, <1>2 DEF PutMarker, StopSound, LifeTypeOK, WriterTypeOK, LifeStateTypeOK, JobTypeOK
  <2> QED BY <2>3, <2>4, <2>5, <2>6
<1>3. CASE FlushReleased(f)
  <2>1. FlushTypeOK'
    BY <1>0, <1>3 DEF FlushReleased, LifeTypeOK, FlushTypeOK
  <2>2. LifeTypeOK'
    BY <1>0, <1>3, <2>1, KeepTypes DEF FlushReleased
  <2>3. WritersSound'
    BY <1>0, <1>3 DEF FlushReleased, WritersSound, WriterSound, Serving, LifeTypeOK, PipeTypeOK, WriterTypeOK, LifeStateTypeOK
  <2>4. ThreadsSound'
    BY <1>0, <1>3 DEF FlushReleased, ThreadsSound, LifeTypeOK, ProducerTypeOK, FlushTypeOK, LifeStateTypeOK
  <2>5. StopSound'
    BY <1>0, <1>3 DEF FlushReleased, StopSound, LifeTypeOK, WriterTypeOK, LifeStateTypeOK, JobTypeOK
  <2> QED BY <2>2, <2>3, <2>4, <2>5
<1>4. CASE FlushTimesOut(f)
  <2>1. FlushTypeOK'
    BY <1>0, <1>4 DEF FlushTimesOut, LifeTypeOK, FlushTypeOK
  <2>2. LifeTypeOK'
    BY <1>0, <1>4, <2>1, KeepTypes DEF FlushTimesOut
  <2>3. WritersSound'
    BY <1>0, <1>4 DEF FlushTimesOut, WritersSound, WriterSound, Serving, LifeTypeOK, PipeTypeOK, WriterTypeOK, LifeStateTypeOK
  <2>4. ThreadsSound'
    BY <1>0, <1>4 DEF FlushTimesOut, ThreadsSound, LifeTypeOK, ProducerTypeOK, FlushTypeOK, LifeStateTypeOK
  <2>5. StopSound'
    BY <1>0, <1>4 DEF FlushTimesOut, StopSound, LifeTypeOK, WriterTypeOK, LifeStateTypeOK, JobTypeOK
  <2> QED BY <2>2, <2>3, <2>4, <2>5
<1>5. CASE FlushFindsDead(f)
  <2>1. FlushTypeOK'
    BY <1>0, <1>5 DEF FlushFindsDead, LifeTypeOK, FlushTypeOK
  <2>2. LifeTypeOK'
    BY <1>0, <1>5, <2>1, KeepTypes DEF FlushFindsDead
  <2>3. WritersSound'
    BY <1>0, <1>5 DEF FlushFindsDead, WritersSound, WriterSound, Serving, LifeTypeOK, PipeTypeOK, WriterTypeOK, LifeStateTypeOK
  <2>4. ThreadsSound'
    BY <1>0, <1>5 DEF FlushFindsDead, ThreadsSound, LifeTypeOK, ProducerTypeOK, FlushTypeOK, LifeStateTypeOK
  <2>5. StopSound'
    BY <1>0, <1>5 DEF FlushFindsDead, StopSound, LifeTypeOK, WriterTypeOK, LifeStateTypeOK, JobTypeOK
  <2> QED BY <2>2, <2>3, <2>4, <2>5
<1> QED BY <1>1, <1>2, <1>3, <1>4, <1>5 DEF Await, Flush

\* Every step of a job does.
LEMMA JobTyped ==
  ASSUME TypedAndGiven, Job
  PROVE  TypedAndGiven'
<1> USE Names DEF TypedAndGiven, Given
<1>1. CASE PutSentinel
  <2>1. PipeTypeOK'
    BY <1>1, PutTyped, LifeItems DEF PutSentinel, LifeTypeOK, PipeTypeOK
  <2>2. JobTypeOK'
    BY <1>1 DEF PutSentinel, LifeTypeOK, JobTypeOK, LifeStateTypeOK, PipeTypeOK
  <2>3. LifeTypeOK'
    BY <1>1, <2>1, <2>2, KeepTypes DEF PutSentinel
  <2>4. WritersSound'
    BY <1>1 DEF PutSentinel, WritersSound, WriterSound, Serving, LifeTypeOK, PipeTypeOK, WriterTypeOK, LifeStateTypeOK
  <2>5. ThreadsSound'
    BY <1>1 DEF PutSentinel, ThreadsSound, LifeTypeOK, ProducerTypeOK, FlushTypeOK, LifeStateTypeOK
  <2>6. StopSound'
    BY <1>1 DEF PutSentinel, StopSound, LifeTypeOK, WriterTypeOK, LifeStateTypeOK, JobTypeOK
  <2> QED BY <2>3, <2>4, <2>5, <2>6
<1>2. CASE ForceSentinel
  <2>1. PipeTypeOK'
    BY <1>2, PutTyped, LifeItems DEF ForceSentinel, LifeTypeOK, PipeTypeOK
  <2>2. JobTypeOK'
    BY <1>2, AfterStops DEF ForceSentinel, LifeTypeOK, JobTypeOK, LifeStateTypeOK, PipeTypeOK
  <2>3. LifeTypeOK'
    BY <1>2, <2>1, <2>2, KeepTypes DEF ForceSentinel
  <2>4. WritersSound'
    BY <1>2 DEF ForceSentinel, WritersSound, WriterSound, Serving, LifeTypeOK, PipeTypeOK, WriterTypeOK, LifeStateTypeOK
  <2>5. ThreadsSound'
    BY <1>2 DEF ForceSentinel, ThreadsSound, LifeTypeOK, ProducerTypeOK, FlushTypeOK, LifeStateTypeOK
  <2>6. StopSound'
    BY <1>2, AfterStops DEF ForceSentinel, StopSound, LifeTypeOK, WriterTypeOK, LifeStateTypeOK, JobTypeOK
  <2> QED BY <2>3, <2>4, <2>5, <2>6
<1>3. CASE ForceFull
  <2>1. JobTypeOK'
    BY <1>3, AfterStops DEF ForceFull, LifeTypeOK, JobTypeOK, LifeStateTypeOK, PipeTypeOK
  <2>2. LifeTypeOK'
    BY <1>3, <2>1, KeepTypes DEF ForceFull
  <2>3. WritersSound'
    BY <1>3 DEF ForceFull, WritersSound, WriterSound, Serving, LifeTypeOK, PipeTypeOK, WriterTypeOK, LifeStateTypeOK
  <2>4. ThreadsSound'
    BY <1>3 DEF ForceFull, ThreadsSound, LifeTypeOK, ProducerTypeOK, FlushTypeOK, LifeStateTypeOK
  <2>5. StopSound'
    BY <1>3, AfterStops DEF ForceFull, StopSound, LifeTypeOK, WriterTypeOK, LifeStateTypeOK, JobTypeOK
  <2> QED BY <2>2, <2>3, <2>4, <2>5
<1>4. CASE Join
  <2>1. JobTypeOK'
    BY <1>4, AfterStops DEF Join, Joined, LifeTypeOK, JobTypeOK, LifeStateTypeOK, PipeTypeOK
  <2>2. LifeTypeOK'
    BY <1>4, <2>1, KeepTypes DEF Join, Joined
  <2>3. WritersSound'
    BY <1>4 DEF Join, Joined, WritersSound, WriterSound, Serving, LifeTypeOK, PipeTypeOK, WriterTypeOK, LifeStateTypeOK
  <2>4. ThreadsSound'
    BY <1>4 DEF Join, Joined, ThreadsSound, LifeTypeOK, ProducerTypeOK, FlushTypeOK, LifeStateTypeOK
  <2>5. StopSound'
    BY <1>4, AfterStops DEF Join, Joined, StopSound, LifeTypeOK, WriterTypeOK, LifeStateTypeOK, JobTypeOK
  <2> QED BY <2>2, <2>3, <2>4, <2>5
<1>5. CASE ForkBegin
  <2>1. JobTypeOK'
    <3>1. Begin("fork") /\ UNCHANGED <<made, inChild, floor>>
          /\ jpc' \in {"put", "force", "fork"} /\ wasRunning' = (writer # None)
      BY <1>5 DEF ForkBegin, CallStop, Running
    <3>2. wasRunning' \in BOOLEAN
      BY <3>1
    <3> QED BY <3>1, <3>2, BeginTyped, JobNames DEF LifeTypeOK, JobTypeOK
  <2>2. LifeTypeOK'
    BY <1>5, <2>1, KeepTypes DEF ForkBegin, Begin, CallStop, Running
  <2>3. WritersSound'
    BY <1>5 DEF ForkBegin, Begin, CallStop, Running, WritersSound, WriterSound, Serving, LifeTypeOK, PipeTypeOK, WriterTypeOK, LifeStateTypeOK
  <2>4. ThreadsSound'
    BY <1>5 DEF ForkBegin, Begin, CallStop, Running, ThreadsSound, LifeTypeOK, ProducerTypeOK, FlushTypeOK, LifeStateTypeOK
  <2>5. StopSound'
    BY <1>5 DEF ForkBegin, Begin, CallStop, Running, StopSound, LifeTypeOK, WriterTypeOK, LifeStateTypeOK, JobTypeOK
  <2> QED BY <2>2, <2>3, <2>4, <2>5
<1>6. CASE ParentResumes
  <2>1. JobTypeOK'
    BY <1>6 DEF ParentResumes, LifeTypeOK, JobTypeOK, LifeStateTypeOK, PipeTypeOK
  <2>2. LifeTypeOK'
    BY <1>6, <2>1, KeepTypes DEF ParentResumes
  <2>3. WritersSound'
    BY <1>6 DEF ParentResumes, WritersSound, WriterSound, Serving, LifeTypeOK, PipeTypeOK, WriterTypeOK, LifeStateTypeOK
  <2>4. ThreadsSound'
    BY <1>6 DEF ParentResumes, ThreadsSound, LifeTypeOK, ProducerTypeOK, FlushTypeOK, LifeStateTypeOK
  <2>5. StopSound'
    BY <1>6 DEF ParentResumes, StopSound, LifeTypeOK, WriterTypeOK, LifeStateTypeOK, JobTypeOK
  <2> QED BY <2>2, <2>3, <2>4, <2>5
<1>7. CASE RestartWriter
  <2>1. LifeStateTypeOK'
    BY <1>7 DEF RestartWriter, LifeTypeOK, LifeStateTypeOK
  <2>2. WriterTypeOK'
    BY <1>7 DEF RestartWriter, LifeTypeOK, WriterTypeOK, LifeStateTypeOK, PipeTypeOK, WritersSound, WriterSound, Serving
  <2>3. JobTypeOK'
    BY <1>7 DEF RestartWriter, LifeTypeOK, JobTypeOK, LifeStateTypeOK, PipeTypeOK
  <2>4. LifeTypeOK'
    BY <1>7, <2>1, <2>2, <2>3, KeepTypes DEF RestartWriter
  <2>5. WritersSound'
    BY <1>7 DEF RestartWriter, WritersSound, WriterSound, Serving, LifeTypeOK, PipeTypeOK, WriterTypeOK, LifeStateTypeOK
  <2>6. ThreadsSound'
    BY <1>7 DEF RestartWriter, ThreadsSound, LifeTypeOK, ProducerTypeOK, FlushTypeOK, LifeStateTypeOK
  <2>7. StopSound'
    BY <1>7 DEF RestartWriter, StopSound, LifeTypeOK, WriterTypeOK, LifeStateTypeOK, JobTypeOK
  <2> QED BY <2>4, <2>5, <2>6, <2>7
<1>8. CASE RelaunchWriter
  <2>1. WriterTypeOK'
    BY <1>8 DEF RelaunchWriter, LifeTypeOK, WriterTypeOK, LifeStateTypeOK, PipeTypeOK, WritersSound, WriterSound, Serving
  <2>2. JobTypeOK'
    BY <1>8 DEF RelaunchWriter, LifeTypeOK, JobTypeOK, LifeStateTypeOK, PipeTypeOK
  <2>3. LifeTypeOK'
    BY <1>8, <2>1, <2>2, KeepTypes DEF RelaunchWriter
  <2>4. WritersSound'
    BY <1>8 DEF RelaunchWriter, WritersSound, WriterSound, Serving, LifeTypeOK, PipeTypeOK, WriterTypeOK, LifeStateTypeOK
  <2>5. ThreadsSound'
    BY <1>8 DEF RelaunchWriter, ThreadsSound, LifeTypeOK, ProducerTypeOK, FlushTypeOK, LifeStateTypeOK
  <2>6. StopSound'
    BY <1>8 DEF RelaunchWriter, StopSound, LifeTypeOK, WriterTypeOK, LifeStateTypeOK, JobTypeOK
  <2> QED BY <2>3, <2>4, <2>5, <2>6
<1>18. CASE RelaunchAgain
  <2>1. writer # None
    BY <1>18, Names DEF RelaunchAgain, StopSound
  <2>2. /\ LifeStateTypeOK' /\ WriterTypeOK' /\ FlushTypeOK' /\ stopping' \in Writers \cup {None}
        /\ WritersSound' /\ StopSound'
    <3>1. CASE UNCHANGED <<vars, stopping>>
      <4>1. WritersSound'
        BY <3>1 DEF WritersSound, WriterSound, Serving
      <4>2. StopSound'
        BY <1>18, <3>1 DEF RelaunchAgain, StopSound
      <4> QED BY <3>1, <4>1, <4>2 DEF LifeTypeOK, LifeStateTypeOK, WriterTypeOK, FlushTypeOK, JobTypeOK
    <3>2. CASE \E w \in Writers : AddThread(w) /\ UNCHANGED <<hand, dropped>>
      BY <1>18, <2>1, <3>2, AddThreadTyped DEF RelaunchAgain, Given
    <3> QED BY <1>18, <3>1, <3>2 DEF RelaunchAgain
  <2>3. JobTypeOK'
    BY <1>18, <2>2 DEF RelaunchAgain, LifeTypeOK, JobTypeOK
  <2>4. LifeTypeOK'
    BY <1>18, <2>2, <2>3, KeepTypes DEF RelaunchAgain
  <2>5. ThreadsSound'
    BY <1>18 DEF RelaunchAgain, AddThread, ThreadsSound
  <2> QED BY <2>2, <2>4, <2>5
<1>9. CASE ChildResumes
  <2>1. LifeStateTypeOK'
    BY <1>9 DEF ChildResumes, LifeTypeOK, LifeStateTypeOK
  <2>2. PipeTypeOK'
    <3>1. /\ queue' = [queue EXCEPT ![handler] = <<>>] /\ dropped' = [dropped EXCEPT ![handler] = 0]
          /\ started' = [started EXCEPT ![handler] = FALSE] /\ logged' = [h \in Pipelines |-> 0]
          /\ UNCHANGED <<startLock, tickets>>
      BY <1>9 DEF ChildResumes, Renewed
    <3>2. <<>> \in Seq(Item)
      OBVIOUS
    <3>3. queue' \in [Pipelines -> Seq(Item)]
      BY <3>1, <3>2 DEF LifeTypeOK, PipeTypeOK
    <3>4. dropped' \in [Pipelines -> Nat] /\ logged' \in [Pipelines -> Int]
      <4>1. dropped \in [Pipelines -> Nat]
        BY DEF LifeTypeOK, PipeTypeOK
      <4>2. dropped' \in [Pipelines -> Nat]
        BY <3>1, <4>1
      <4>3. logged' \in [Pipelines -> Int]
        BY <3>1
      <4> QED BY <4>2, <4>3
    <3>5. started' \in [Pipelines -> BOOLEAN]
      <4>1. started \in [Pipelines -> BOOLEAN]
        BY DEF LifeTypeOK, PipeTypeOK
      <4> QED BY <3>1, <4>1
    <3> QED BY <3>1, <3>3, <3>4, <3>5 DEF LifeTypeOK, PipeTypeOK
  <2>3. WriterTypeOK'
    BY <1>9 DEF ChildResumes, LifeTypeOK, WriterTypeOK, LifeStateTypeOK, PipeTypeOK, WritersSound, WriterSound, Serving
  <2>4. ProducerTypeOK'
    BY <1>9 DEF ChildResumes, LifeTypeOK, ProducerTypeOK
  <2>5. FlushTypeOK'
    BY <1>9 DEF ChildResumes, LifeTypeOK, FlushTypeOK
  <2>6. SinkTypeOK'
    BY <1>9 DEF ChildResumes, LifeTypeOK, SinkTypeOK
  <2>7. JobTypeOK'
    BY <1>9 DEF ChildResumes, LifeTypeOK, JobTypeOK, LifeStateTypeOK, PipeTypeOK
  <2>8. LifeTypeOK'
    BY <1>9, <2>1, <2>2, <2>3, <2>4, <2>5, <2>6, <2>7, KeepTypes DEF ChildResumes
  <2>9. WritersSound'
    BY <1>9 DEF ChildResumes, WritersSound, WriterSound, Serving, LifeTypeOK, PipeTypeOK, WriterTypeOK, LifeStateTypeOK
  <2>10. ThreadsSound'
    BY <1>9 DEF ChildResumes, ThreadsSound, LifeTypeOK, ProducerTypeOK, FlushTypeOK, LifeStateTypeOK
  <2>11. StopSound'
    BY <1>9 DEF ChildResumes, StopSound, LifeTypeOK, WriterTypeOK, LifeStateTypeOK, JobTypeOK
  <2> QED BY <2>8, <2>9, <2>10, <2>11
<1>10. CASE InstallBegin
  <2>1. JobTypeOK'
    <3>1. Begin("install") /\ UNCHANGED <<wasRunning, made, inChild, floor>>
          /\ jpc' \in {"put", "force", "swap"}
      BY <1>10 DEF InstallBegin, CallStop
    <3> QED BY <3>1, BeginTyped, JobNames DEF LifeTypeOK, JobTypeOK
  <2>2. LifeTypeOK'
    BY <1>10, <2>1, KeepTypes DEF InstallBegin, Begin, CallStop
  <2>3. WritersSound'
    BY <1>10 DEF InstallBegin, Begin, CallStop, WritersSound, WriterSound, Serving, LifeTypeOK, PipeTypeOK, WriterTypeOK, LifeStateTypeOK
  <2>4. ThreadsSound'
    BY <1>10 DEF InstallBegin, Begin, CallStop, ThreadsSound, LifeTypeOK, ProducerTypeOK, FlushTypeOK, LifeStateTypeOK
  <2>5. StopSound'
    BY <1>10 DEF InstallBegin, Begin, CallStop, StopSound, LifeTypeOK, WriterTypeOK, LifeStateTypeOK, JobTypeOK
  <2> QED BY <2>2, <2>3, <2>4, <2>5
<1>11. CASE InstallHandler
  <2>1. LifeStateTypeOK'
    BY <1>11 DEF InstallHandler, LifeTypeOK, LifeStateTypeOK
  <2>2. JobTypeOK'
    BY <1>11 DEF InstallHandler, LifeTypeOK, JobTypeOK, LifeStateTypeOK, PipeTypeOK
  <2>3. LifeTypeOK'
    BY <1>11, <2>1, <2>2, KeepTypes DEF InstallHandler
  <2>4. WritersSound'
    BY <1>11 DEF InstallHandler, WritersSound, WriterSound, Serving, LifeTypeOK, PipeTypeOK, WriterTypeOK, LifeStateTypeOK
  <2>5. ThreadsSound'
    BY <1>11 DEF InstallHandler, ThreadsSound, LifeTypeOK, ProducerTypeOK, FlushTypeOK, LifeStateTypeOK
  <2>6. StopSound'
    BY <1>11 DEF InstallHandler, StopSound, LifeTypeOK, WriterTypeOK, LifeStateTypeOK, JobTypeOK
  <2> QED BY <2>3, <2>4, <2>5, <2>6
<1>12. CASE DetachRoot
  <2>1. LifeStateTypeOK'
    BY <1>12 DEF DetachRoot, LifeTypeOK, LifeStateTypeOK
  <2>2. JobTypeOK'
    BY <1>12 DEF DetachRoot, LifeTypeOK, JobTypeOK, LifeStateTypeOK, PipeTypeOK
  <2>3. LifeTypeOK'
    BY <1>12, <2>1, <2>2, KeepTypes DEF DetachRoot
  <2>4. WritersSound'
    BY <1>12 DEF DetachRoot, WritersSound, WriterSound, Serving, LifeTypeOK, PipeTypeOK, WriterTypeOK, LifeStateTypeOK
  <2>5. ThreadsSound'
    BY <1>12 DEF DetachRoot, ThreadsSound, LifeTypeOK, ProducerTypeOK, FlushTypeOK, LifeStateTypeOK
  <2>6. StopSound'
    BY <1>12 DEF DetachRoot, StopSound, LifeTypeOK, WriterTypeOK, LifeStateTypeOK, JobTypeOK
  <2> QED BY <2>3, <2>4, <2>5, <2>6
<1>13. CASE AttachRoot
  <2>1. LifeStateTypeOK'
    BY <1>13 DEF AttachRoot, LifeTypeOK, LifeStateTypeOK
  <2>2. JobTypeOK'
    BY <1>13 DEF AttachRoot, LifeTypeOK, JobTypeOK, LifeStateTypeOK, PipeTypeOK
  <2>3. LifeTypeOK'
    BY <1>13, <2>1, <2>2, KeepTypes DEF AttachRoot
  <2>4. WritersSound'
    BY <1>13 DEF AttachRoot, WritersSound, WriterSound, Serving, LifeTypeOK, PipeTypeOK, WriterTypeOK, LifeStateTypeOK
  <2>5. ThreadsSound'
    BY <1>13 DEF AttachRoot, ThreadsSound, LifeTypeOK, ProducerTypeOK, FlushTypeOK, LifeStateTypeOK
  <2>6. StopSound'
    BY <1>13 DEF AttachRoot, StopSound, LifeTypeOK, WriterTypeOK, LifeStateTypeOK, JobTypeOK
  <2> QED BY <2>3, <2>4, <2>5, <2>6
<1>14. CASE ShutdownBegin
  <2>1. FlushTypeOK'
    <3>1. CASE StartFlush(Admin, TRUE)
      BY <3>1, StartFlushTyped
    <3>2. CASE UNCHANGED vars
      BY <3>2 DEF LifeTypeOK, FlushTypeOK
    <3> QED BY <1>14, <3>1, <3>2 DEF ShutdownBegin
  <2>2. JobTypeOK'
    <3>1. Begin("shutdown") /\ UNCHANGED <<wasRunning, made, inChild, floor>>
          /\ jpc' \in {"redirect", "drain"}
      BY <1>14 DEF ShutdownBegin
    <3> QED BY <3>1, BeginTyped, JobNames DEF LifeTypeOK, JobTypeOK
  <2>3. LifeTypeOK'
    BY <1>14, <2>1, <2>2, KeepTypes DEF ShutdownBegin, Begin, CallStop, StartFlush
  <2>4. WritersSound'
    BY <1>14 DEF ShutdownBegin, Begin, CallStop, StartFlush, WritersSound, WriterSound, Serving, LifeTypeOK, PipeTypeOK, WriterTypeOK, LifeStateTypeOK
  <2>5. ThreadsSound'
    BY <1>14 DEF ShutdownBegin, Begin, CallStop, StartFlush, ThreadsSound, LifeTypeOK, ProducerTypeOK, FlushTypeOK, LifeStateTypeOK
  <2>6. StopSound'
    BY <1>14 DEF ShutdownBegin, Begin, CallStop, StartFlush, StopSound, LifeTypeOK, WriterTypeOK, LifeStateTypeOK, JobTypeOK
  <2> QED BY <2>3, <2>4, <2>5, <2>6
<1>15. CASE ShutdownStop
  <2>1. JobTypeOK'
    BY <1>15 DEF ShutdownStop, CallStop, LifeTypeOK, JobTypeOK, LifeStateTypeOK, PipeTypeOK
  <2>2. LifeTypeOK'
    BY <1>15, <2>1, KeepTypes DEF ShutdownStop, CallStop
  <2>3. WritersSound'
    BY <1>15 DEF ShutdownStop, CallStop, WritersSound, WriterSound, Serving, LifeTypeOK, PipeTypeOK, WriterTypeOK, LifeStateTypeOK
  <2>4. ThreadsSound'
    BY <1>15 DEF ShutdownStop, CallStop, ThreadsSound, LifeTypeOK, ProducerTypeOK, FlushTypeOK, LifeStateTypeOK
  <2>5. StopSound'
    BY <1>15 DEF ShutdownStop, CallStop, StopSound, LifeTypeOK, WriterTypeOK, LifeStateTypeOK, JobTypeOK
  <2> QED BY <2>2, <2>3, <2>4, <2>5
<1>16. CASE RedirectRoot
  <2>1. LifeStateTypeOK'
    BY <1>16 DEF RedirectRoot, LifeTypeOK, LifeStateTypeOK
  <2>2. JobTypeOK'
    BY <1>16 DEF RedirectRoot, LifeTypeOK, JobTypeOK, LifeStateTypeOK, PipeTypeOK
  <2>3. LifeTypeOK'
    BY <1>16, <2>1, <2>2, KeepTypes DEF RedirectRoot
  <2>4. WritersSound'
    BY <1>16 DEF RedirectRoot, WritersSound, WriterSound, Serving, LifeTypeOK, PipeTypeOK, WriterTypeOK, LifeStateTypeOK
  <2>5. ThreadsSound'
    BY <1>16 DEF RedirectRoot, ThreadsSound, LifeTypeOK, ProducerTypeOK, FlushTypeOK, LifeStateTypeOK
  <2>6. StopSound'
    BY <1>16 DEF RedirectRoot, StopSound, LifeTypeOK, WriterTypeOK, LifeStateTypeOK, JobTypeOK
  <2> QED BY <2>3, <2>4, <2>5, <2>6
<1>17. CASE ForgetHandler
  <2>1. LifeStateTypeOK'
    BY <1>17 DEF ForgetHandler, LifeTypeOK, LifeStateTypeOK
  <2>2. JobTypeOK'
    BY <1>17 DEF ForgetHandler, LifeTypeOK, JobTypeOK, LifeStateTypeOK, PipeTypeOK
  <2>3. LifeTypeOK'
    BY <1>17, <2>1, <2>2, KeepTypes DEF ForgetHandler
  <2>4. WritersSound'
    BY <1>17 DEF ForgetHandler, WritersSound, WriterSound, Serving, LifeTypeOK, PipeTypeOK, WriterTypeOK, LifeStateTypeOK
  <2>5. ThreadsSound'
    BY <1>17 DEF ForgetHandler, ThreadsSound, LifeTypeOK, ProducerTypeOK, FlushTypeOK, LifeStateTypeOK
  <2>6. StopSound'
    BY <1>17 DEF ForgetHandler, StopSound, LifeTypeOK, WriterTypeOK, LifeStateTypeOK, JobTypeOK
  <2> QED BY <2>3, <2>4, <2>5, <2>6
<1> QED BY <1>1, <1>2, <1>3, <1>4, <1>5, <1>6, <1>7, <1>8, <1>9, <1>10, <1>11, <1>12, <1>13, <1>14, <1>15, <1>16, <1>17, <1>18
        DEF Job, Stop, Fork, Install, Shutdown

\* Whatever job and thread take the step.
LEMMA LifeTypedKept ==
  ASSUME TypedAndGiven, [LifeNext]_lifeVars
  PROVE  TypedAndGiven'
<1>1. CASE UNCHANGED lifeVars
  <2>1. LifeTypeOK'
    BY <1>1, KeepTypes DEF TypedAndGiven
  <2>2. WritersSound'
    BY <1>1 DEF TypedAndGiven, Given, WritersSound, WriterSound, Serving
  <2>3. ThreadsSound' /\ StopSound'
    BY <1>1 DEF TypedAndGiven, Given, ThreadsSound, StopSound
  <2> QED BY <2>1, <2>2, <2>3 DEF TypedAndGiven, Given
<1>2. CASE LifeFinished
  BY <1>1, <1>2 DEF LifeFinished
<1> QED BY <1>1, <1>2, LogTyped, ServeTyped, AwaitTyped, JobTyped DEF LifeNext

LEMMA LifeTyped == LifeSpec => []TypedAndGiven
<1>1. TypedAndGiven /\ [LifeNext]_lifeVars => TypedAndGiven'
  BY LifeTypedKept
<1> QED BY <1>1, LifeInitTyped, PTL DEF LifeSpec

\* Every variable has its type in every reachable state, and no notice reports a
\* negative number of drops: the counters that a fork renews belong to a pipeline
\* that no writer serves any more.
THEOREM LifeTypeCorrect == LifeSpec => []LifeTypeOK
<1>1. TypedAndGiven => LifeTypeOK
  BY DEF TypedAndGiven
<1> QED BY <1>1, LifeTyped, PTL

-----------------------------------------------------------------------------
(* Where a line can be: what a step does to the queues, to the hands of    *)
(* the writers and to the stream.                                          *)

SameHands(W) ==
  \A w \in W : \A h \in Pipelines :
    /\ HoldsLine(w, h)' <=> HoldsLine(w, h)
    /\ HoldsLine(w, h) => hand'[w] = hand[w]

LinesStay == UNCHANGED <<queue, tickets, stream, floor>> /\ SameHands(Writers)

LinePut(h, x) ==
  /\ x \in Item
  /\ queue' = [queue EXCEPT ![h] = Append(queue[h], x)]
  /\ IF x.kind = "line"
     THEN x.n = tickets[h] + 1 /\ tickets' = [tickets EXCEPT ![h] = @ + 1]
     ELSE UNCHANGED tickets
  /\ UNCHANGED <<stream, floor>> /\ SameHands(Writers)

LineTaken(w) == Take(w) /\ UNCHANGED floor

LineOut(w, h) ==
  /\ HoldsLine(w, h) /\ \A g \in Pipelines : ~ HoldsLine(w, g)'
  /\ SameHands(Writers \ {w})
  /\ UNCHANGED <<queue, tickets, floor>>
  /\ \E line, note \in Entry :
       /\ line = [kind |-> "line", on |-> h, n |-> hand[w].n] /\ note.kind = "note"
       /\ stream' \in {Append(stream, line), Append(Append(stream, line), note)}

LineLost(w) ==
  /\ "stream" \in Faults
  /\ \A g \in Pipelines : ~ HoldsLine(w, g)'
  /\ SameHands(Writers \ {w})
  /\ UNCHANGED <<queue, tickets, stream, floor>>

LinesLeft ==
  /\ queue' = [queue EXCEPT ![handler] = <<>>]
  /\ UNCHANGED tickets /\ floor' = tickets
  /\ \A w \in Writers : \A h \in Pipelines : ~ HoldsLine(w, h)'
  /\ stream' = SubSeq(stream, flushed + 1, Len(stream))

LineMove ==
  \/ LinesStay \/ LinesLeft
  \/ \E h \in Pipelines, x \in Item : LinePut(h, x)
  \/ \E w \in Writers : LineTaken(w) \/ LineLost(w) \/ \E h \in Pipelines : LineOut(w, h)

LEMMA WriteLineMoves ==
  ASSUME TypedAndGiven, NEW w \in Writers, WriteLine(w), UNCHANGED floor
  PROVE  \E h \in Pipelines : LineOut(w, h)
<1> DEFINE h == wqueue[w]
           line == [kind |-> "line", on |-> h, n |-> hand[w].n]
           note == [kind |-> "note", on |-> h, n |-> Delta(w)]
<1>1. h \in Pipelines /\ reported[w] <= dropped[h] /\ hand[w] \in Item
  BY DEF WriteLine, TypedAndGiven, Given, WritersSound, WriterSound, Serving
<1>2. hand[w].n \in Nat /\ Delta(w) \in Nat
  BY <1>1 DEF Item, TypedAndGiven, LifeTypeOK, PipeTypeOK, WriterTypeOK
<1>3. line \in Entry /\ note \in Entry /\ note.kind = "note"
  BY <1>1, <1>2 DEF Entry
<1>4. stream' \in {Append(stream, line), Append(Append(stream, line), note)}
  BY DEF WriteLine
<1>5. HoldsLine(w, h) /\ \A g \in Pipelines : ~ HoldsLine(w, g)'
  BY DEF WriteLine, HoldsLine, TypedAndGiven, LifeTypeOK, WriterTypeOK
<1>6. SameHands(Writers \ {w}) /\ UNCHANGED <<queue, tickets, floor>>
  BY DEF WriteLine, HoldsLine, SameHands, TypedAndGiven, LifeTypeOK, WriterTypeOK
<1> QED BY <1>1, <1>3, <1>4, <1>5, <1>6 DEF LineOut

LEMMA AddThreadMoves ==
  ASSUME TypedAndGiven, NEW w \in Writers, AddThread(w),
         UNCHANGED <<queue, tickets, stream, floor, hand>>
  PROVE  LineMove
BY DEF AddThread, LineMove, LinesStay, SameHands, HoldsLine, TypedAndGiven, LifeTypeOK, WriterTypeOK

LEMMA LogMoves ==
  ASSUME TypedAndGiven, NEW p \in Producers, Log(p)
  PROVE  LineMove
<1>0. UNCHANGED floor
  BY DEF Log, StartAgain
<1>1. CASE Enqueue(p)
  <2>1. via[p] \in Pipelines
    BY <1>1 DEF Enqueue, TypedAndGiven, Given, ThreadsSound
  <2>2. Line(via[p], p) \in Item
    BY <2>1, LifeItems DEF TypedAndGiven
  <2>3. Line(via[p], p).kind = "line" /\ Line(via[p], p).n = tickets[via[p]] + 1
    BY DEF Line
  <2>4. LinePut(via[p], Line(via[p], p))
    BY <1>0, <1>1, <2>2, <2>3 DEF Enqueue, LinePut, SameHands, HoldsLine
  <2> QED BY <2>1, <2>2, <2>4 DEF LineMove
<1>2. CASE CreateWriter(p)
  BY <1>0, <1>2 DEF CreateWriter, LineMove, LinesStay, SameHands, HoldsLine, TypedAndGiven,
                    LifeTypeOK, WriterTypeOK
<1>3. CASE LaunchWriter(p)
  BY <1>0, <1>3 DEF LaunchWriter, LineMove, LinesStay, SameHands, HoldsLine, TypedAndGiven,
                    LifeTypeOK, WriterTypeOK
<1>4. CASE StartAgain(p)
  <2>1. UNCHANGED <<queue, tickets, stream>>
    BY <1>4 DEF StartAgain
  <2>2. CASE UNCHANGED writerVars
    BY <1>0, <2>1, <2>2 DEF LineMove, LinesStay, SameHands, HoldsLine
  <2>3. CASE \E w \in Writers : AddThread(w) /\ UNCHANGED hand
    BY <1>0, <2>1, <2>3, AddThreadMoves
  <2> QED BY <1>4, <2>2, <2>3 DEF StartAgain
<1>5. CASE \/ Dispatch(p) \/ SeeStarted(p) \/ StartedMeanwhile(p) \/ ClaimStart(p)
           \/ LaunchFails(p) \/ Prepare(p) \/ PrepareFails(p) \/ CheckRoom(p)
           \/ OfferFull(p) \/ CountDrop(p) \/ LogElsewhere(p) \/ StartRaises(p)
  <2>1. UNCHANGED <<queue, tickets, stream, wpc, wqueue, hand>>
    BY <1>5 DEF Dispatch, SeeStarted, StartedMeanwhile, ClaimStart, LaunchFails, Prepare,
                PrepareFails, CheckRoom, OfferFull, CountDrop, LogElsewhere, StartRaises
  <2> QED BY <1>0, <2>1 DEF LineMove, LinesStay, SameHands, HoldsLine
<1> QED BY <1>1, <1>2, <1>3, <1>4, <1>5 DEF Log, Emit

LEMMA ServeMoves ==
  ASSUME TypedAndGiven, NEW w \in Writers, Serve(w)
  PROVE  LineMove
<1>0. UNCHANGED jobVars
  BY DEF Serve
<1>1. CASE Take(w)
  BY <1>0, <1>1 DEF LineMove, LineTaken
<1>2. CASE WriteLine(w)
  BY <1>0, <1>2, WriteLineMoves DEF LineMove
<1>3. CASE WriteFails(w)
  BY <1>0, <1>3 DEF LineMove, LineLost, SameHands, HoldsLine, WriteFails, TypedAndGiven, LifeTypeOK,
                    WriterTypeOK
<1>4. CASE HandleMarker(w)
  BY <1>0, <1>4 DEF LineMove, LinesStay, SameHands, HoldsLine, HandleMarker, TypedAndGiven,
                    LifeTypeOK, WriterTypeOK
<1>5. CASE FlushIfEmpty(w)
  BY <1>0, <1>5 DEF LineMove, LinesStay, SameHands, HoldsLine, FlushIfEmpty, TypedAndGiven,
                    LifeTypeOK, WriterTypeOK
<1>6. CASE FlushFails(w)
  BY <1>0, <1>6 DEF LineMove, LinesStay, SameHands, HoldsLine, FlushFails, TypedAndGiven,
                    LifeTypeOK, WriterTypeOK
<1> QED BY <1>1, <1>2, <1>3, <1>4, <1>5, <1>6 DEF Serve, Write

LEMMA AwaitMoves ==
  ASSUME TypedAndGiven, NEW f \in Flushers, Await(f)
  PROVE  LineMove
<1>0. UNCHANGED jobVars
  BY DEF Await
<1>1. CASE PutMarker(f)
  <2>1. fon[f] \in Pipelines
    BY <1>1 DEF PutMarker, TypedAndGiven, Given, ThreadsSound
  <2>2. Marker(f) \in Item /\ Marker(f).kind # "line"
    BY LifeItems DEF TypedAndGiven, Marker
  <2>3. LinePut(fon[f], Marker(f))
    BY <1>0, <1>1, <2>2 DEF PutMarker, LinePut, SameHands, HoldsLine
  <2> QED BY <2>1, <2>2, <2>3 DEF LineMove
<1>2. CASE FlushCall(f) \/ FlushReleased(f) \/ FlushTimesOut(f) \/ FlushFindsDead(f)
  <2>1. UNCHANGED <<queue, tickets, stream, wpc, wqueue, hand>>
    BY <1>2 DEF FlushCall, StartFlush, FlushReleased, FlushTimesOut, FlushFindsDead
  <2> QED BY <1>0, <2>1 DEF LineMove, LinesStay, SameHands, HoldsLine
<1> QED BY <1>1, <1>2 DEF Await, Flush

LEMMA JobMoves ==
  ASSUME TypedAndGiven, Job
  PROVE  LineMove
<1>1. CASE PutSentinel \/ ForceSentinel
  <2>1. CASE UNCHANGED queue
    <3>1. UNCHANGED <<queue, tickets, stream, floor, wpc, wqueue, hand>>
      BY <1>1, <2>1 DEF PutSentinel, ForceSentinel
    <3> QED BY <3>1 DEF LineMove, LinesStay, SameHands, HoldsLine
  <2>2. CASE ~ UNCHANGED queue
    <3> DEFINE h == wqueue[stopping]
    <3>1. h \in Pipelines
      BY <1>1 DEF PutSentinel, ForceSentinel, TypedAndGiven, Given, StopSound, WritersSound,
                  WriterSound, LifeTypeOK, JobTypeOK
    <3>2. Sentinel \in Item /\ Sentinel.kind # "line"
      BY LifeItems DEF TypedAndGiven, Sentinel
    <3>3. queue' = [queue EXCEPT ![h] = Append(queue[h], Sentinel)]
          /\ UNCHANGED <<tickets, stream, floor, wpc, wqueue, hand>>
      BY <1>1, <2>2 DEF PutSentinel, ForceSentinel
    <3>4. LinePut(h, Sentinel)
      BY <3>2, <3>3 DEF LinePut, SameHands, HoldsLine
    <3> QED BY <3>1, <3>2, <3>4 DEF LineMove
  <2> QED BY <2>1, <2>2
<1>2. CASE ChildResumes
  <2>1. LinesLeft
    BY <1>2 DEF ChildResumes, Renewed, LinesLeft, HoldsLine, TypedAndGiven, LifeTypeOK, WriterTypeOK
  <2> QED BY <2>1 DEF LineMove
<1>3. CASE RestartWriter
  BY <1>3 DEF LineMove, LinesStay, SameHands, HoldsLine, RestartWriter, TypedAndGiven, LifeTypeOK,
              WriterTypeOK
<1>4. CASE RelaunchWriter
  BY <1>4 DEF LineMove, LinesStay, SameHands, HoldsLine, RelaunchWriter, TypedAndGiven, LifeTypeOK,
              WriterTypeOK
<1>6. CASE RelaunchAgain
  <2>1. CASE UNCHANGED vars
    BY <1>6, <2>1 DEF RelaunchAgain, LineMove, LinesStay, SameHands, HoldsLine
  <2>2. CASE \E w \in Writers : AddThread(w) /\ UNCHANGED <<pipeVars, hand, sinkVars>>
    BY <1>6, <2>2, AddThreadMoves DEF RelaunchAgain
  <2> QED BY <1>6, <2>1, <2>2 DEF RelaunchAgain
<1>5. CASE \/ ForceFull \/ Join \/ ForkBegin \/ ParentResumes \/ InstallBegin \/ InstallHandler
           \/ DetachRoot \/ AttachRoot \/ Shutdown
  <2>1. UNCHANGED <<queue, tickets, stream, floor, wpc, wqueue, hand>>
    BY <1>5 DEF ForceFull, Join, ForkBegin, ParentResumes, InstallBegin, InstallHandler, DetachRoot,
                AttachRoot, Shutdown, ShutdownBegin, ShutdownStop, RedirectRoot, ForgetHandler,
                StartFlush
  <2> QED BY <2>1 DEF LineMove, LinesStay, SameHands, HoldsLine
<1> QED BY <1>1, <1>2, <1>3, <1>4, <1>5, <1>6 DEF Job, Stop, Fork, Install

LEMMA EveryMove ==
  ASSUME TypedAndGiven, [LifeNext]_lifeVars
  PROVE  LineMove
<1>1. CASE UNCHANGED lifeVars
  BY <1>1 DEF LineMove, LinesStay, SameHands, HoldsLine
<1>2. CASE LifeFinished
  BY <1>1, <1>2 DEF LifeFinished
<1> QED BY <1>1, <1>2, LogMoves, ServeMoves, AwaitMoves, JobMoves DEF LifeNext
-----------------------------------------------------------------------------
(* Apart: a line is in one place at a time.  In a queue the tickets rise   *)
(* (they need not where a line is held or written: two threads may serve   *)
(* one queue when a job races with the start of the writer).               *)

QueueApart(h) ==
  /\ \A i \in QueuedLines(h) : queue[h][i].n <= tickets[h]
  /\ \A i, j \in QueuedLines(h) : i < j => queue[h][i].n < queue[h][j].n
HandsApart(h) ==
  \A w \in Writers : HoldsLine(w, h) =>
    /\ hand[w].n <= tickets[h] /\ hand[w].n \notin QueuedTickets(h)
    /\ \A v \in Writers : HoldsLine(v, h) /\ hand[v].n = hand[w].n => v = w
StreamApart(h) ==
  \A k \in DOMAIN stream : OnStream(k, h) =>
    /\ stream[k].n <= tickets[h] /\ stream[k].n \notin QueuedTickets(h)
    /\ \A w \in Writers : HoldsLine(w, h) => hand[w].n # stream[k].n
    /\ \A l \in DOMAIN stream : OnStream(l, h) /\ stream[l].n = stream[k].n => l = k
Apart == \A h \in Pipelines : QueueApart(h) /\ HandsApart(h) /\ StreamApart(h)

\* One item behind the others, and one less in front.
LEMMA PutAt ==
  ASSUME NEW X, NEW q \in Seq(X), NEW x \in X
  PROVE  /\ Len(q) \in Nat /\ DOMAIN q = 1 .. Len(q)
         /\ DOMAIN Append(q, x) = 1 .. Len(q) + 1 /\ Append(q, x)[Len(q) + 1] = x
         /\ \A i \in 1 .. Len(q) : Append(q, x)[i] = q[i]
OBVIOUS

LEMMA TakenAt ==
  ASSUME NEW X, NEW q \in Seq(X), q # <<>>
  PROVE  /\ Len(q) \in Nat /\ Len(q) >= 1 /\ DOMAIN q = 1 .. Len(q)
         /\ DOMAIN Tail(q) = 1 .. Len(q) - 1 /\ Head(q) = q[1] /\ q[1] \in X
         /\ \A i \in 1 .. Len(q) - 1 : Tail(q)[i] = q[i + 1]
<1>1. Len(q) \in Nat /\ Len(q) >= 1 /\ DOMAIN q = 1 .. Len(q) /\ Head(q) = q[1] /\ q[1] \in X
  OBVIOUS
<1>2. Tail(q) \in Seq(X) /\ Len(Tail(q)) = Len(q) - 1
  OBVIOUS
<1>3. DOMAIN Tail(q) = 1 .. Len(q) - 1 /\ \A i \in 1 .. Len(q) - 1 : Tail(q)[i] = q[i + 1]
  BY <1>1, <1>2
<1> QED BY <1>1, <1>3

\* The positions of a queue.
LEMMA QueueShape ==
  ASSUME LifeTypeOK, NEW h \in Pipelines
  PROVE  /\ queue[h] \in Seq(Item) /\ Len(queue[h]) \in Nat /\ tickets[h] \in Nat
         /\ DOMAIN queue[h] = 1 .. Len(queue[h])
         /\ \A i \in DOMAIN queue[h] : queue[h][i] \in Item /\ queue[h][i].n \in Nat
<1>1. queue[h] \in Seq(Item) /\ tickets[h] \in Nat
  BY DEF LifeTypeOK, PipeTypeOK
<1>2. /\ Len(queue[h]) \in Nat /\ DOMAIN queue[h] = 1 .. Len(queue[h])
      /\ \A i \in DOMAIN queue[h] : queue[h][i] \in Item
  BY <1>1
<1>3. \A x \in Item : x.n \in Nat
  BY DEF Item
<1> QED BY <1>1, <1>2, <1>3

\* put, of a line or of something else.
LEMMA PutQueue ==
  ASSUME TypedAndGiven, Apart, NEW h \in Pipelines, NEW x \in Item, LinePut(h, x)
  PROVE  /\ \A g \in Pipelines : QueueApart(g)'
         /\ \A g \in Pipelines : g # h => QueuedTickets(g)' = QueuedTickets(g) /\ tickets'[g] = tickets[g]
         /\ x.kind # "line" => QueuedTickets(h)' = QueuedTickets(h) /\ tickets'[h] = tickets[h]
         /\ x.kind = "line" => /\ QueuedTickets(h)' = QueuedTickets(h) \cup {tickets[h] + 1}
                               /\ tickets'[h] = tickets[h] + 1
<1> DEFINE q == queue[h]
           m == Len(queue[h])
<1>1. q \in Seq(Item) /\ m \in Nat /\ tickets[h] \in Nat /\ queue'[h] = Append(q, x)
      /\ \A g \in Pipelines : g # h => queue'[g] = queue[g]
  BY QueueShape DEF TypedAndGiven, LifeTypeOK, PipeTypeOK, LinePut
<1>2. \A i \in 1 .. m : q[i].n \in Nat
  BY QueueShape DEF TypedAndGiven
<1>3. /\ DOMAIN q = 1 .. m /\ DOMAIN queue'[h] = 1 .. m + 1 /\ queue'[h][m + 1] = x
      /\ \A i \in 1 .. m : queue'[h][i] = q[i]
  BY <1>1, PutAt
<1>4. /\ \A g \in Pipelines : g # h => tickets'[g] = tickets[g]
      /\ IF x.kind = "line" THEN tickets'[h] = tickets[h] + 1 /\ x.n = tickets[h] + 1
                            ELSE tickets'[h] = tickets[h]
  BY DEF TypedAndGiven, LifeTypeOK, PipeTypeOK, LinePut
<1>5. \A i \in QueuedLines(h) : i \in 1 .. m /\ q[i].kind = "line" /\ q[i].n <= tickets[h]
  BY <1>3 DEF QueuedLines, Apart, QueueApart
<1>6. \A i, j \in QueuedLines(h) : i < j => q[i].n < q[j].n
  BY DEF Apart, QueueApart
<1>7. \A i : i \in QueuedLines(h)' <=> i \in QueuedLines(h) \/ (i = m + 1 /\ x.kind = "line")
  <2> HIDE DEF q, m
  <2>1. \A i : i \in QueuedLines(h)' <=> i \in 1 .. m + 1 /\ queue'[h][i].kind = "line"
    BY <1>3 DEF QueuedLines
  <2>2. \A i : i \in QueuedLines(h) <=> i \in 1 .. m /\ q[i].kind = "line"
    BY <1>3 DEF QueuedLines, q
  <2>3. \A i : i \in 1 .. m + 1 <=> i \in 1 .. m \/ i = m + 1
    BY <1>1
  <2>4. m + 1 \notin 1 .. m
    BY <1>1
  <2> QED BY <1>3, <2>1, <2>2, <2>3, <2>4
<1> HIDE DEF q, m
<1>8. QueueApart(h)'
  <2>1. ASSUME NEW i \in QueuedLines(h)' PROVE queue'[h][i].n <= tickets'[h]
    BY <1>1, <1>2, <1>3, <1>4, <1>5, <1>7
  <2>2. ASSUME NEW i \in QueuedLines(h)', NEW j \in QueuedLines(h)', i < j
        PROVE  queue'[h][i].n < queue'[h][j].n
    BY <1>1, <1>2, <1>3, <1>4, <1>5, <1>6, <1>7, <2>2
  <2> QED BY <2>1, <2>2 DEF QueueApart
<1>9. ASSUME NEW g \in Pipelines, g # h
      PROVE  QueueApart(g)' /\ QueuedTickets(g)' = QueuedTickets(g)
  <2>1. queue'[g] = queue[g] /\ tickets'[g] = tickets[g]
    BY <1>1, <1>4, <1>9
  <2>2. QueuedLines(g)' = QueuedLines(g)
    BY <2>1 DEF QueuedLines
  <2> QED BY <2>1, <2>2 DEF QueueApart, QueuedTickets, Apart
<1>10. \A n : n \in QueuedTickets(h)' <=>
               n \in QueuedTickets(h) \/ (x.kind = "line" /\ n = tickets[h] + 1)
  <2>1. \A n : n \in QueuedTickets(h) <=> \E i \in QueuedLines(h) : n = q[i].n
    BY DEF QueuedTickets, q
  <2>2. \A n : n \in QueuedTickets(h)' <=> \E i \in QueuedLines(h)' : n = queue'[h][i].n
    BY DEF QueuedTickets
  <2>3. \A i \in QueuedLines(h) : queue'[h][i].n = q[i].n
    BY <1>3, <1>5
  <2>4. x.kind = "line" => queue'[h][m + 1].n = tickets[h] + 1 /\ m + 1 \in QueuedLines(h)'
    BY <1>3, <1>4, <1>7
  <2> QED BY <1>7, <2>1, <2>2, <2>3, <2>4
<1> QED BY <1>4, <1>8, <1>9, <1>10

\* get: if it is a line, its ticket is in no queue any more.
LEMMA TakeQueue ==
  ASSUME TypedAndGiven, Apart, NEW w \in Writers, Take(w), NEW h \in Pipelines, h = wqueue[w]
  PROVE  LET x == queue[h][1] IN
         /\ x \in Item
         /\ \A g \in Pipelines : QueueApart(g)' /\ ~ HoldsLine(w, g) /\ (g # h => ~ HoldsLine(w, g)')
         /\ SameHands(Writers \ {w}) /\ UNCHANGED <<stream, tickets>>
         /\ \A g \in Pipelines : g # h => QueuedTickets(g)' = QueuedTickets(g)
         /\ x.kind # "line" => QueuedTickets(h)' = QueuedTickets(h) /\ ~ HoldsLine(w, h)'
         /\ x.kind = "line" => /\ QueuedTickets(h) = QueuedTickets(h)' \cup {x.n}
                               /\ x.n \notin QueuedTickets(h)' /\ x.n <= tickets[h]
                               /\ HoldsLine(w, h)' /\ hand'[w] = x
<1> DEFINE q == queue[h]
           m == Len(q)
           x == q[1]
<1>1. q \in Seq(Item) /\ q # <<>>
  BY TakeTyped
<1>2. /\ m \in Nat /\ m >= 1 /\ DOMAIN q = 1 .. m /\ Head(q) = x /\ x \in Item
      /\ DOMAIN Tail(q) = 1 .. m - 1 /\ \A i \in 1 .. m - 1 : Tail(q)[i] = q[i + 1]
  BY <1>1, TakenAt
<1>3. /\ queue'[h] = Tail(q) /\ \A g \in Pipelines : g # h => queue'[g] = queue[g]
      /\ UNCHANGED <<stream, tickets, wqueue>> /\ wpc[w] = "get"
  BY <1>1 DEF Take, TypedAndGiven, LifeTypeOK, PipeTypeOK
<1>4. /\ x.kind = "sentinel" => wpc'[w] = "dead"
      /\ x.kind # "sentinel" => wpc'[w] = "handle" /\ hand'[w] = x
      /\ \A v \in Writers : v # w => wpc'[v] = wpc[v] /\ hand'[v] = hand[v]
  BY <1>2 DEF Take, TypedAndGiven, LifeTypeOK, WriterTypeOK
<1>5. \A i \in 1 .. m : q[i].n \in Nat
  BY <1>1, <1>2, QueueShape DEF TypedAndGiven
<1> HIDE DEF q, m, x
<1>6. \A i : i \in QueuedLines(h) <=> i \in 1 .. m /\ q[i].kind = "line"
  BY <1>2 DEF QueuedLines, q
<1>7. \A i : i \in QueuedLines(h)' <=> i \in 1 .. m - 1 /\ q[i + 1].kind = "line"
  <2>1. QueuedLines(h)' = {i \in DOMAIN queue'[h] : queue'[h][i].kind = "line"}
    BY <1>3 DEF QueuedLines
  <2> QED BY <1>2, <1>3, <2>1
<1>8. \A i \in 1 .. m - 1 : i + 1 \in 1 .. m
  BY <1>2
<1>9. /\ \A i \in QueuedLines(h) : q[i].n <= tickets[h]
      /\ \A i, j \in QueuedLines(h) : i < j => q[i].n < q[j].n
  BY <1>1 DEF Apart, QueueApart, q
<1>10. \A i \in QueuedLines(h)' : i \in 1 .. m - 1 /\ i + 1 \in QueuedLines(h) /\ queue'[h][i] = q[i + 1]
  BY <1>2, <1>3, <1>6, <1>7, <1>8
<1>11. QueueApart(h)'
  <2>1. \A i \in QueuedLines(h)' : queue'[h][i].n <= tickets'[h]
    BY <1>3, <1>9, <1>10
  <2>2. ASSUME NEW i \in QueuedLines(h)', NEW j \in QueuedLines(h)', i < j
        PROVE  queue'[h][i].n < queue'[h][j].n
    <3>1. i + 1 < j + 1
      BY <1>10, <2>2
    <3>2. i + 1 \in QueuedLines(h) /\ j + 1 \in QueuedLines(h)
          /\ queue'[h][i] = q[i + 1] /\ queue'[h][j] = q[j + 1]
      BY <1>10
    <3> QED BY <1>9, <3>1, <3>2
  <2> QED BY <2>1, <2>2 DEF QueueApart
<1>12. ASSUME NEW g \in Pipelines, g # h
       PROVE  QueueApart(g)' /\ QueuedTickets(g)' = QueuedTickets(g)
  <2>1. queue'[g] = queue[g] /\ tickets'[g] = tickets[g]
    BY <1>3, <1>12
  <2>2. QueuedLines(g)' = QueuedLines(g)
    BY <2>1 DEF QueuedLines
  <2> QED BY <2>1, <2>2 DEF QueueApart, QueuedTickets, Apart
<1>13. /\ \A n : n \in QueuedTickets(h) <=> \E i \in QueuedLines(h) : n = q[i].n
       /\ \A n : n \in QueuedTickets(h)' <=> \E i \in QueuedLines(h)' : n = q[i + 1].n
  <2>1. \A n : n \in QueuedTickets(h) <=> \E i \in QueuedLines(h) : n = q[i].n
    BY DEF QueuedTickets, q
  <2>2. \A n : n \in QueuedTickets(h)' <=> \E i \in QueuedLines(h)' : n = queue'[h][i].n
    BY DEF QueuedTickets
  <2> QED BY <1>10, <2>1, <2>2
<1>14. \A i \in QueuedLines(h) : i # 1 => i - 1 \in QueuedLines(h)' /\ q[i - 1 + 1] = q[i]
  BY <1>2, <1>6, <1>7
<1>15. 1 \in QueuedLines(h) <=> x.kind = "line"
  BY <1>2, <1>6 DEF x
<1>16. ASSUME x.kind # "line" PROVE QueuedTickets(h)' = QueuedTickets(h)
  <2>1. \A n : n \in QueuedTickets(h)' <=> n \in QueuedTickets(h)
    BY <1>10, <1>13, <1>14, <1>15, <1>16
  <2> QED BY <2>1, <1>16
<1>17. ASSUME x.kind = "line"
       PROVE  /\ QueuedTickets(h) = QueuedTickets(h)' \cup {x.n}
              /\ x.n \notin QueuedTickets(h)' /\ x.n <= tickets[h]
  <2>1. \A n : n \in QueuedTickets(h) <=> n \in QueuedTickets(h)' \/ n = x.n
    BY <1>10, <1>13, <1>14, <1>15, <1>17 DEF x
  <2>2. \A i \in QueuedLines(h)' : x.n < q[i + 1].n
    <3>1. \A i \in QueuedLines(h)' : 1 < i + 1
      BY <1>10
    <3> QED BY <1>9, <1>10, <1>15, <1>17, <3>1 DEF x
  <2>3. x.n \notin QueuedTickets(h)'
    <3>1. \A i \in QueuedLines(h)' : x.n \in Nat /\ q[i + 1].n \in Nat
      BY <1>2, <1>5, <1>8, <1>10 DEF x
    <3> QED BY <1>13, <2>2, <3>1
  <2>4. x.n <= tickets[h]
    BY <1>9, <1>15, <1>17 DEF x
  <2>5. QueuedTickets(h) = QueuedTickets(h)' \cup {x.n}
    BY <2>1
  <2> QED BY <2>3, <2>4, <2>5
<1>18. SameHands(Writers \ {w}) /\ \A g \in Pipelines : ~ HoldsLine(w, g) /\ (g # h => ~ HoldsLine(w, g)')
  BY <1>3, <1>4 DEF SameHands, HoldsLine
<1>19. /\ x.kind = "line" => HoldsLine(w, h)' /\ hand'[w] = x
       /\ x.kind # "line" => ~ HoldsLine(w, h)'
  BY <1>3, <1>4 DEF HoldsLine
<1> QED BY <1>1, <1>2, <1>3, <1>11, <1>12, <1>16, <1>17, <1>18, <1>19 DEF q, x
\* What holds of lines that are apart holds of fewer of them.
LEMMA FewerApart ==
  ASSUME Apart, NEW g \in Pipelines, NEW o \in Nat,
         QueuedTickets(g)' \subseteq QueuedTickets(g), tickets'[g] = tickets[g],
         \A w \in Writers : HoldsLine(w, g)' => HoldsLine(w, g) /\ hand'[w] = hand[w],
         \A k \in DOMAIN stream' :
           k \in Nat /\ k + o \in DOMAIN stream /\ stream'[k] = stream[k + o]
  PROVE  HandsApart(g)' /\ StreamApart(g)'
<1>1. HandsApart(g)'
  <2> SUFFICES ASSUME NEW w \in Writers, HoldsLine(w, g)'
               PROVE  /\ hand'[w].n <= tickets'[g] /\ hand'[w].n \notin QueuedTickets(g)'
                      /\ \A v \in Writers : HoldsLine(v, g)' /\ hand'[v].n = hand'[w].n => v = w
    BY DEF HandsApart
  <2>1. HoldsLine(w, g) /\ hand'[w] = hand[w]
    OBVIOUS
  <2> QED BY <2>1 DEF Apart, HandsApart
<1>2. \A k \in DOMAIN stream' : OnStream(k, g)' => OnStream(k + o, g)
  BY DEF OnStream
<1>3. StreamApart(g)'
  <2> SUFFICES ASSUME NEW k \in DOMAIN stream', OnStream(k, g)'
               PROVE  /\ stream'[k].n <= tickets'[g] /\ stream'[k].n \notin QueuedTickets(g)'
                      /\ \A w \in Writers : HoldsLine(w, g)' => hand'[w].n # stream'[k].n
                      /\ \A l \in DOMAIN stream' :
                           OnStream(l, g)' /\ stream'[l].n = stream'[k].n => l = k
    BY DEF StreamApart
  <2>1. k \in Nat /\ k + o \in DOMAIN stream /\ OnStream(k + o, g) /\ stream'[k] = stream[k + o]
    BY <1>2
  <2>2. /\ stream[k + o].n <= tickets[g] /\ stream[k + o].n \notin QueuedTickets(g)
        /\ \A w \in Writers : HoldsLine(w, g) => hand[w].n # stream[k + o].n
        /\ \A l \in DOMAIN stream : OnStream(l, g) /\ stream[l].n = stream[k + o].n => l = k + o
    BY <2>1 DEF Apart, StreamApart
  <2>3. ASSUME NEW l \in DOMAIN stream', OnStream(l, g)', stream'[l].n = stream'[k].n
        PROVE  l = k
    <3>1. l \in Nat /\ l + o \in DOMAIN stream /\ OnStream(l + o, g) /\ stream'[l] = stream[l + o]
      BY <1>2, <2>3
    <3>2. l + o = k + o
      BY <2>1, <2>2, <2>3, <3>1
    <3> QED BY <2>1, <3>1, <3>2
  <2> QED BY <2>1, <2>2, <2>3
<1> QED BY <1>1, <1>3

\* The stream, position by position.
LEMMA StreamShape ==
  ASSUME LifeTypeOK
  PROVE  /\ stream \in Seq(Entry) /\ Len(stream) \in Nat /\ DOMAIN stream = 1 .. Len(stream)
         /\ flushed \in 0 .. Len(stream)
         /\ \A k \in DOMAIN stream : stream[k] \in Entry /\ stream[k].n \in Nat
<1>1. stream \in Seq(Entry) /\ flushed \in 0 .. Len(stream)
  BY DEF LifeTypeOK, SinkTypeOK
<1>2. Len(stream) \in Nat /\ DOMAIN stream = 1 .. Len(stream)
      /\ \A k \in DOMAIN stream : stream[k] \in Entry
  BY <1>1
<1>3. \A e \in Entry : e.n \in Nat
  BY DEF Entry
<1> QED BY <1>1, <1>2, <1>3

LEMMA SameStream ==
  ASSUME LifeTypeOK, UNCHANGED stream
  PROVE  \A k \in DOMAIN stream' : k \in Nat /\ k + 0 \in DOMAIN stream /\ stream'[k] = stream[k + 0]
<1>1. \A k \in DOMAIN stream : k \in Nat /\ k + 0 = k
  BY StreamShape
<1> QED BY <1>1

\* What a writer holds is an item.
LEMMA HeldItem ==
  ASSUME TypedAndGiven, NEW w \in Writers, NEW h \in Pipelines, HoldsLine(w, h)
  PROVE  hand[w] \in Item /\ hand[w].n \in Nat
<1>1. hand[w] \in Item
  BY DEF TypedAndGiven, Given, WritersSound, WriterSound, HoldsLine
<1> QED BY <1>1 DEF Item

LEMMA SameQueues ==
  ASSUME Apart, UNCHANGED <<queue, tickets>>, NEW g \in Pipelines
  PROVE  QueueApart(g)' /\ QueuedTickets(g)' = QueuedTickets(g) /\ tickets'[g] = tickets[g]
<1>1. QueuedLines(g)' = QueuedLines(g)
  BY DEF QueuedLines
<1> QED BY <1>1 DEF Apart, QueueApart, QueuedTickets

LEMMA StayApart ==
  ASSUME TypedAndGiven, Apart,
         LinesStay \/ \E w \in Writers : LineLost(w)
  PROVE  Apart'
<1>1. UNCHANGED <<queue, tickets, stream>>
  BY DEF LinesStay, LineLost
<1>2. \A g \in Pipelines : \A w \in Writers : HoldsLine(w, g)' => HoldsLine(w, g) /\ hand'[w] = hand[w]
  BY DEF LinesStay, LineLost, SameHands
<1>3. ASSUME NEW g \in Pipelines PROVE QueueApart(g)' /\ HandsApart(g)' /\ StreamApart(g)'
  <2>1. QueueApart(g)' /\ QueuedTickets(g)' = QueuedTickets(g) /\ tickets'[g] = tickets[g]
    BY <1>1, SameQueues
  <2>2. HandsApart(g)' /\ StreamApart(g)'
    <3>1. \A k \in DOMAIN stream' : k \in Nat /\ k + 0 \in DOMAIN stream /\ stream'[k] = stream[k + 0]
      BY <1>1, SameStream DEF TypedAndGiven
    <3> QED BY <1>2, <2>1, <3>1, FewerApart
  <2> QED BY <2>1, <2>2
<1> QED BY <1>3 DEF Apart

LEMMA PutApart ==
  ASSUME TypedAndGiven, Apart, NEW h \in Pipelines, NEW x \in Item, LinePut(h, x)
  PROVE  Apart'
<1>1. /\ UNCHANGED stream
      /\ \A w \in Writers : \A g \in Pipelines :
           /\ HoldsLine(w, g)' <=> HoldsLine(w, g)
           /\ HoldsLine(w, g) => hand'[w] = hand[w]
  BY DEF LinePut, SameHands
<1>2. ASSUME NEW g \in Pipelines PROVE HandsApart(g)' /\ StreamApart(g)'
  <2>1. \A n \in Nat : n <= tickets[g] /\ n \notin QueuedTickets(g)
                       => n <= tickets'[g] /\ n \notin QueuedTickets(g)'
    <3>1. tickets[g] \in Nat
      BY QueueShape DEF TypedAndGiven
    <3> QED BY <3>1, PutQueue
  <2>2. HandsApart(g)'
    <3> SUFFICES ASSUME NEW w \in Writers, HoldsLine(w, g)'
                 PROVE  /\ hand'[w].n <= tickets'[g] /\ hand'[w].n \notin QueuedTickets(g)'
                        /\ \A v \in Writers : HoldsLine(v, g)' /\ hand'[v].n = hand'[w].n => v = w
      BY DEF HandsApart
    <3>1. HoldsLine(w, g) /\ hand'[w] = hand[w] /\ hand[w].n \in Nat
      BY <1>1, HeldItem
    <3>2. /\ hand[w].n <= tickets[g] /\ hand[w].n \notin QueuedTickets(g)
          /\ \A v \in Writers : HoldsLine(v, g) /\ hand[v].n = hand[w].n => v = w
      BY <3>1 DEF Apart, HandsApart
    <3> QED BY <1>1, <2>1, <3>1, <3>2
  <2>3. StreamApart(g)'
    <3> SUFFICES ASSUME NEW k \in DOMAIN stream', OnStream(k, g)'
                 PROVE  /\ stream'[k].n <= tickets'[g] /\ stream'[k].n \notin QueuedTickets(g)'
                        /\ \A w \in Writers : HoldsLine(w, g)' => hand'[w].n # stream'[k].n
                        /\ \A l \in DOMAIN stream' :
                             OnStream(l, g)' /\ stream'[l].n = stream'[k].n => l = k
      BY DEF StreamApart
    <3>1. k \in DOMAIN stream /\ stream'[k] = stream[k] /\ OnStream(k, g) /\ stream[k].n \in Nat
      BY <1>1, StreamShape DEF OnStream, TypedAndGiven
    <3>2. /\ stream[k].n <= tickets[g] /\ stream[k].n \notin QueuedTickets(g)
          /\ \A w \in Writers : HoldsLine(w, g) => hand[w].n # stream[k].n
          /\ \A l \in DOMAIN stream : OnStream(l, g) /\ stream[l].n = stream[k].n => l = k
      BY <3>1 DEF Apart, StreamApart
    <3>3. \A l \in DOMAIN stream' : OnStream(l, g)' => l \in DOMAIN stream /\ OnStream(l, g) /\ stream'[l] = stream[l]
      BY <1>1 DEF OnStream
    <3> QED BY <1>1, <2>1, <3>1, <3>2, <3>3
  <2> QED BY <2>2, <2>3
<1> QED BY <1>2, PutQueue DEF Apart

LEMMA TakeApart ==
  ASSUME TypedAndGiven, Apart, NEW w \in Writers, Take(w)
  PROVE  Apart'
<1>1. PICK h \in Pipelines : h = wqueue[w]
  BY TakeTyped
<1> DEFINE x == queue[h][1]
<1>2. /\ x \in Item
      /\ \A g \in Pipelines : QueueApart(g)' /\ ~ HoldsLine(w, g) /\ (g # h => ~ HoldsLine(w, g)')
      /\ SameHands(Writers \ {w}) /\ UNCHANGED <<stream, tickets>>
      /\ \A g \in Pipelines : g # h => QueuedTickets(g)' = QueuedTickets(g)
      /\ x.kind # "line" => QueuedTickets(h)' = QueuedTickets(h) /\ ~ HoldsLine(w, h)'
      /\ x.kind = "line" => /\ QueuedTickets(h) = QueuedTickets(h)' \cup {x.n}
                            /\ x.n \notin QueuedTickets(h)' /\ x.n <= tickets[h]
                            /\ HoldsLine(w, h)' /\ hand'[w] = x
  BY <1>1, TakeQueue
<1> HIDE DEF x
<1>3. ASSUME NEW g \in Pipelines PROVE HandsApart(g)' /\ StreamApart(g)'
  <2>1. /\ QueuedTickets(g)' \subseteq QueuedTickets(g) /\ tickets'[g] = tickets[g]
        /\ \A v \in Writers : HoldsLine(v, g)' =>
             IF v = w THEN /\ hand'[v].n \in QueuedTickets(g) /\ hand'[v].n \notin QueuedTickets(g)'
                           /\ hand'[v].n <= tickets[g]
                      ELSE HoldsLine(v, g) /\ hand'[v] = hand[v]
    BY <1>2 DEF SameHands
  <2>2. HandsApart(g)'
    <3> SUFFICES ASSUME NEW v \in Writers, HoldsLine(v, g)'
                 PROVE  /\ hand'[v].n <= tickets'[g] /\ hand'[v].n \notin QueuedTickets(g)'
                        /\ \A u \in Writers : HoldsLine(u, g)' /\ hand'[u].n = hand'[v].n => u = v
      BY DEF HandsApart
    <3>1. \A u \in Writers : HoldsLine(u, g) =>
            /\ hand[u].n <= tickets[g] /\ hand[u].n \notin QueuedTickets(g)
            /\ \A t \in Writers : HoldsLine(t, g) /\ hand[t].n = hand[u].n => t = u
      BY DEF Apart, HandsApart
    <3> QED BY <2>1, <3>1
  <2>3. StreamApart(g)'
    <3> SUFFICES ASSUME NEW k \in DOMAIN stream', OnStream(k, g)'
                 PROVE  /\ stream'[k].n <= tickets'[g] /\ stream'[k].n \notin QueuedTickets(g)'
                        /\ \A v \in Writers : HoldsLine(v, g)' => hand'[v].n # stream'[k].n
                        /\ \A l \in DOMAIN stream' :
                             OnStream(l, g)' /\ stream'[l].n = stream'[k].n => l = k
      BY DEF StreamApart
    <3>1. k \in DOMAIN stream /\ stream' = stream /\ OnStream(k, g)
      BY <1>2 DEF OnStream
    <3>2. /\ stream[k].n <= tickets[g] /\ stream[k].n \notin QueuedTickets(g)
          /\ \A v \in Writers : HoldsLine(v, g) => hand[v].n # stream[k].n
          /\ \A l \in DOMAIN stream : OnStream(l, g) /\ stream[l].n = stream[k].n => l = k
      BY <3>1 DEF Apart, StreamApart
    <3>3. \A l \in DOMAIN stream' : OnStream(l, g)' => l \in DOMAIN stream /\ OnStream(l, g)
      BY <1>2 DEF OnStream
    <3> QED BY <2>1, <3>1, <3>2, <3>3
  <2> QED BY <2>2, <2>3
<1> QED BY <1>2, <1>3 DEF Apart

\* A line goes to the end of the stream, perhaps with a notice behind it.
LEMMA OutStream ==
  ASSUME TypedAndGiven, NEW w \in Writers, NEW h \in Pipelines, LineOut(w, h)
  PROVE  LET last == Len(stream) + 1 IN
         /\ \A k \in DOMAIN stream : k \in DOMAIN stream' /\ stream'[k] = stream[k] /\ k # last
         /\ last \in DOMAIN stream' /\ stream'[last].kind = "line" /\ stream'[last].on = h
         /\ stream'[last].n = hand[w].n
         /\ \A g \in Pipelines : \A k \in DOMAIN stream' : OnStream(k, g)' =>
              \/ k \in DOMAIN stream /\ OnStream(k, g) /\ stream'[k] = stream[k]
              \/ k = last /\ g = h
<1> DEFINE m == Len(stream)
<1>1. stream \in Seq(Entry) /\ m \in Nat /\ DOMAIN stream = 1 .. m
  BY StreamShape DEF TypedAndGiven
<1>2. PICK line \in Entry, note \in Entry :
        /\ line = [kind |-> "line", on |-> h, n |-> hand[w].n] /\ note.kind = "note"
        /\ stream' \in {Append(stream, line), Append(Append(stream, line), note)}
  BY DEF LineOut
<1> DEFINE written == Append(stream, line)
<1>3. /\ DOMAIN written = 1 .. m + 1 /\ written[m + 1] = line
      /\ \A k \in 1 .. m : written[k] = stream[k]
  BY <1>1, PutAt
<1>4. written \in Seq(Entry) /\ Len(written) = m + 1
  BY <1>1
<1>5. /\ DOMAIN Append(written, note) = 1 .. m + 1 + 1 /\ Append(written, note)[m + 1 + 1] = note
      /\ \A k \in 1 .. m + 1 : Append(written, note)[k] = written[k]
  <2> HIDE DEF written, m
  <2> QED BY <1>4, PutAt
<1> HIDE DEF written, m
<1>6. /\ \A k \in 1 .. m : k \in DOMAIN stream' /\ stream'[k] = stream[k] /\ k # m + 1
      /\ m + 1 \in DOMAIN stream' /\ stream'[m + 1] = line
      /\ \A k \in DOMAIN stream' : k \in 1 .. m \/ k = m + 1 \/ stream'[k] = note
  <2>1. CASE stream' = written
    BY <1>1, <1>3, <2>1
  <2>2. CASE stream' = Append(written, note)
    BY <1>1, <1>3, <1>5, <2>2
  <2> QED BY <1>2, <2>1, <2>2 DEF written
<1>7. stream'[m + 1].kind = "line" /\ stream'[m + 1].on = h /\ stream'[m + 1].n = hand[w].n
  BY <1>2, <1>6
<1>8. ASSUME NEW g \in Pipelines, NEW k \in DOMAIN stream', OnStream(k, g)'
      PROVE  \/ k \in DOMAIN stream /\ OnStream(k, g) /\ stream'[k] = stream[k]
             \/ k = m + 1 /\ g = h
  <2>1. CASE k \in 1 .. m
    BY <1>1, <1>6, <1>8, <2>1 DEF OnStream
  <2>2. CASE k = m + 1
    BY <1>2, <1>6, <1>8, <2>2 DEF OnStream
  <2>3. CASE stream'[k] = note
    BY <1>2, <1>8, <2>3 DEF OnStream
  <2> QED BY <1>6, <2>1, <2>2, <2>3
<1> QED BY <1>1, <1>6, <1>7, <1>8 DEF m

LEMMA OutApart ==
  ASSUME TypedAndGiven, Apart, NEW w \in Writers, NEW h \in Pipelines, LineOut(w, h)
  PROVE  Apart'
<1> DEFINE last == Len(stream) + 1
           t == hand[w].n
<1>1. /\ \A k \in DOMAIN stream : k \in DOMAIN stream' /\ stream'[k] = stream[k] /\ k # last
      /\ stream'[last].n = t
      /\ \A g \in Pipelines : \A k \in DOMAIN stream' : OnStream(k, g)' =>
           \/ k \in DOMAIN stream /\ OnStream(k, g) /\ stream'[k] = stream[k]
           \/ k = last /\ g = h
  BY OutStream
<1>2. /\ HoldsLine(w, h) /\ UNCHANGED <<queue, tickets>>
      /\ \A v \in Writers : \A g \in Pipelines :
           HoldsLine(v, g)' => v # w /\ HoldsLine(v, g) /\ hand'[v] = hand[v]
  BY DEF LineOut, SameHands
<1>3. /\ t <= tickets[h] /\ t \notin QueuedTickets(h)
      /\ \A v \in Writers : HoldsLine(v, h) /\ v # w => hand[v].n # t
      /\ \A k \in DOMAIN stream : OnStream(k, h) => stream[k].n # t
  BY <1>2 DEF Apart, HandsApart, StreamApart
<1> HIDE DEF last, t
<1>4. ASSUME NEW g \in Pipelines PROVE QueueApart(g)' /\ HandsApart(g)' /\ StreamApart(g)'
  <2>1. QueueApart(g)' /\ QueuedTickets(g)' = QueuedTickets(g) /\ tickets'[g] = tickets[g]
    BY <1>2, SameQueues
  <2>2. HandsApart(g)'
    <3> SUFFICES ASSUME NEW v \in Writers, HoldsLine(v, g)'
                 PROVE  /\ hand'[v].n <= tickets'[g] /\ hand'[v].n \notin QueuedTickets(g)'
                        /\ \A u \in Writers : HoldsLine(u, g)' /\ hand'[u].n = hand'[v].n => u = v
      BY DEF HandsApart
    <3>1. HoldsLine(v, g) /\ hand'[v] = hand[v]
      BY <1>2
    <3>2. /\ hand[v].n <= tickets[g] /\ hand[v].n \notin QueuedTickets(g)
          /\ \A u \in Writers : HoldsLine(u, g) /\ hand[u].n = hand[v].n => u = v
      BY <3>1 DEF Apart, HandsApart
    <3> QED BY <1>2, <2>1, <3>1, <3>2
  <2>3. StreamApart(g)'
    <3> SUFFICES ASSUME NEW k \in DOMAIN stream', OnStream(k, g)'
                 PROVE  /\ stream'[k].n <= tickets'[g] /\ stream'[k].n \notin QueuedTickets(g)'
                        /\ \A v \in Writers : HoldsLine(v, g)' => hand'[v].n # stream'[k].n
                        /\ \A l \in DOMAIN stream' :
                             OnStream(l, g)' /\ stream'[l].n = stream'[k].n => l = k
      BY DEF StreamApart
    <3>1. CASE k = last /\ g = h
      BY <1>1, <1>2, <1>3, <2>1, <3>1
    <3>2. CASE k \in DOMAIN stream /\ OnStream(k, g) /\ stream'[k] = stream[k]
      <4>1. /\ stream[k].n <= tickets[g] /\ stream[k].n \notin QueuedTickets(g)
            /\ \A v \in Writers : HoldsLine(v, g) => hand[v].n # stream[k].n
            /\ \A l \in DOMAIN stream : OnStream(l, g) /\ stream[l].n = stream[k].n => l = k
        BY <3>2 DEF Apart, StreamApart
      <4> QED BY <1>1, <1>2, <1>3, <2>1, <3>2, <4>1
    <3> QED BY <1>1, <3>1, <3>2
  <2> QED BY <2>1, <2>2, <2>3
<1> QED BY <1>4 DEF Apart

\* After a fork the child's stream is what the parent had not flushed.
LEMMA LeftStream ==
  ASSUME LifeTypeOK, LinesLeft
  PROVE  /\ flushed \in Nat
         /\ \A k \in DOMAIN stream' :
              k \in Nat /\ k + flushed \in DOMAIN stream /\ stream'[k] = stream[k + flushed]
<1> DEFINE m == Len(stream)
<1>1. m \in Nat /\ flushed \in 0 .. m /\ DOMAIN stream = 1 .. m /\ stream \in Seq(Entry)
  BY StreamShape
<1>2. stream' = [i \in 1 .. m - flushed |-> stream[i + flushed]]
  <2>1. SubSeq(stream, flushed + 1, m) = [i \in 1 .. 1 + m - (flushed + 1) |-> stream[i + (flushed + 1) - 1]]
    BY <1>1
  <2>2. 1 + m - (flushed + 1) = m - flushed
    BY <1>1
  <2>3. \A i \in 1 .. m - flushed : i + (flushed + 1) - 1 = i + flushed
    BY <1>1
  <2> QED BY <2>1, <2>2, <2>3 DEF LinesLeft
<1> HIDE DEF m
<1>3. \A k \in 1 .. m - flushed : k \in Nat /\ k + flushed \in 1 .. m
  BY <1>1
<1> QED BY <1>1, <1>2, <1>3

LEMMA LeftApart ==
  ASSUME TypedAndGiven, Apart, LinesLeft
  PROVE  Apart'
<1>1. /\ flushed \in Nat
      /\ \A k \in DOMAIN stream' :
           k \in Nat /\ k + flushed \in DOMAIN stream /\ stream'[k] = stream[k + flushed]
  BY LeftStream DEF TypedAndGiven
<1>2. ASSUME NEW g \in Pipelines
      PROVE  QueueApart(g)' /\ QueuedTickets(g)' \subseteq QueuedTickets(g)
  <2>1. tickets' = tickets /\ (g # handler => queue'[g] = queue[g])
        /\ (g = handler => queue'[g] = <<>>)
    BY DEF LinesLeft, TypedAndGiven, LifeTypeOK, PipeTypeOK
  <2>2. CASE g = handler
    <3>1. QueuedLines(g)' = {}
      BY <2>1, <2>2 DEF QueuedLines
    <3> QED BY <3>1 DEF QueueApart, QueuedTickets
  <2>3. CASE g # handler
    <3>1. QueuedLines(g)' = QueuedLines(g)
      BY <2>1, <2>3 DEF QueuedLines
    <3> QED BY <2>1, <2>3, <3>1 DEF QueueApart, QueuedTickets, Apart
  <2> QED BY <2>2, <2>3
<1>3. ASSUME NEW g \in Pipelines PROVE HandsApart(g)' /\ StreamApart(g)'
  <2>1. tickets'[g] = tickets[g] /\ \A w \in Writers : ~ HoldsLine(w, g)'
    BY DEF LinesLeft
  <2> QED BY <1>1, <1>2, <2>1, FewerApart
<1> QED BY <1>2, <1>3 DEF Apart

LEMMA ApartKept == TypedAndGiven /\ Apart /\ [LifeNext]_lifeVars => Apart'
<1> SUFFICES ASSUME TypedAndGiven, Apart, [LifeNext]_lifeVars PROVE Apart'
  OBVIOUS
<1>1. LineMove
  BY EveryMove
<1> QED BY <1>1, StayApart, PutApart, TakeApart, OutApart, LeftApart DEF LineMove, LineTaken

LEMMA ApartFirst == LifeInit => Apart
<1> SUFFICES ASSUME LifeInit PROVE Apart
  OBVIOUS
<1>1. ASSUME NEW h \in Pipelines PROVE queue[h] = <<>> /\ stream = <<>> /\ \A w \in Writers : wpc[w] = "unmade"
  BY DEF LifeInit, Init
<1>2. ASSUME NEW h \in Pipelines PROVE QueuedLines(h) = {} /\ DOMAIN stream = {} /\ \A w \in Writers : ~ HoldsLine(w, h)
  BY <1>1 DEF QueuedLines, HoldsLine
<1> QED BY <1>2 DEF Apart, QueueApart, HandsApart, StreamApart

\* No line is twice on the stream, in the buffer that the process was forked with and
\* after that.
NothingTwice ==
  \A i, j \in DOMAIN stream :
    stream[i].kind = "line" /\ stream[i] = stream[j] => i = j

\* Whatever moments the application chooses, whichever operations of the stream fail:
\* no line is twice in the stream of one process.
THEOREM LinesApart == LifeSpec => []NothingTwice
<1>1. TypedAndGiven /\ Apart => NothingTwice
  <2> SUFFICES ASSUME TypedAndGiven, Apart, NEW i \in DOMAIN stream, NEW j \in DOMAIN stream,
                      stream[i].kind = "line", stream[i] = stream[j]
               PROVE  i = j
    BY DEF NothingTwice
  <2>1. stream[i].on \in Pipelines
    BY StreamShape DEF Entry, TypedAndGiven
  <2>2. OnStream(i, stream[i].on) /\ OnStream(j, stream[i].on)
    BY DEF OnStream
  <2> QED BY <2>1, <2>2 DEF Apart, StreamApart
<1> QED BY <1>1, LifeTyped, ApartFirst, ApartKept, PTL DEF LifeSpec

-----------------------------------------------------------------------------
(* A line that was put into a queue in this process is there, in a hand or *)
(* in the stream: no step but a failing write loses one.                   *)

Present(h) == QueuedTickets(h) \cup HeldTickets(h) \cup WrittenTickets(h)

LEMMA PresentLines ==
  ASSUME LifeTypeOK, LifeTypeOK', NEW h \in Pipelines
  PROVE  /\ \A n : n \in HeldTickets(h) <=> \E w \in Writers : HoldsLine(w, h) /\ n = hand[w].n
         /\ \A n : n \in HeldTickets(h)' <=> \E w \in Writers : HoldsLine(w, h)' /\ n = hand'[w].n
         /\ \A n : n \in WrittenTickets(h) <=>
              \E k \in DOMAIN stream : OnStream(k, h) /\ n = stream[k].n
         /\ \A n : n \in WrittenTickets(h)' <=>
              \E k \in DOMAIN stream' : stream'[k].kind = "line" /\ stream'[k].on = h
                                        /\ n = stream'[k].n
<1>1. /\ \A n : n \in HeldTickets(h) <=> \E w \in Writers : HoldsLine(w, h) /\ n = hand[w].n
      /\ \A n : n \in HeldTickets(h)' <=> \E w \in Writers : HoldsLine(w, h)' /\ n = hand'[w].n
  BY DEF HeldTickets, HoldsLine
<1>2. DOMAIN stream = 1 .. Len(stream) /\ DOMAIN stream' = 1 .. Len(stream')
  <2>1. stream \in Seq(Entry) /\ stream' \in Seq(Entry)
    BY DEF LifeTypeOK, SinkTypeOK
  <2> QED BY <2>1
<1>3. \A n : n \in WrittenTickets(h) <=> \E k \in DOMAIN stream : OnStream(k, h) /\ n = stream[k].n
  BY <1>2 DEF WrittenTickets, WrittenUpTo, OnStream
<1>4. \A n : n \in WrittenTickets(h)' <=>
        \E k \in DOMAIN stream' : stream'[k].kind = "line" /\ stream'[k].on = h /\ n = stream'[k].n
  BY <1>2 DEF WrittenTickets, WrittenUpTo
<1> QED BY <1>1, <1>3, <1>4

\* What is present stays so, and what is put into the queue is present.
LEMMA NothingVanishes ==
  ASSUME TypedAndGiven, TypedAndGiven', Apart, LineMove, ~ LinesLeft, "stream" \notin Faults,
         NEW g \in Pipelines
  PROVE  /\ UNCHANGED floor /\ Present(g) \subseteq Present(g)'
         /\ \/ tickets'[g] = tickets[g]
            \/ tickets'[g] = tickets[g] + 1 /\ tickets[g] + 1 \in Present(g)'
<1>1. LifeTypeOK /\ LifeTypeOK'
  BY DEF TypedAndGiven
<1>2. CASE LinesStay
  <2>1. /\ UNCHANGED <<queue, tickets, stream, floor>>
        /\ \A w \in Writers : HoldsLine(w, g) => HoldsLine(w, g)' /\ hand'[w] = hand[w]
    BY <1>2 DEF LinesStay, SameHands
  <2>2. QueuedTickets(g)' = QueuedTickets(g)
    BY <2>1, SameQueues
  <2>3. WrittenTickets(g)' = WrittenTickets(g)
    BY <2>1 DEF WrittenTickets, WrittenUpTo
  <2> QED BY <1>1, <2>1, <2>2, <2>3, PresentLines DEF Present
<1>3. ASSUME NEW h \in Pipelines, NEW x \in Item, LinePut(h, x)
      PROVE  /\ UNCHANGED floor /\ Present(g) \subseteq Present(g)'
             /\ \/ tickets'[g] = tickets[g]
                \/ tickets'[g] = tickets[g] + 1 /\ tickets[g] + 1 \in Present(g)'
  <2>1. /\ UNCHANGED <<stream, floor>>
        /\ \A w \in Writers : HoldsLine(w, g) => HoldsLine(w, g)' /\ hand'[w] = hand[w]
    BY <1>3 DEF LinePut, SameHands
  <2>2. WrittenTickets(g)' = WrittenTickets(g)
    BY <2>1 DEF WrittenTickets, WrittenUpTo
  <2>3. /\ QueuedTickets(g) \subseteq QueuedTickets(g)'
        /\ \/ tickets'[g] = tickets[g]
           \/ tickets'[g] = tickets[g] + 1 /\ tickets[g] + 1 \in QueuedTickets(g)'
    BY <1>3, PutQueue
  <2>4. HeldTickets(g) \subseteq HeldTickets(g)'
    BY <1>1, <2>1, PresentLines
  <2> QED BY <2>1, <2>2, <2>3, <2>4 DEF Present
<1>4. ASSUME NEW w \in Writers, LineTaken(w)
      PROVE  UNCHANGED floor /\ Present(g) \subseteq Present(g)' /\ tickets'[g] = tickets[g]
  <2>1. PICK h \in Pipelines : h = wqueue[w]
    BY <1>4, TakeTyped DEF LineTaken
  <2> DEFINE x == queue[h][1]
  <2>2. /\ \A f \in Pipelines : ~ HoldsLine(w, f)
        /\ SameHands(Writers \ {w}) /\ UNCHANGED <<stream, tickets>>
        /\ \A f \in Pipelines : f # h => QueuedTickets(f)' = QueuedTickets(f)
        /\ x.kind # "line" => QueuedTickets(h)' = QueuedTickets(h)
        /\ x.kind = "line" => /\ QueuedTickets(h) = QueuedTickets(h)' \cup {x.n}
                              /\ HoldsLine(w, h)' /\ hand'[w] = x
    BY <1>4, <2>1, TakeQueue DEF LineTaken
  <2> HIDE DEF x
  <2>3. WrittenTickets(g)' = WrittenTickets(g)
    BY <2>2 DEF WrittenTickets, WrittenUpTo
  <2>4. HeldTickets(g) \subseteq HeldTickets(g)'
    <3>1. \A v \in Writers : HoldsLine(v, g) => HoldsLine(v, g)' /\ hand'[v] = hand[v]
      BY <2>2 DEF SameHands
    <3> QED BY <1>1, <3>1, PresentLines
  <2>5. QueuedTickets(g) \subseteq QueuedTickets(g)' \cup HeldTickets(g)'
    <3>1. x.kind = "line" => x.n \in HeldTickets(h)'
      BY <1>1, <2>2, PresentLines
    <3> QED BY <2>2, <3>1
  <2> QED BY <1>4, <2>2, <2>3, <2>4, <2>5 DEF LineTaken, Present
<1>5. ASSUME NEW w \in Writers, NEW h \in Pipelines, LineOut(w, h)
      PROVE  UNCHANGED floor /\ Present(g) \subseteq Present(g)' /\ tickets'[g] = tickets[g]
  <2>1. /\ UNCHANGED <<queue, tickets, floor>> /\ HoldsLine(w, h)
        /\ SameHands(Writers \ {w})
    BY <1>5 DEF LineOut
  <2>2. QueuedTickets(g)' = QueuedTickets(g)
    BY <2>1, SameQueues
  <2> DEFINE last == Len(stream) + 1
  <2>3. /\ \A k \in DOMAIN stream : k \in DOMAIN stream' /\ stream'[k] = stream[k]
        /\ last \in DOMAIN stream' /\ stream'[last].kind = "line" /\ stream'[last].on = h
        /\ stream'[last].n = hand[w].n
    BY <1>5, OutStream
  <2> HIDE DEF last
  <2>4. WrittenTickets(g) \subseteq WrittenTickets(g)'
    BY <1>1, <2>3, PresentLines DEF OnStream
  <2>5. HeldTickets(g) \subseteq HeldTickets(g)' \cup WrittenTickets(g)'
    <3> SUFFICES ASSUME NEW v \in Writers, HoldsLine(v, g)
                 PROVE  hand[v].n \in HeldTickets(g)' \cup WrittenTickets(g)'
      BY <1>1, PresentLines
    <3>1. CASE v = w
      <4>1. g = h
        BY <2>1, <3>1 DEF HoldsLine
      <4> QED BY <1>1, <2>3, <3>1, <4>1, PresentLines
    <3>2. CASE v # w
      <4>1. HoldsLine(v, g)' /\ hand'[v] = hand[v]
        BY <2>1, <3>2 DEF SameHands
      <4> QED BY <1>1, <4>1, PresentLines
    <3> QED BY <3>1, <3>2
  <2> QED BY <2>1, <2>2, <2>4, <2>5 DEF Present
<1> QED BY <1>2, <1>3, <1>4, <1>5 DEF LineMove, LineLost

LEMMA StrandedKept ==
  ASSUME "stream" \notin Faults
  PROVE  TypedAndGiven /\ Apart /\ NothingStranded /\ [LifeNext]_lifeVars => NothingStranded'
<1> SUFFICES ASSUME TypedAndGiven, Apart, NothingStranded, [LifeNext]_lifeVars,
                    NEW h \in Pipelines
             PROVE  (floor[h] + 1 .. tickets[h] \subseteq Present(h))'
  BY DEF NothingStranded, Present
<1>1. LineMove /\ TypedAndGiven'
  BY EveryMove, LifeTypedKept
<1>2. tickets[h] \in Nat /\ floor[h] \in Nat
  BY DEF TypedAndGiven, LifeTypeOK, PipeTypeOK, JobTypeOK
<1>3. CASE LinesLeft
  <2>1. floor'[h] = tickets[h] /\ tickets'[h] = tickets[h]
    BY <1>3 DEF LinesLeft
  <2>2. tickets[h] + 1 .. tickets[h] = {}
    BY <1>2
  <2> QED BY <2>1, <2>2
<1>4. CASE ~ LinesLeft
  <2>1. /\ UNCHANGED floor /\ Present(h) \subseteq Present(h)'
        /\ \/ tickets'[h] = tickets[h]
           \/ tickets'[h] = tickets[h] + 1 /\ tickets[h] + 1 \in Present(h)'
    BY <1>1, <1>4, NothingVanishes
  <2>2. floor[h] + 1 .. tickets[h] \subseteq Present(h)
    BY DEF NothingStranded, Present
  <2>3. floor[h] + 1 .. tickets[h] + 1 \subseteq (floor[h] + 1 .. tickets[h]) \cup {tickets[h] + 1}
    BY <1>2
  <2> QED BY <2>1, <2>2, <2>3
<1> QED BY <1>3, <1>4

\* Of the lines put into a queue in this process none is missing, unless a write fails:
\* no stop, restart, reconfiguration or fork loses one, at whatever moment it comes.
THEOREM NoLineLost == ASSUME "stream" \notin Faults PROVE LifeSpec => []NothingStranded
<1>1. LifeInit => NothingStranded
  <2> SUFFICES ASSUME LifeInit PROVE NothingStranded
    OBVIOUS
  <2>1. \A h \in Pipelines : floor[h] + 1 .. tickets[h] = {}
    BY DEF LifeInit, Init
  <2> QED BY <2>1 DEF NothingStranded
<1>2. TypedAndGiven /\ Apart /\ NothingStranded /\ [LifeNext]_lifeVars => NothingStranded'
  BY StrandedKept
<1> QED BY <1>1, <1>2, LifeTyped, ApartFirst, ApartKept, PTL DEF LifeSpec

-----------------------------------------------------------------------------
(* Calm: what the moments of "solo" and "warm" give.  Between the first     *)
(* line's look at _started and the start of the writer no job is under way, *)
(* and during a job nobody starts a writer but the job.                     *)

EmitCalm(p) ==
  /\ ppc[p] \in {"emit", "lock"} => started[via[p]] \/ (jpc = "idle" /\ via[p] = handler)
  /\ ppc[p] \in {"create", "launch"} =>
       /\ jpc = "idle" /\ via[p] = handler /\ startLock[handler] = p /\ started[handler]
       /\ ppc[p] = "create" => writer = None
       /\ ppc[p] = "launch" => writer # None /\ wpc[writer] = "made"
EmitsCalm == \A p \in Producers : EmitCalm(p)
RootCalm ==
  /\ jpc \notin {"detach", "attach", "forget"} => root = handler
  /\ jpc = "forget" => root = Direct
  /\ jpc # "idle" => handler \in Pipelines
  /\ jpc # "idle" /\ Regime = "solo" => \A p \in Producers : ppc[p] = "idle"
  /\ jpc # "idle" /\ Regime = "warm" /\ root \in Pipelines => started[root]
WriterCalm ==
  /\ handler \in Pipelines /\ writer # None => started[handler]
  /\ \A w \in Writers : Serving(w) => w = writer
  /\ jpc = "idle" /\ writer # None => Alive(writer) \/ \E p \in Producers : ppc[p] = "launch"
JobCalm ==
  /\ jpc # "force"
  /\ jpc = "drain" => job = "shutdown"
  /\ jpc \in {"put", "drain"} => writer # None /\ Alive(writer)
  /\ jpc \in {"put", "join"} => stopping = writer /\ (job = "fork" => wasRunning)
  /\ jpc = "join" => writer # None /\ wpc[writer] # "made"
  /\ jpc = "fork" => (wasRunning <=> writer # None)
  /\ jpc = "restart" => started[handler]
  /\ jpc \in {"fork", "restart", "swap", "detach", "attach", "redirect", "forget"} =>
       \A w \in Writers : ~ Serving(w)
  /\ jpc \in {"detach", "attach", "forget"} => writer = None
  /\ jpc = "relaunch" => writer # None /\ wpc[writer] = "made"
Calm == EmitsCalm /\ RootCalm /\ WriterCalm /\ JobCalm

\* A sentinel is in the queue only while its writer is being joined; behind it is
\* no other one, and no line from before the job began.
Behind(h, i) ==
  \A j \in DOMAIN queue[h] : j > i =>
    queue[h][j].kind # "sentinel" /\ (queue[h][j].kind = "line" => queue[h][j].n > goal[h])
SentinelSound(h) ==
  \A i \in DOMAIN queue[h] : queue[h][i].kind = "sentinel" =>
    jpc = "join" /\ h = wqueue[stopping] /\ Alive(stopping) /\ Behind(h, i)
Stopped == \/ jpc = "join" /\ ~ Alive(stopping)
           \/ jpc \in {"fork", "swap", "redirect"} /\ stopping # None
LinesPast(h) ==
  Stopped /\ h = wqueue[stopping] => \A n \in QueuedTickets(h) : n > goal[h]
Drained ==
  /\ \A h \in Pipelines : SentinelSound(h) /\ LinesPast(h) /\ goal[h] <= tickets[h]
  /\ Stopped => wpc[stopping] # "unmade"

LEMMA CalmFirst == LifeInit => Calm /\ Drained
<1> SUFFICES ASSUME LifeInit PROVE Calm /\ Drained
  OBVIOUS
<1>1. Calm
  BY DEF LifeInit, Init, Calm, EmitsCalm, EmitCalm, RootCalm, WriterCalm, JobCalm, Serving
<1>2. Drained
  <2>1. \A h \in Pipelines : DOMAIN queue[h] = {} /\ goal[h] = 0 /\ tickets[h] = 0
    BY DEF LifeInit, Init
  <2>2. ~ Stopped
    BY DEF LifeInit, Init, Stopped
  <2> QED BY <2>1, <2>2 DEF Drained, SentinelSound, LinesPast
<1> QED BY <1>1, <1>2

\* The thread goes on in emit, and nothing else changes that Calm is about.
LEMMA CalmGoesOn ==
  ASSUME TypedAndGiven, Calm, NEW p \in Producers, NEW there,
         UNCHANGED <<handler, writer, root, started, startLock, wpc, via>>, UNCHANGED jobVars,
         ppc' = [ppc EXCEPT ![p] = there], there \notin {"emit", "create", "launch"},
         there = "lock" => ppc[p] = "emit", ppc[p] # "launch", MayLog
  PROVE  Calm'
<1>1. ppc = [q \in Producers |-> ppc[q]]
  BY DEF TypedAndGiven, LifeTypeOK, ProducerTypeOK
<1>2. \A q \in Producers : ppc'[q] = IF q = p THEN there ELSE ppc[q]
  BY <1>1
<1>3. EmitsCalm'
  BY <1>2 DEF Calm, EmitsCalm, EmitCalm
<1>4. RootCalm'
  BY <1>2 DEF Calm, RootCalm, MayLog
<1>5. WriterCalm'
  <2>1. \A q \in Producers : ppc[q] = "launch" => ppc'[q] = "launch"
    BY <1>2
  <2> QED BY <2>1 DEF Calm, WriterCalm, Serving
<1>6. JobCalm'
  BY DEF Calm, JobCalm, Serving
<1> QED BY <1>3, <1>4, <1>5, <1>6 DEF Calm

LEMMA LogKeepsCalm ==
  ASSUME Regime \in {"solo", "warm"}, TypedAndGiven, Calm, NEW p \in Producers, Log(p)
  PROVE  Calm'
<1>0. UNCHANGED jobVars /\ MayLog /\ ~ StartAgain(p)
  BY DEF Log, StartAgain, Calm, EmitsCalm, EmitCalm
<1>1. /\ EmitCalm(p) /\ RootCalm /\ WriterCalm /\ JobCalm
      /\ \A q \in Producers : EmitCalm(q)
  BY DEF Calm, EmitsCalm
<1>2. /\ ppc[p] # "idle" => via[p] \in Pipelines
      /\ ppc = [q \in Producers |-> ppc[q]] /\ via \in [Producers -> Pipelines \cup {None}]
  BY DEF TypedAndGiven, LifeTypeOK, ProducerTypeOK, Given, ThreadsSound
<1>3. CASE Dispatch(p)
  <2>1. /\ UNCHANGED <<handler, writer, root, started, startLock, wpc>>
        /\ \A q \in Producers : ppc'[q] = IF q = p THEN "emit" ELSE ppc[q]
        /\ \A q \in Producers : via'[q] = IF q = p THEN root ELSE via[q]
        /\ ppc[p] = "idle" /\ root \in Pipelines
    BY <1>2, <1>3 DEF Dispatch
  <2>2. started[root] \/ (jpc = "idle" /\ root = handler)
    BY <1>0, <1>1, <2>1 DEF RootCalm, MayLog
  <2>3. EmitsCalm'
    BY <1>0, <1>1, <2>1, <2>2 DEF EmitsCalm, EmitCalm
  <2>4. RootCalm'
    BY <1>0, <1>1, <2>1 DEF RootCalm, MayLog
  <2>5. WriterCalm'
    <3>1. \A q \in Producers : ppc[q] = "launch" => ppc'[q] = "launch"
      BY <2>1
    <3> QED BY <1>0, <1>1, <2>1, <3>1 DEF WriterCalm, Serving
  <2>6. JobCalm'
    BY <1>0, <1>1, <2>1 DEF JobCalm, Serving
  <2> QED BY <2>3, <2>4, <2>5, <2>6 DEF Calm
<1>4. CASE ClaimStart(p)
  <2>1. /\ UNCHANGED <<handler, writer, root, via, wpc>>
        /\ \A q \in Producers : ppc'[q] = IF q = p THEN "create" ELSE ppc[q]
        /\ ppc[p] = "lock" /\ via[p] \in Pipelines /\ ~ started[via[p]] /\ startLock[via[p]] = None
    BY <1>2, <1>4 DEF ClaimStart
  <2>2. /\ \A h \in Pipelines : started'[h] = (h = via[p] \/ started[h])
        /\ \A h \in Pipelines : startLock'[h] = IF h = via[p] THEN p ELSE startLock[h]
    BY <1>4, <2>1 DEF ClaimStart, TypedAndGiven, LifeTypeOK, PipeTypeOK
  <2>3. jpc = "idle" /\ via[p] = handler /\ writer = None
    BY <1>1, <2>1 DEF EmitCalm, WriterCalm
  <2>4. EmitsCalm'
    <3> SUFFICES ASSUME NEW q \in Producers PROVE EmitCalm(q)'
      BY DEF EmitsCalm
    <3>1. CASE q = p
      BY <1>0, <2>1, <2>2, <2>3, <3>1 DEF EmitCalm
    <3>2. CASE q # p
      <4>1. ppc'[q] \notin {"create", "launch"}
        BY <1>1, <2>1, <2>3, <3>2, Names DEF EmitCalm
      <4>2. ppc'[q] \in {"emit", "lock"} =>
              via[q] \in Pipelines /\ (started[via[q]] \/ (jpc = "idle" /\ via[q] = handler))
        BY <1>1, <1>2, <2>1, <3>2 DEF EmitCalm, TypedAndGiven, Given, ThreadsSound
      <4> QED BY <1>0, <2>1, <2>2, <4>1, <4>2 DEF EmitCalm
    <3> QED BY <3>1, <3>2
  <2>5. RootCalm'
    BY <1>0, <1>1, <2>1, <2>2, <2>3 DEF RootCalm
  <2>6. WriterCalm'
    BY <1>0, <1>1, <2>1, <2>3 DEF WriterCalm, Serving
  <2>7. JobCalm'
    BY <1>0, <1>1, <2>1, <2>3 DEF JobCalm, Serving
  <2> QED BY <2>4, <2>5, <2>6, <2>7 DEF Calm
<1>5. CASE CreateWriter(p)
  <2>1. /\ ppc[p] = "create" /\ jpc = "idle" /\ via[p] = handler /\ startLock[handler] = p
        /\ started[handler] /\ writer = None
    BY <1>1, <1>5 DEF EmitCalm, CreateWriter
  <2>2. PICK w \in Writers : NewWriter(w)
    BY <1>5 DEF CreateWriter
  <2>3. /\ writer' = w /\ w # None
        /\ \A v \in Writers : wpc'[v] = IF v = w THEN "made" ELSE wpc[v]
        /\ UNCHANGED <<handler, root, started, startLock, via>>
        /\ \A q \in Producers : ppc'[q] = IF q = p THEN "launch" ELSE ppc[q]
    BY <1>2, <1>5, <2>2, Names DEF CreateWriter, TypedAndGiven, LifeTypeOK, WriterTypeOK
  <2>4. \A v \in Writers : ~ Serving(v)
    BY <1>1, <2>1, Names DEF WriterCalm
  <2>5. EmitsCalm'
    <3> SUFFICES ASSUME NEW q \in Producers PROVE EmitCalm(q)'
      BY DEF EmitsCalm
    <3>1. CASE q = p
      BY <1>0, <2>1, <2>3, <3>1 DEF EmitCalm
    <3>2. CASE q # p
      <4>1. ppc'[q] \notin {"create", "launch"}
        BY <1>1, <2>1, <2>3, <3>2 DEF EmitCalm
      <4> QED BY <1>0, <1>1, <2>3, <3>2, <4>1 DEF EmitCalm
    <3> QED BY <3>1, <3>2
  <2>6. RootCalm'
    BY <1>0, <1>1, <2>1, <2>3 DEF RootCalm
  <2>7. WriterCalm'
    <3>1. \A v \in Writers : Serving(v)' => v = writer'
      BY <2>3, <2>4 DEF Serving
    <3>2. ppc'[p] = "launch" /\ started'[handler']
      BY <2>1, <2>3
    <3> QED BY <3>1, <3>2 DEF WriterCalm
  <2>8. JobCalm'
    BY <1>0, <2>1 DEF JobCalm
  <2> QED BY <2>5, <2>6, <2>7, <2>8 DEF Calm
<1>6. CASE LaunchWriter(p)
  <2>1. /\ ppc[p] = "launch" /\ jpc = "idle" /\ via[p] = handler /\ startLock[handler] = p
        /\ started[handler] /\ writer # None /\ wpc[writer] = "made"
    BY <1>1, <1>6 DEF EmitCalm, LaunchWriter
  <2>2. writer \in Writers
    BY <2>1 DEF TypedAndGiven, LifeTypeOK, LifeStateTypeOK
  <2>3. /\ \A v \in Writers : wpc'[v] = IF v = writer THEN "get" ELSE wpc[v]
        /\ UNCHANGED <<handler, root, writer, started, via>>
        /\ \A q \in Producers : ppc'[q] = IF q = p THEN "prepare" ELSE ppc[q]
    BY <1>2, <1>6, <2>2 DEF LaunchWriter, TypedAndGiven, LifeTypeOK, WriterTypeOK
  <2>4. EmitsCalm'
    <3> SUFFICES ASSUME NEW q \in Producers PROVE EmitCalm(q)'
      BY DEF EmitsCalm
    <3>1. CASE q = p
      BY <2>3, <3>1 DEF EmitCalm
    <3>2. CASE q # p
      <4>1. ppc'[q] \notin {"create", "launch"}
        BY <1>1, <2>1, <2>3, <3>2 DEF EmitCalm
      <4> QED BY <1>0, <1>1, <2>3, <3>2, <4>1 DEF EmitCalm
    <3> QED BY <3>1, <3>2
  <2>5. RootCalm'
    BY <1>0, <1>1, <2>1, <2>3 DEF RootCalm
  <2>6. WriterCalm'
    <3>1. \A v \in Writers : Serving(v)' => v = writer'
      BY <1>1, <2>3 DEF Serving, WriterCalm
    <3>2. Alive(writer)' /\ started'[handler']
      BY <2>1, <2>2, <2>3
    <3> QED BY <3>1, <3>2 DEF WriterCalm
  <2>7. JobCalm'
    BY <1>0, <2>1 DEF JobCalm
  <2> QED BY <2>4, <2>5, <2>6, <2>7 DEF Calm
<1>7. CASE LogElsewhere(p)
  <2>1. UNCHANGED <<handler, writer, root, started, startLock, wpc, via, ppc>>
    BY <1>7 DEF LogElsewhere
  <2> QED BY <1>0, <2>1 DEF Calm, EmitsCalm, EmitCalm, RootCalm, WriterCalm, JobCalm, Serving
<1>8. CASE StartRaises(p) \/ LaunchFails(p)
  BY <1>1, <1>2, <1>8, Names, LifecycleAssumption DEF StartRaises, LaunchFails, EmitCalm
<1>9. CASE SeeStarted(p)
  BY <1>0, <1>9, CalmGoesOn DEF SeeStarted
<1>10. CASE StartedMeanwhile(p)
  BY <1>0, <1>10, CalmGoesOn DEF StartedMeanwhile
<1>11. CASE Prepare(p)
  BY <1>0, <1>11, CalmGoesOn DEF Prepare
<1>12. CASE PrepareFails(p)
  BY <1>0, <1>12, CalmGoesOn DEF PrepareFails
<1>13. CASE Enqueue(p)
  BY <1>0, <1>13, CalmGoesOn DEF Enqueue
<1>14. CASE CheckRoom(p)
  BY <1>0, <1>14, CalmGoesOn DEF CheckRoom
<1>15. CASE OfferFull(p) \/ CountDrop(p)
  BY <1>0, <1>15, CalmGoesOn DEF OfferFull, CountDrop
<1> QED BY <1>0, <1>3, <1>4, <1>5, <1>6, <1>7, <1>8, <1>9, <1>10, <1>11, <1>12, <1>13, <1>14, <1>15
        DEF Log, Emit

\* A writer that lives goes on living.
LEMMA CalmWrites ==
  ASSUME Calm, UNCHANGED <<handler, writer, root, started, startLock, via, ppc>>, UNCHANGED jobVars,
         writer \in Writers \cup {None},
         \A v \in Writers : /\ Alive(v)' <=> Alive(v)
                            /\ wpc'[v] = "made" <=> wpc[v] = "made"
  PROVE  Calm'
<1>1. \A v \in Writers : Serving(v)' <=> Serving(v)
  BY DEF Serving
<1>2. EmitsCalm' /\ RootCalm' /\ WriterCalm' /\ JobCalm'
  BY <1>1 DEF Calm, EmitsCalm, EmitCalm, RootCalm, WriterCalm, JobCalm
<1> QED BY <1>2 DEF Calm

LEMMA ServeKeepsCalm ==
  ASSUME TypedAndGiven, Calm, Drained, NEW w \in Writers, Serve(w)
  PROVE  Calm'
<1>0. UNCHANGED jobVars /\ writer \in Writers \cup {None}
      /\ wpc = [v \in Writers |-> wpc[v]]
  BY DEF Serve, TypedAndGiven, LifeTypeOK, LifeStateTypeOK, WriterTypeOK
<1>1. CASE Take(w)
  <2>1. PICK h \in Pipelines : h = wqueue[w]
    BY <1>1, TakeTyped
  <2>2. queue[h] \in Seq(Item) /\ queue[h] # <<>>
    BY <1>1, <2>1, TakeTyped
  <2>3. Head(queue[h]) = queue[h][1] /\ 1 \in DOMAIN queue[h]
    BY <2>2, TakenAt
  <2>4. UNCHANGED <<handler, writer, root, started, startLock, via, ppc>> /\ Alive(w) /\ wpc[w] # "made"
    BY <1>1 DEF Take
  <2>5. CASE Head(queue[h]).kind = "sentinel"
    <3>1. jpc = "join"
      BY <2>3, <2>5 DEF Drained, SentinelSound
    <3>2. \A v \in Writers : wpc'[v] = IF v = w THEN "dead" ELSE wpc[v]
      BY <1>0, <1>1, <2>1, <2>5 DEF Take
    <3>3. \A v \in Writers : /\ Serving(v)' => Serving(v)
                             /\ wpc'[v] = "made" => wpc[v] = "made"
      BY <3>2 DEF Serving
    <3>4. stopping = writer /\ writer \in Writers
      BY <1>0, <3>1, Names DEF Calm, JobCalm, TypedAndGiven, Given, StopSound
    <3>5. EmitsCalm'
      BY <1>0, <2>4, <3>1 DEF Calm, EmitsCalm, EmitCalm
    <3>6. RootCalm' /\ WriterCalm'
      BY <1>0, <2>4, <3>1, <3>3 DEF Calm, RootCalm, WriterCalm
    <3>7. JobCalm'
      BY <1>0, <2>4, <3>1, <3>3, <3>4 DEF Calm, JobCalm
    <3> QED BY <3>5, <3>6, <3>7 DEF Calm
  <2>6. CASE Head(queue[h]).kind # "sentinel"
    <3>1. \A v \in Writers : wpc'[v] = IF v = w THEN "handle" ELSE wpc[v]
      BY <1>0, <1>1, <2>1, <2>6 DEF Take
    <3> QED BY <1>0, <2>4, <3>1, CalmWrites
  <2> QED BY <2>5, <2>6
<1>2. CASE HandleMarker(w)
  BY <1>0, <1>2, CalmWrites DEF HandleMarker
<1>3. CASE WriteLine(w)
  BY <1>0, <1>3, CalmWrites DEF WriteLine
<1>4. CASE WriteFails(w)
  BY <1>0, <1>4, CalmWrites DEF WriteFails
<1>5. CASE FlushIfEmpty(w)
  BY <1>0, <1>5, CalmWrites DEF FlushIfEmpty
<1>6. CASE FlushFails(w)
  BY <1>0, <1>6, CalmWrites DEF FlushFails
<1> QED BY <1>1, <1>2, <1>3, <1>4, <1>5, <1>6 DEF Serve, Write

LEMMA AwaitKeepsCalm ==
  ASSUME TypedAndGiven, Calm, NEW f \in Flushers, Await(f)
  PROVE  Calm'
<1>1. UNCHANGED <<handler, writer, root, started, startLock, wpc, via, ppc>> /\ UNCHANGED jobVars
  BY DEF Await, Flush, FlushCall, StartFlush, PutMarker, FlushReleased, FlushTimesOut, FlushFindsDead
<1> QED BY <1>1, CalmWrites DEF TypedAndGiven, LifeTypeOK, LifeStateTypeOK

\* While a job is under way ...
LEMMA CalmBusy ==
  ASSUME Calm, jpc # "idle"
  PROVE  \A p \in Producers : /\ ppc[p] \notin {"create", "launch"}
                              /\ ppc[p] \in {"emit", "lock"} => started[via[p]]
BY DEF Calm, EmitsCalm, EmitCalm

\* ... and when one may begin.
LEMMA CalmBegin ==
  ASSUME Regime \in {"solo", "warm"}, TypedAndGiven, Calm, NEW kind \in JobKinds, Begin(kind)
  PROVE  /\ handler \in Pipelines /\ root = handler
         /\ \A p \in Producers : /\ ppc[p] \notin {"create", "launch"}
                                 /\ ppc[p] \in {"emit", "lock"} => started[via[p]]
         /\ writer # None => Alive(writer)
         /\ writer = None => \A w \in Writers : ~ Serving(w)
         /\ Regime = "solo" => \A p \in Producers : ppc[p] = "idle"
         /\ Regime = "warm" => started[handler]
<1>1. handler \in Pipelines /\ jpc = "idle" /\ root = handler
  BY DEF Begin, Calm, RootCalm
<1>2. \A p \in Producers : ppc[p] \notin {"create", "launch"}
  <2> SUFFICES ASSUME NEW p \in Producers, ppc[p] \in {"create", "launch"} PROVE FALSE
    OBVIOUS
  <2>1. startLock[handler] = p /\ p # None
    BY Names DEF Calm, EmitsCalm, EmitCalm
  <2> QED BY <2>1 DEF Begin, Moment
<1>3. \A p \in Producers : ppc[p] \in {"emit", "lock"} => started[via[p]]
  BY DEF Begin, Moment, Calm, EmitsCalm, EmitCalm
<1>4. writer # None => Alive(writer)
  BY <1>1, <1>2 DEF Calm, WriterCalm
<1>5. writer = None => \A w \in Writers : ~ Serving(w)
  BY Names DEF Calm, WriterCalm
<1> QED BY <1>1, <1>2, <1>3, <1>4, <1>5 DEF Begin, Moment

LEMMA BeginKeepsCalm ==
  ASSUME Regime \in {"solo", "warm"}, TypedAndGiven, Calm,
         ForkBegin \/ InstallBegin \/ ShutdownBegin
  PROVE  Calm'
<1>1. PICK kind \in JobKinds : Begin(kind)
  BY DEF JobKinds, ForkBegin, InstallBegin, ShutdownBegin
<1>2. /\ handler \in Pipelines /\ root = handler
      /\ \A p \in Producers : /\ ppc[p] \notin {"create", "launch"}
                              /\ ppc[p] \in {"emit", "lock"} => started[via[p]]
      /\ writer # None => Alive(writer)
      /\ writer = None => \A w \in Writers : ~ Serving(w)
      /\ Regime = "solo" => \A p \in Producers : ppc[p] = "idle"
      /\ Regime = "warm" => started[handler]
  BY <1>1, CalmBegin
<1>3. UNCHANGED <<handler, writer, root, started, startLock, wpc, via, ppc>> /\ stopping' = writer
  BY DEF ForkBegin, InstallBegin, ShutdownBegin, Begin, StartFlush
<1>4. EmitsCalm'
  BY <1>2, <1>3 DEF EmitsCalm, EmitCalm
<1>5. /\ jpc' \in {"put", "fork", "swap", "redirect", "drain"}
      /\ jpc' \in {"put", "drain"} <=> writer # None
      /\ jpc' = "drain" => job' = "shutdown"
      /\ job' = "fork" => (wasRunning' <=> writer # None)
      /\ jpc' = "fork" => job' = "fork"
  BY <1>2 DEF ForkBegin, InstallBegin, ShutdownBegin, Begin, CallStop, Running
<1>6. RootCalm'
  BY <1>2, <1>3, <1>5 DEF RootCalm
<1>7. WriterCalm'
  BY <1>2, <1>3, <1>5 DEF Calm, WriterCalm, Serving
<1>8. JobCalm'
  BY <1>2, <1>3, <1>5 DEF JobCalm, Serving
<1> QED BY <1>4, <1>6, <1>7, <1>8 DEF Calm

\* The steps of stop(), and those that only move the job on.
LEMMA StopKeepsCalm ==
  ASSUME TypedAndGiven, Calm, Stop \/ ParentResumes \/ ShutdownStop
  PROVE  Calm'
<1>1. /\ UNCHANGED <<handler, writer, root, started, startLock, wpc, via, ppc, wasRunning, job>>
      /\ jpc # "idle" /\ (jpc' = "idle" => jpc = "fork" /\ ~ wasRunning)
  BY DEF Stop, PutSentinel, ForceSentinel, ForceFull, Join, ParentResumes, ShutdownStop, Calm, JobCalm,
         CallStop, AfterStop, TypedAndGiven, LifeTypeOK, JobTypeOK, JobKinds
<1>2. jpc' \in {"idle", "join", "fork", "swap", "redirect", "restart", "put"}
  <2>1. jpc # "force"
    BY DEF Calm, JobCalm
  <2>2. AfterStop \in {"fork", "swap", "redirect"}
    BY AfterStops DEF TypedAndGiven
  <2>3. jpc = "drain" => Alive(writer)
    BY DEF Calm, JobCalm
  <2> QED BY <2>1, <2>2, <2>3 DEF Stop, PutSentinel, ForceSentinel, ForceFull, Join, ParentResumes,
                                  ShutdownStop, CallStop
<1>3. EmitsCalm'
  BY <1>1, CalmBusy DEF EmitsCalm, EmitCalm
<1>4. RootCalm'
  BY <1>1, <1>2 DEF Calm, RootCalm, Stop, PutSentinel, ForceSentinel, ForceFull, Join, ParentResumes,
                    ShutdownStop
<1>5. WriterCalm'
  BY <1>1 DEF Calm, WriterCalm, JobCalm, Serving
<1>6. JobCalm'
  <2>1. CASE PutSentinel
    <3>1. jpc = "put" /\ jpc' = "join" /\ stopping' = stopping
      BY <2>1 DEF PutSentinel
    <3> QED BY <1>1, <3>1 DEF Calm, JobCalm
  <2>2. CASE Join
    <3>1. jpc = "join" /\ jpc' \in {"fork", "swap", "redirect"} /\ ~ Alive(stopping)
          /\ (jpc' = "fork" => job = "fork")
      BY <2>2 DEF Join, Joined, AfterStop, TypedAndGiven, LifeTypeOK, JobTypeOK, JobKinds
    <3>2. \A w \in Writers : ~ Serving(w)
      BY <3>1 DEF Calm, JobCalm, WriterCalm, Serving
    <3> QED BY <1>1, <3>1, <3>2 DEF Calm, JobCalm, Serving
  <2>3. CASE ParentResumes
    <3>1. jpc = "fork" /\ jpc' \in {"idle", "restart"} /\ (jpc' = "restart" => wasRunning)
      BY <2>3 DEF ParentResumes
    <3>2. jpc' = "restart" => started[handler]
      BY <3>1 DEF Calm, JobCalm, WriterCalm, RootCalm
    <3>3. \A w \in Writers : ~ Serving(w)
      BY <3>1 DEF Calm, JobCalm
    <3> QED BY <1>1, <3>1, <3>2, <3>3 DEF JobCalm, Serving
  <2>4. CASE ShutdownStop
    <3>1. jpc = "drain" /\ jpc' = "put" /\ stopping' = writer /\ job = "shutdown" /\ writer # None /\ Alive(writer)
      BY <2>4 DEF ShutdownStop, CallStop, Calm, JobCalm
    <3> QED BY <1>1, <3>1 DEF JobCalm
  <2> QED BY <2>1, <2>2, <2>3, <2>4 DEF Stop, ForceSentinel, ForceFull, Calm, JobCalm
<1> QED BY <1>3, <1>4, <1>5, <1>6 DEF Calm

LEMMA ForkKeepsCalm ==
  ASSUME TypedAndGiven, Calm, RestartWriter \/ RelaunchWriter \/ RelaunchAgain \/ ChildResumes
  PROVE  Calm'
<1>0. /\ wpc = [w \in Writers |-> wpc[w]] /\ writer \in Writers \cup {None}
      /\ started \in [Pipelines -> BOOLEAN] /\ ppc = [p \in Producers |-> ppc[p]]
  BY DEF TypedAndGiven, LifeTypeOK, LifeStateTypeOK, WriterTypeOK, PipeTypeOK, ProducerTypeOK
<1>1. CASE RestartWriter
  <2>1. PICK w \in Writers : NewWriter(w)
    BY <1>1 DEF RestartWriter
  <2>2. /\ jpc = "restart" /\ jpc' = "relaunch" /\ writer' = w /\ w # None
        /\ UNCHANGED <<handler, root, started, startLock, ppc, via>>
        /\ \A v \in Writers : wpc'[v] = IF v = w THEN "made" ELSE wpc[v]
    BY <1>0, <1>1, <2>1, Names DEF RestartWriter
  <2>3. EmitsCalm'
    BY <2>2, CalmBusy DEF EmitsCalm, EmitCalm
  <2>4. RootCalm'
    BY <2>2 DEF Calm, RootCalm
  <2>5. WriterCalm'
    BY <2>2 DEF Calm, WriterCalm, JobCalm, Serving
  <2>6. JobCalm'
    BY <2>2 DEF JobCalm
  <2> QED BY <2>3, <2>4, <2>5, <2>6 DEF Calm
<1>2. CASE RelaunchWriter
  <2>1. /\ jpc = "relaunch" /\ jpc' = "idle" /\ writer # None /\ writer \in Writers
        /\ UNCHANGED <<handler, root, writer, started, startLock, ppc, via>>
    BY <1>0, <1>2 DEF RelaunchWriter, Calm, JobCalm
  <2>2. \A v \in Writers : wpc'[v] = IF v = writer THEN "get" ELSE wpc[v]
    BY <1>0, <1>2, <2>1 DEF RelaunchWriter
  <2>3. EmitsCalm'
    BY <2>1, CalmBusy DEF EmitsCalm, EmitCalm
  <2>4. RootCalm'
    BY <2>1 DEF Calm, RootCalm
  <2>5. WriterCalm'
    BY <2>1, <2>2 DEF Calm, WriterCalm, Serving
  <2>6. JobCalm'
    BY <2>1 DEF JobCalm
  <2> QED BY <2>3, <2>4, <2>5, <2>6 DEF Calm
<1>3. CASE ChildResumes
  <2>1. /\ jpc = "fork" /\ jpc' = "idle" /\ writer' = None /\ UNCHANGED <<handler, root>>
        /\ \A p \in Producers : ppc'[p] = "idle"
        /\ \A v \in Writers : wpc'[v] \in {"unmade", "dead"}
    BY <1>3 DEF ChildResumes
  <2>2. EmitsCalm' /\ RootCalm' /\ WriterCalm' /\ JobCalm'
    BY <2>1 DEF Calm, EmitsCalm, EmitCalm, RootCalm, WriterCalm, JobCalm, Serving
  <2> QED BY <2>2 DEF Calm
<1>4. CASE RelaunchAgain
  BY <1>4 DEF RelaunchAgain, Calm, JobCalm
<1> QED BY <1>1, <1>2, <1>3, <1>4

LEMMA SwapKeepsCalm ==
  ASSUME TypedAndGiven, Calm, \/ InstallHandler \/ DetachRoot \/ AttachRoot \/ RedirectRoot
                              \/ ForgetHandler
  PROVE  Calm'
<1>1. /\ UNCHANGED <<started, startLock, wpc, ppc, via>> /\ jpc # "idle"
      /\ writer' = None /\ (\A w \in Writers : ~ Serving(w)) /\ (\A w \in Writers : ~ Serving(w)')
      /\ jpc' \in {"detach", "attach", "forget", "idle"}
  BY DEF InstallHandler, DetachRoot, AttachRoot, RedirectRoot, ForgetHandler, Calm, JobCalm, Serving
<1>2. EmitsCalm'
  BY <1>1, CalmBusy DEF EmitsCalm, EmitCalm
<1>3. RootCalm'
  <2>1. handler \in Pipelines /\ Direct \notin Pipelines /\ None \notin Pipelines
    BY <1>1, Names DEF Calm, RootCalm
  <2>2. jpc' # "idle" => handler' \in Pipelines /\ (root' \in Pipelines => root' = root)
    BY <2>1 DEF InstallHandler, DetachRoot, AttachRoot, RedirectRoot, ForgetHandler
  <2>3. /\ jpc' \notin {"detach", "attach", "forget"} => root' = handler'
        /\ jpc' = "forget" => root' = Direct
    BY <1>1 DEF InstallHandler, DetachRoot, AttachRoot, RedirectRoot, ForgetHandler, Calm, RootCalm
  <2> QED BY <1>1, <2>2, <2>3 DEF Calm, RootCalm
<1>4. WriterCalm' /\ JobCalm'
  BY <1>1 DEF WriterCalm, JobCalm
<1> QED BY <1>2, <1>3, <1>4 DEF Calm

LEMMA CalmKept ==
  ASSUME Regime \in {"solo", "warm"}
  PROVE  TypedAndGiven /\ Calm /\ Drained /\ [LifeNext]_lifeVars => Calm'
<1> SUFFICES ASSUME TypedAndGiven, Calm, Drained, [LifeNext]_lifeVars PROVE Calm'
  OBVIOUS
<1>1. CASE LifeFinished \/ UNCHANGED lifeVars
  <2>1. UNCHANGED <<handler, writer, root, started, startLock, via, ppc, wpc>> /\ UNCHANGED jobVars
    BY <1>1 DEF LifeFinished
  <2> QED BY <2>1, CalmWrites DEF TypedAndGiven, LifeTypeOK, LifeStateTypeOK
<1>2. CASE Job
  BY <1>2, StopKeepsCalm, BeginKeepsCalm, ForkKeepsCalm, SwapKeepsCalm DEF Job, Fork, Install, Shutdown
<1> QED BY <1>1, <1>2, LogKeepsCalm, ServeKeepsCalm, AwaitKeepsCalm DEF LifeNext

-----------------------------------------------------------------------------
(* Own: what a writer of this process can get at was put there in this      *)
(* process.  Lines from before the fork are only in queues that nobody      *)
(* serves any more.                                                         *)

\* The pipelines whose queue a writer has, or can be given.
Served ==
  {h \in Pipelines : h = handler \/ \E w \in Writers : (Serving(w) \/ w = writer) /\ wqueue[w] = h}
NewLines(h) == \A i \in QueuedLines(h) : queue[h][i].n > floor[h]
Own ==
  /\ \A h \in Pipelines : floor[h] <= tickets[h]
  /\ \A h \in Served : NewLines(h)
  /\ \A w \in Writers : \A h \in Pipelines : HoldsLine(w, h) => hand[w].n > floor[h]

\* A pipeline that install() has not made is nowhere, and its queue is empty.
MadeSound ==
  /\ handler \in Pipelines => handler \in made
  /\ root \in Pipelines => root \in made
  /\ \A p \in Producers : ppc[p] # "idle" => via[p] \in made
  /\ \A f \in Flushers : fpc[f] # "idle" => fon[f] \in made
  /\ \A w \in Writers : wpc[w] # "unmade" => wqueue[w] \in made
QueuesMade == \A h \in Pipelines : h \notin made => queue[h] = <<>>

LEMMA OwnFirst == LifeInit => Own /\ MadeSound /\ QueuesMade
<1> SUFFICES ASSUME LifeInit PROVE Own /\ MadeSound /\ QueuesMade
  OBVIOUS
<1>1. MadeSound /\ QueuesMade
  BY DEF LifeInit, Init, MadeSound, QueuesMade
<1>2. \A h \in Pipelines : DOMAIN queue[h] = {} /\ floor[h] = 0 /\ tickets[h] = 0
  BY DEF LifeInit, Init
<1>3. \A w \in Writers : \A h \in Pipelines : ~ HoldsLine(w, h)
  BY DEF LifeInit, Init, HoldsLine
<1> QED BY <1>1, <1>2, <1>3 DEF Own, NewLines, QueuedLines, Served

\* A thread added to a writer serves the queue that the writer has.
ThreadAdded(w) ==
  /\ Served' \subseteq Served
  /\ \A v \in Writers : wpc'[v] # "unmade" =>
       \E u \in Writers : wpc[u] # "unmade" /\ wqueue'[v] = wqueue[u]

LEMMA AddThreadServes ==
  ASSUME TypedAndGiven, NEW w \in Writers, AddThread(w), writer \in Writers, wpc[writer] # "unmade"
  PROVE  ThreadAdded(w)
<1>1. /\ \A v \in Writers : wpc'[v] = IF v = w THEN "get" ELSE wpc[v]
      /\ \A v \in Writers : wqueue'[v] = IF v = w THEN wqueue[writer] ELSE wqueue[v]
      /\ writer' = w /\ UNCHANGED handler
  BY DEF AddThread, TypedAndGiven, LifeTypeOK, WriterTypeOK
<1>2. Served' \subseteq Served
  BY <1>1 DEF Served, Serving
<1> QED BY <1>1, <1>2 DEF ThreadAdded

LEMMA LogMade ==
  ASSUME TypedAndGiven, MadeSound, QueuesMade, NEW p \in Producers, Log(p)
  PROVE  /\ MadeSound' /\ QueuesMade' /\ UNCHANGED <<made, floor>>
         /\ Served' \subseteq Served
<1> USE DEF TypedAndGiven, LifeTypeOK
<1>1. UNCHANGED <<made, floor, handler, root>>
  BY DEF Log, StartAgain, AddThread, Emit, Dispatch, SeeStarted, StartedMeanwhile, ClaimStart,
         CreateWriter, LaunchWriter, LaunchFails, Prepare, PrepareFails, Enqueue, CheckRoom,
         OfferFull, CountDrop, LogElsewhere, StartRaises
<1>2. CASE Dispatch(p)
  <2>1. MadeSound'
    BY <1>1, <1>2 DEF Dispatch, MadeSound, ProducerTypeOK
  <2> QED BY <1>1, <1>2, <2>1 DEF Dispatch, QueuesMade, Served, Serving
<1>3. CASE CreateWriter(p)
  <2>1. PICK w \in Writers : NewWriter(w)
    BY <1>3 DEF CreateWriter
  <2>2. MadeSound' /\ QueuesMade'
    BY <1>1, <1>3, <2>1 DEF CreateWriter, MadeSound, QueuesMade, ProducerTypeOK, WriterTypeOK
  <2>3. Served' \subseteq Served
    BY <1>1, <2>1 DEF Served, Serving, WriterTypeOK
  <2> QED BY <1>1, <2>2, <2>3
<1>4. CASE LaunchWriter(p)
  <2>1. MadeSound' /\ QueuesMade'
    BY <1>1, <1>4 DEF LaunchWriter, MadeSound, QueuesMade, ProducerTypeOK, WriterTypeOK
  <2>2. Served' \subseteq Served
    BY <1>1, <1>4 DEF LaunchWriter, Served, Serving, WriterTypeOK
  <2> QED BY <1>1, <2>1, <2>2
<1>5. CASE StartAgain(p)
  <2>1. ppc[p] = "launch" /\ ppc' = [ppc EXCEPT ![p] = ppc'[p]] /\ UNCHANGED <<queue, via>>
    BY <1>5 DEF StartAgain, ProducerTypeOK
  <2>2. CASE UNCHANGED <<stateVars, writerVars, flushVars>>
    BY <1>1, <2>1, <2>2 DEF MadeSound, QueuesMade, ProducerTypeOK, Served, Serving
  <2>3. CASE \E w \in Writers : AddThread(w)
    <3>1. PICK w \in Writers : AddThread(w)
      BY <2>3
    <3>2. writer \in Writers /\ wpc[writer] # "unmade" /\ wqueue[writer] \in Pipelines
      BY <1>5 DEF StartAgain, Given, StopSound, WritersSound, WriterSound, LifeStateTypeOK
    <3>3. ThreadAdded(w)
      BY <3>1, <3>2, AddThreadServes
    <3>4. MadeSound'
      BY <1>1, <2>1, <3>1, <3>2, <3>3 DEF ThreadAdded, AddThread, MadeSound, ProducerTypeOK
    <3> QED BY <1>1, <2>1, <3>3, <3>4 DEF ThreadAdded, QueuesMade
  <2> QED BY <1>5, <2>2, <2>3 DEF StartAgain
<1>6. CASE Enqueue(p)
  <2>1. via[p] \in made /\ UNCHANGED <<writer, wpc, wqueue, fpc, fon, via>>
        /\ ppc' = [ppc EXCEPT ![p] = "idle"]
        /\ \A h \in Pipelines : h # via[p] => queue'[h] = queue[h]
    BY <1>6 DEF Enqueue, MadeSound, PipeTypeOK
  <2>2. MadeSound'
    BY <1>1, <2>1 DEF MadeSound, ProducerTypeOK
  <2> QED BY <1>1, <2>1, <2>2 DEF QueuesMade, Served, Serving
<1>7. CASE \/ SeeStarted(p) \/ StartedMeanwhile(p) \/ ClaimStart(p) \/ LaunchFails(p)
           \/ Prepare(p) \/ PrepareFails(p) \/ CheckRoom(p) \/ OfferFull(p) \/ CountDrop(p)
           \/ LogElsewhere(p) \/ StartRaises(p)
  <2>1. UNCHANGED <<queue, writer, wpc, wqueue, fpc, fon, via>>
    BY <1>7 DEF SeeStarted, StartedMeanwhile, ClaimStart, LaunchFails, Prepare, PrepareFails,
                CheckRoom, OfferFull, CountDrop, LogElsewhere, StartRaises
  <2>2. \A q \in Producers : ppc'[q] # "idle" => ppc[q] # "idle"
    BY <1>7 DEF SeeStarted, StartedMeanwhile, ClaimStart, LaunchFails, Prepare, PrepareFails,
                CheckRoom, OfferFull, CountDrop, LogElsewhere, StartRaises, ProducerTypeOK
  <2>3. MadeSound'
    BY <1>1, <2>1, <2>2 DEF MadeSound
  <2> QED BY <1>1, <2>1, <2>3 DEF QueuesMade, Served, Serving
<1> QED BY <1>2, <1>3, <1>4, <1>5, <1>6, <1>7 DEF Log, Emit

LEMMA ServeMade ==
  ASSUME TypedAndGiven, MadeSound, QueuesMade, NEW w \in Writers, Serve(w)
  PROVE  /\ MadeSound' /\ QueuesMade' /\ UNCHANGED <<made, floor>>
         /\ Served' \subseteq Served
<1>1. /\ UNCHANGED <<made, floor, handler, root, writer, wqueue, ppc, via, fpc, fon>>
      /\ wpc[w] \in {"get", "handle", "empty"}
      /\ \A v \in Writers : v # w => wpc'[v] = wpc[v]
  <2>1. UNCHANGED <<made, floor, handler, root, writer, wqueue, ppc, via, fpc, fon>>
    BY DEF Serve, Write, Take, HandleMarker, WriteLine, WriteFails, FlushIfEmpty, FlushFails
  <2>2. wpc[w] \in {"get", "handle", "empty"} /\ wpc' = [wpc EXCEPT ![w] = wpc'[w]]
    BY DEF Serve, Write, Take, HandleMarker, WriteLine, WriteFails, FlushIfEmpty, FlushFails,
           TypedAndGiven, LifeTypeOK, WriterTypeOK
  <2> QED BY <2>1, <2>2 DEF TypedAndGiven, LifeTypeOK, WriterTypeOK
<1>2. MadeSound' /\ Served' \subseteq Served
  BY <1>1 DEF MadeSound, Served, Serving
<1>3. \A h \in Pipelines : h # wqueue[w] => queue'[h] = queue[h]
  BY DEF Serve, Write, Take, HandleMarker, WriteLine, WriteFails, FlushIfEmpty, FlushFails,
         TypedAndGiven, LifeTypeOK, PipeTypeOK
<1>4. QueuesMade'
  BY <1>1, <1>3 DEF QueuesMade, MadeSound
<1> QED BY <1>1, <1>2, <1>4

LEMMA AwaitMade ==
  ASSUME TypedAndGiven, MadeSound, QueuesMade, NEW f \in Flushers, Await(f)
  PROVE  /\ MadeSound' /\ QueuesMade' /\ UNCHANGED <<made, floor>>
         /\ Served' \subseteq Served
<1>1. UNCHANGED <<made, floor, handler, root, writer, wpc, wqueue, ppc, via>>
  BY DEF Await, Flush, FlushCall, StartFlush, PutMarker, FlushReleased, FlushTimesOut, FlushFindsDead
<1>2. Served' \subseteq Served
  BY <1>1 DEF Served, Serving
<1>3. MadeSound'
  <2>1. CASE FlushCall(f)
    BY <1>1, <2>1 DEF FlushCall, StartFlush, MadeSound, TypedAndGiven, LifeTypeOK, FlushTypeOK
  <2>2. CASE PutMarker(f) \/ FlushReleased(f) \/ FlushTimesOut(f) \/ FlushFindsDead(f)
    BY <1>1, <2>2 DEF PutMarker, FlushReleased, FlushTimesOut, FlushFindsDead, MadeSound,
                      TypedAndGiven, LifeTypeOK, FlushTypeOK
  <2> QED BY <2>1, <2>2 DEF Await, Flush
<1>4. QueuesMade'
  <2>1. CASE PutMarker(f)
    BY <1>1, <2>1 DEF PutMarker, MadeSound, QueuesMade, TypedAndGiven, LifeTypeOK, PipeTypeOK
  <2>2. CASE FlushCall(f) \/ FlushReleased(f) \/ FlushTimesOut(f) \/ FlushFindsDead(f)
    BY <1>1, <2>2 DEF FlushCall, StartFlush, FlushReleased, FlushTimesOut, FlushFindsDead, QueuesMade
  <2> QED BY <2>1, <2>2 DEF Await, Flush
<1> QED BY <1>1, <1>2, <1>3, <1>4

\* What install() makes has an empty queue: the jobs of the process.
LEMMA JobMade ==
  ASSUME TypedAndGiven, MadeSound, QueuesMade, Job, ~ ChildResumes
  PROVE  /\ MadeSound' /\ QueuesMade' /\ UNCHANGED floor
         /\ \A h \in Served' : h \in Served \/ queue'[h] = <<>>
<1> USE DEF TypedAndGiven, LifeTypeOK
<1>1. CASE PutSentinel \/ ForceSentinel
  <2>1. wqueue[stopping] \in made
    BY <1>1 DEF PutSentinel, ForceSentinel, Given, StopSound, MadeSound, JobTypeOK
  <2>2. UNCHANGED <<made, floor, handler, root, writer, wpc, wqueue, ppc, via, fpc, fon>>
    BY <1>1 DEF PutSentinel, ForceSentinel
  <2>3. \A h \in Pipelines : h # wqueue[stopping] => queue'[h] = queue[h]
    BY <1>1 DEF PutSentinel, ForceSentinel, PipeTypeOK
  <2> QED BY <2>1, <2>2, <2>3 DEF MadeSound, QueuesMade, Served, Serving
<1>2. CASE RestartWriter
  <2>1. PICK w \in Writers : NewWriter(w)
    BY <1>2 DEF RestartWriter
  <2>2. UNCHANGED <<made, floor, handler, root, queue, ppc, via, fpc, fon>>
    BY <1>2 DEF RestartWriter
  <2>3. MadeSound' /\ QueuesMade'
    BY <2>1, <2>2 DEF MadeSound, QueuesMade, WriterTypeOK
  <2>4. Served' \subseteq Served
    BY <2>1, <2>2 DEF Served, Serving, WriterTypeOK
  <2> QED BY <2>2, <2>3, <2>4
<1>3. CASE RelaunchWriter
  <2>1. UNCHANGED <<made, floor, handler, root, writer, wqueue, queue, ppc, via, fpc, fon>>
        /\ wpc' = [wpc EXCEPT ![writer] = "get"] /\ wpc[writer] = "made"
    BY <1>3 DEF RelaunchWriter
  <2> QED BY <2>1 DEF MadeSound, QueuesMade, Served, Serving, WriterTypeOK
<1>4. CASE RelaunchAgain
  <2>1. UNCHANGED <<made, floor, handler, root, queue, ppc, via, fpc, fon>>
    BY <1>4 DEF RelaunchAgain, AddThread
  <2>2. CASE UNCHANGED vars
    BY <2>1, <2>2 DEF MadeSound, QueuesMade, Served, Serving
  <2>3. CASE \E w \in Writers : AddThread(w)
    <3>1. PICK w \in Writers : AddThread(w)
      BY <2>3
    <3>2. writer \in Writers /\ wpc[writer] # "unmade" /\ wqueue[writer] \in Pipelines
      BY <1>4 DEF RelaunchAgain, Given, StopSound, WritersSound, WriterSound, LifeStateTypeOK
    <3>3. ThreadAdded(w)
      BY <3>1, <3>2, AddThreadServes
    <3> QED BY <2>1, <3>3 DEF ThreadAdded, MadeSound, QueuesMade
  <2> QED BY <1>4, <2>2, <2>3 DEF RelaunchAgain
<1>5. CASE InstallHandler
  <2>1. PICK h \in Pipelines \ made : handler' = h /\ made' = made \cup {h}
    BY <1>5 DEF InstallHandler
  <2>2. /\ UNCHANGED <<floor, root, queue, wpc, wqueue, ppc, via, fpc, fon>> /\ writer' = None
        /\ queue[h] = <<>>
    BY <1>5, <2>1 DEF InstallHandler, QueuesMade
  <2>3. \A g \in Served' : g \in Served \/ g = h
    BY <2>1, <2>2, Names DEF Served, Serving
  <2> QED BY <2>1, <2>2, <2>3 DEF MadeSound, QueuesMade
<1>6. CASE DetachRoot \/ AttachRoot \/ RedirectRoot \/ ForgetHandler
  <2>1. /\ UNCHANGED <<made, floor, queue, wpc, wqueue, ppc, via, fpc, fon>>
        /\ handler' \in {handler, Direct} /\ root' \in {None, handler, Direct, root}
        /\ writer' \in {writer, None}
    <3>1. CASE DetachRoot \/ AttachRoot
      BY <3>1 DEF DetachRoot, AttachRoot
    <3>2. CASE RedirectRoot \/ ForgetHandler
      BY <3>2 DEF RedirectRoot, ForgetHandler
    <3> QED BY <1>6, <3>1, <3>2
  <2>2. MadeSound' /\ QueuesMade'
    BY <2>1, Names DEF MadeSound, QueuesMade
  <2>3. Served' \subseteq Served
    BY <2>1, Names DEF Served, Serving
  <2> QED BY <2>1, <2>2, <2>3
<1>7. CASE ShutdownBegin
  <2>1. UNCHANGED <<made, floor, handler, root, writer, wpc, wqueue, queue, ppc, via>>
    BY <1>7 DEF ShutdownBegin, StartFlush
  <2>2. \A f \in Flushers : fpc'[f] # "idle" =>
          (fpc[f] # "idle" /\ fon'[f] = fon[f]) \/ (fon'[f] = handler /\ handler \in Pipelines)
    BY <1>7, Names DEF ShutdownBegin, StartFlush, FlushTypeOK
  <2> QED BY <2>1, <2>2 DEF MadeSound, QueuesMade, Served, Serving
<1>8. CASE ForceFull \/ Join \/ ForkBegin \/ ParentResumes \/ InstallBegin \/ ShutdownStop
  <2>1. UNCHANGED <<made, floor>> /\ UNCHANGED vars
    BY <1>8 DEF ForceFull, Join, ForkBegin, ParentResumes, InstallBegin, ShutdownStop
  <2> QED BY <2>1 DEF MadeSound, QueuesMade, Served, Serving
<1> QED BY <1>1, <1>2, <1>3, <1>4, <1>5, <1>6, <1>7, <1>8 DEF Job, Stop, Fork, Install, Shutdown

LEMMA ChildMade ==
  ASSUME TypedAndGiven, MadeSound, QueuesMade, ChildResumes
  PROVE  MadeSound' /\ QueuesMade' /\ Own'
<1>1. /\ UNCHANGED <<made, handler, root, tickets, wqueue>> /\ writer' = None /\ floor' = tickets
      /\ \A p \in Producers : ppc'[p] = "idle"
      /\ \A f \in Flushers : fpc'[f] = "idle"
      /\ \A w \in Writers : wpc'[w] = IF wpc[w] = "unmade" THEN "unmade" ELSE "dead"
      /\ \A h \in Pipelines : queue'[h] = IF h = handler THEN <<>> ELSE queue[h]
  BY DEF ChildResumes, Renewed, TypedAndGiven, LifeTypeOK, PipeTypeOK
<1>2. MadeSound' /\ QueuesMade'
  BY <1>1 DEF MadeSound, QueuesMade
<1>3. \A h \in Served' : queue'[h] = <<>>
  BY <1>1, Names DEF Served, Serving
<1>4. \A h \in Pipelines : queue'[h] = <<>> => NewLines(h)'
  BY DEF NewLines, QueuedLines
<1>5. \A h \in Pipelines : floor'[h] <= tickets'[h]
  BY <1>1 DEF TypedAndGiven, LifeTypeOK, PipeTypeOK
<1>6. \A w \in Writers : \A h \in Pipelines : ~ HoldsLine(w, h)'
  BY <1>1 DEF HoldsLine
<1>7. Served' \subseteq Pipelines
  BY DEF Served
<1> QED BY <1>2, <1>3, <1>4, <1>5, <1>6, <1>7 DEF Own

LEMMA SameNewLines ==
  ASSUME NEW h \in Pipelines, NewLines(h), queue'[h] = queue[h], UNCHANGED floor
  PROVE  NewLines(h)'
BY DEF NewLines, QueuedLines

\* What a move of lines does to the lines that are new.
LEMMA MoveOwn ==
  ASSUME TypedAndGiven, Apart, Own, LineMove, UNCHANGED floor,
         \A h \in Served' : h \in Served \/ queue'[h] = <<>>
  PROVE  Own'
<1>0. \A h \in Pipelines : tickets[h] \in Nat /\ floor[h] \in Nat /\ floor[h] <= tickets[h]
  BY DEF Own, TypedAndGiven, LifeTypeOK, PipeTypeOK, JobTypeOK
<1>1. \A h \in Pipelines : queue'[h] = <<>> => NewLines(h)'
  BY DEF NewLines, QueuedLines
<1>2. Served \subseteq Pipelines /\ Served' \subseteq Pipelines
  BY DEF Served
<1>3. ASSUME \A h \in Served : NewLines(h)', \A h \in Pipelines : tickets'[h] \in Nat /\ tickets[h] <= tickets'[h],
             \A w \in Writers : \A h \in Pipelines : HoldsLine(w, h)' => hand'[w].n > floor[h]
      PROVE  Own'
  BY <1>0, <1>1, <1>2, <1>3 DEF Own
<1>4. CASE LinesStay \/ (\E w \in Writers : LineLost(w) \/ \E h \in Pipelines : LineOut(w, h))
  <2>1. UNCHANGED <<queue, tickets>>
    BY <1>4 DEF LinesStay, LineLost, LineOut
  <2>2. \A h \in Served : NewLines(h)'
    BY <1>2, <2>1, SameNewLines DEF Own
  <2>3. \A w \in Writers : \A h \in Pipelines : HoldsLine(w, h)' => HoldsLine(w, h) /\ hand'[w] = hand[w]
    BY <1>4 DEF LinesStay, LineLost, LineOut, SameHands
  <2> QED BY <1>0, <1>3, <2>1, <2>2, <2>3 DEF Own
<1>5. CASE LinesLeft
  <2>1. UNCHANGED tickets /\ \A h \in Pipelines : queue'[h] = queue[h] \/ queue'[h] = <<>>
    BY <1>5 DEF LinesLeft, TypedAndGiven, LifeTypeOK, PipeTypeOK
  <2>2. \A h \in Served : NewLines(h)'
    BY <1>1, <1>2, <2>1, SameNewLines DEF Own
  <2> QED BY <1>0, <1>3, <1>5, <2>1, <2>2 DEF LinesLeft
<1>6. CASE \E g \in Pipelines, x \in Item : LinePut(g, x)
  <2>1. PICK g \in Pipelines, x \in Item : LinePut(g, x)
    BY <1>6
  <2>2. \A h \in Pipelines : tickets'[h] \in Nat /\ tickets[h] <= tickets'[h]
    <3>1. CASE UNCHANGED tickets
      BY <1>0, <3>1
    <3>2. CASE tickets' = [tickets EXCEPT ![g] = tickets[g] + 1]
      <4>1. \A h \in Pipelines : tickets'[h] = IF h = g THEN tickets[g] + 1 ELSE tickets[h]
        BY <3>2 DEF TypedAndGiven, LifeTypeOK, PipeTypeOK
      <4> QED BY <1>0, <4>1
    <3> QED BY <2>1, <3>1, <3>2 DEF LinePut
  <2>3. ASSUME NEW h \in Served PROVE NewLines(h)'
    <3>1. NewLines(h) /\ h \in Pipelines
      BY <1>2 DEF Own
    <3>2. CASE h # g
      <4>1. queue'[h] = queue[h]
        BY <2>1, <3>2 DEF LinePut, TypedAndGiven, LifeTypeOK, PipeTypeOK
      <4> QED BY <3>1, <4>1, SameNewLines
    <3>3. CASE h = g
      <4> DEFINE q == queue[h]
                 m == Len(q)
      <4>1. q \in Seq(Item) /\ m \in Nat
        BY <3>1, QueueShape DEF TypedAndGiven
      <4>2. queue'[h] = Append(q, x)
        BY <2>1, <3>1, <3>3 DEF LinePut, TypedAndGiven, LifeTypeOK, PipeTypeOK
      <4>3. /\ DOMAIN q = 1 .. m /\ DOMAIN queue'[h] = 1 .. m + 1 /\ queue'[h][m + 1] = x
            /\ \A i \in 1 .. m : queue'[h][i] = q[i]
        BY <2>1, <4>1, <4>2, PutAt
      <4>4. x.kind = "line" => x.n > floor[h]
        BY <1>0, <2>1, <3>1, <3>3 DEF LinePut
      <4>5. \A i \in 1 .. m : q[i].kind = "line" => q[i].n > floor[h]
        BY <3>1, <4>3 DEF NewLines, QueuedLines
      <4> HIDE DEF q, m
      <4>6. \A i \in 1 .. m + 1 : i \in 1 .. m \/ i = m + 1
        BY <4>1
      <4>7. \A i \in DOMAIN queue'[h] : queue'[h][i].kind = "line" => queue'[h][i].n > floor[h]
        BY <4>3, <4>4, <4>5, <4>6
      <4> QED BY <4>7 DEF NewLines, QueuedLines
    <3> QED BY <3>2, <3>3
  <2>4. \A w \in Writers : \A h \in Pipelines : HoldsLine(w, h)' => HoldsLine(w, h) /\ hand'[w] = hand[w]
    BY <2>1 DEF LinePut, SameHands
  <2> QED BY <1>3, <2>2, <2>3, <2>4 DEF Own
<1>7. CASE \E w \in Writers : LineTaken(w)
  <2>1. PICK w \in Writers : LineTaken(w)
    BY <1>7
  <2>2. PICK g \in Pipelines : g = wqueue[w]
    BY <2>1 DEF LineTaken, Take, TypedAndGiven, Given, WritersSound, WriterSound
  <2> DEFINE q == queue[g]
             m == Len(q)
  <2>3. q \in Seq(Item) /\ q # <<>> /\ g \in Served /\ queue'[g] = Tail(q) /\ UNCHANGED tickets
        /\ \A h \in Pipelines : h # g => queue'[h] = queue[h]
    BY <2>1, <2>2 DEF LineTaken, Take, Served, Serving, TypedAndGiven, LifeTypeOK, PipeTypeOK
  <2>4. /\ m \in Nat /\ m >= 1 /\ DOMAIN q = 1 .. m /\ DOMAIN Tail(q) = 1 .. m - 1
        /\ \A i \in 1 .. m - 1 : Tail(q)[i] = q[i + 1]
    BY <2>3, TakenAt
  <2>5. \A i \in 1 .. m : q[i].kind = "line" => q[i].n > floor[g]
    BY <2>3, <2>4 DEF Own, NewLines, QueuedLines
  <2>6. NewLines(g)'
    <3> HIDE DEF q, m
    <3>1. \A i \in DOMAIN queue'[g] : queue'[g][i].kind = "line" => queue'[g][i].n > floor[g]
      BY <2>3, <2>4, <2>5
    <3> QED BY <3>1 DEF NewLines, QueuedLines
  <2>7. \A h \in Served : NewLines(h)'
    BY <1>2, <2>3, <2>6, SameNewLines DEF Own
  <2>8. ASSUME NEW v \in Writers, NEW h \in Pipelines, HoldsLine(v, h)'
        PROVE  hand'[v].n > floor[h]
    <3>1. CASE v # w
      BY <2>1, <2>2, <2>8, <3>1, TakeQueue DEF LineTaken, SameHands, Own
    <3>2. CASE v = w
      <4>1. h = g /\ hand'[w] = q[1] /\ q[1].kind = "line"
        BY <2>1, <2>2, <2>8, <3>2, TakeQueue DEF LineTaken
      <4> QED BY <2>4, <2>5, <3>2, <4>1
    <3> QED BY <3>1, <3>2
  <2> QED BY <1>0, <1>3, <2>3, <2>7, <2>8
<1> QED BY <1>4, <1>5, <1>6, <1>7 DEF LineMove

LEMMA OwnKept ==
  TypedAndGiven /\ Apart /\ Own /\ MadeSound /\ QueuesMade /\ [LifeNext]_lifeVars
    => Own' /\ MadeSound' /\ QueuesMade'
<1> SUFFICES ASSUME TypedAndGiven, Apart, Own, MadeSound, QueuesMade, [LifeNext]_lifeVars
             PROVE  Own' /\ MadeSound' /\ QueuesMade'
  OBVIOUS
<1>1. CASE ChildResumes
  BY <1>1, ChildMade
<1>2. CASE ~ ChildResumes
  <2>1. /\ MadeSound' /\ QueuesMade' /\ UNCHANGED floor
        /\ \A h \in Served' : h \in Served \/ queue'[h] = <<>>
    <3>1. CASE LifeFinished \/ UNCHANGED lifeVars
      BY <3>1 DEF LifeFinished, MadeSound, QueuesMade, Served, Serving
    <3> QED BY <1>2, <3>1, LogMade, ServeMade, AwaitMade, JobMade DEF LifeNext
  <2> QED BY <2>1, EveryMove, MoveOwn
<1> QED BY <1>1, <1>2

\* What a process adds to the stream are lines that were put into a queue in it and are
\* not on the stream already, at whatever moment it was forked and whatever the parent
\* had in its queues, its hands and its buffer.
THEOREM OwnLinesOnce == LifeSpec => WritesOwnOnce
<1>1. ASSUME TypedAndGiven, Own, [LifeNext]_lifeVars,
             NEW i \in DOMAIN stream', i > Len(stream), stream'[i].kind = "line"
      PROVE  stream'[i].n > floor[stream'[i].on]
  <2>1. stream \in Seq(Entry) /\ Len(stream) \in Nat /\ DOMAIN stream = 1 .. Len(stream)
        /\ flushed \in 0 .. Len(stream)
    BY <1>1 DEF TypedAndGiven, LifeTypeOK, SinkTypeOK
  <2>2. CASE UNCHANGED stream
    BY <1>1, <2>1, <2>2
  <2>3. CASE LinesLeft
    BY <1>1, <2>1, <2>3 DEF LinesLeft
  <2>4. CASE \E w \in Writers, h \in Pipelines : LineOut(w, h)
    <3>1. PICK w \in Writers, h \in Pipelines : LineOut(w, h)
      BY <2>4
    <3>2. PICK line, note \in Entry :
            /\ line = [kind |-> "line", on |-> h, n |-> hand[w].n] /\ note.kind = "note"
            /\ stream' \in {Append(stream, line), Append(Append(stream, line), note)}
      BY <3>1 DEF LineOut
    <3>3. line.kind = "line" /\ line.on = h /\ line.n = hand[w].n /\ hand[w].n > floor[h]
      BY <1>1, <3>1, <3>2 DEF LineOut, Own
    <3>4. stream'[i] \in {line, note}
      <4> DEFINE m == Len(stream)
                 one == Append(stream, line)
      <4>1. /\ one \in Seq(Entry) /\ Len(one) = m + 1 /\ DOMAIN one = 1 .. m + 1 /\ one[m + 1] = line
        BY <2>1, PutAt
      <4>2. /\ DOMAIN Append(one, note) = 1 .. m + 2 /\ Append(one, note)[m + 2] = note
            /\ Append(one, note)[m + 1] = line
        BY <2>1, <4>1, PutAt
      <4> HIDE DEF one
      <4>3. \A k \in 1 .. m + 2 : k > m => k = m + 1 \/ k = m + 2
        BY <2>1
      <4>4. \A k \in 1 .. m + 1 : k > m => k = m + 1
        BY <2>1
      <4> QED BY <1>1, <3>2, <4>1, <4>2, <4>3, <4>4 DEF one
    <3>5. stream'[i] = line
      BY <1>1, <3>2, <3>4
    <3> QED BY <3>3, <3>5
  <2> QED BY <1>1, <2>2, <2>3, <2>4, EveryMove DEF LineMove, LinesStay, LinePut, LineTaken, LineLost, Take
<1>2. ASSUME TypedAndGiven', NothingTwice', NEW i \in DOMAIN stream', stream'[i].kind = "line",
             NEW j \in 1 .. i - 1
      PROVE  stream'[j] # stream'[i]
  <2>1. DOMAIN stream' = 1 .. Len(stream') /\ Len(stream') \in Nat
    BY <1>2 DEF TypedAndGiven, LifeTypeOK, SinkTypeOK
  <2>2. j \in DOMAIN stream' /\ j # i
    BY <1>2, <2>1
  <2> QED BY <1>2, <2>2 DEF NothingTwice
<1>3. ASSUME TypedAndGiven, TypedAndGiven', Own, NothingTwice', [LifeNext]_lifeVars
      PROVE  [\A i \in DOMAIN stream' :
                i > Len(stream) /\ stream'[i].kind = "line" =>
                  /\ stream'[i].n > floor[stream'[i].on]
                  /\ \A j \in 1 .. i - 1 : stream'[j] # stream'[i]
             ]_lifeVars
  BY <1>1, <1>2, <1>3
<1> QED BY <1>3, LifeTyped, LinesApart, ApartFirst, ApartKept, OwnFirst, OwnKept, PTL
        DEF LifeSpec, WritesOwnOnce
-----------------------------------------------------------------------------
(* Drained: what is in front of the sentinel is written before the writer  *)
(* ends, and what is behind it was logged after the job began.             *)

StopSame ==
  /\ UNCHANGED <<jpc, stopping, goal>>
  /\ jpc # "idle" /\ stopping # None =>
       /\ wqueue'[stopping] = wqueue[stopping] /\ (Alive(stopping)' <=> Alive(stopping))
       /\ wpc'[stopping] = "unmade" => wpc[stopping] = "unmade"

LEMMA StillStopped ==
  ASSUME TypedAndGiven, Drained, StopSame
  PROVE  /\ Stopped' <=> Stopped
         /\ Stopped' => wqueue'[stopping'] = wqueue[stopping] /\ wpc'[stopping'] # "unmade"
         /\ jpc = "join" => wqueue'[stopping'] = wqueue[stopping] /\ (Alive(stopping)' <=> Alive(stopping))
<1>1. jpc = "join" => stopping # None
  BY DEF TypedAndGiven, Given, StopSound
<1> QED BY <1>1 DEF StopSame, Stopped, Drained

LEMMA DrainStays ==
  ASSUME TypedAndGiven, Drained, StopSame, UNCHANGED <<queue, tickets>>
  PROVE  Drained'
<1>1. ASSUME NEW h \in Pipelines PROVE SentinelSound(h)' /\ LinesPast(h)' /\ goal'[h] <= tickets'[h]
  <2>1. SentinelSound(h) /\ LinesPast(h) /\ goal[h] <= tickets[h]
    BY DEF Drained
  <2>2. QueuedTickets(h)' = QueuedTickets(h)
    BY DEF QueuedTickets, QueuedLines
  <2>3. SentinelSound(h)'
    BY <2>1, StillStopped DEF SentinelSound, Behind, StopSame
  <2> QED BY <2>1, <2>2, <2>3, StillStopped DEF LinesPast, StopSame
<1> QED BY <1>1, StillStopped DEF Drained

\* A line put into a queue during a job is newer than the job.
LEMMA DrainPut ==
  ASSUME TypedAndGiven, Apart, Drained, StopSame, NEW h \in Pipelines, NEW x \in Item, LinePut(h, x),
         x.kind # "sentinel"
  PROVE  Drained'
<1>1. ASSUME NEW g \in Pipelines PROVE SentinelSound(g)' /\ LinesPast(g)' /\ goal'[g] <= tickets'[g]
  <2>1. SentinelSound(g) /\ LinesPast(g) /\ goal[g] <= tickets[g]
    BY DEF Drained
  <2>2. goal[g] \in Nat /\ tickets[g] \in Nat
    BY DEF TypedAndGiven, LifeTypeOK, JobTypeOK, PipeTypeOK
  <2>3. goal'[g] = goal[g]
    BY DEF StopSame
  <2>4. /\ tickets'[g] = tickets[g] \/ tickets'[g] = tickets[g] + 1
        /\ \A n \in QueuedTickets(g)' : n \in QueuedTickets(g) \/ n = tickets[g] + 1
    BY PutQueue
  <2>5. LinesPast(g)'
    BY <2>1, <2>2, <2>3, <2>4, StillStopped DEF LinesPast
  <2>6. SentinelSound(g)'
    <3> DEFINE q == queue[g]
               m == Len(queue[g])
    <3>1. q \in Seq(Item) /\ m \in Nat /\ DOMAIN q = 1 .. m
      BY QueueShape DEF TypedAndGiven
    <3>2. /\ DOMAIN q \subseteq DOMAIN queue'[g]
          /\ \A i \in DOMAIN q : queue'[g][i] = q[i]
          /\ \A i \in DOMAIN queue'[g] : i \in DOMAIN q \/ (g = h /\ queue'[g][i] = x)
      <4>1. CASE g = h
        <5>1. queue'[g] = Append(q, x)
          BY <4>1 DEF LinePut, TypedAndGiven, LifeTypeOK, PipeTypeOK
        <5> HIDE DEF q, m
        <5>2. /\ DOMAIN q = 1 .. Len(q) /\ Len(q) \in Nat
              /\ DOMAIN Append(q, x) = 1 .. Len(q) + 1 /\ Append(q, x)[Len(q) + 1] = x
              /\ \A i \in 1 .. Len(q) : Append(q, x)[i] = q[i]
          BY <3>1, PutAt
        <5>3. \A i \in 1 .. Len(q) + 1 : i \in 1 .. Len(q) \/ i = Len(q) + 1
          BY <5>2
        <5>4. \A i \in 1 .. Len(q) : i \in 1 .. Len(q) + 1
          BY <5>2
        <5> QED BY <4>1, <5>1, <5>2, <5>3, <5>4
      <4>2. CASE g # h
        BY <4>2 DEF LinePut, TypedAndGiven, LifeTypeOK, PipeTypeOK
      <4> QED BY <4>1, <4>2
    <3> HIDE DEF m, q
    <3>3. g = h /\ x.kind = "line" => x.n > goal[g]
      BY <2>1, <2>2 DEF LinePut
    <3> SUFFICES ASSUME NEW i \in DOMAIN queue'[g], queue'[g][i].kind = "sentinel"
                 PROVE  jpc' = "join" /\ g = wqueue'[stopping'] /\ Alive(stopping)' /\ Behind(g, i)'
      BY DEF SentinelSound
    <3>4. i \in DOMAIN q /\ queue'[g][i] = q[i]
      BY <3>2
    <3>5. jpc = "join" /\ g = wqueue[stopping] /\ Alive(stopping) /\ Behind(g, i)
      BY <2>1, <3>4 DEF SentinelSound, q
    <3>6. Behind(g, i)'
      <4> SUFFICES ASSUME NEW j \in DOMAIN queue'[g], j > i
                   PROVE  /\ queue'[g][j].kind # "sentinel"
                          /\ queue'[g][j].kind = "line" => queue'[g][j].n > goal'[g]
        BY DEF Behind
      <4>1. CASE j \in DOMAIN q
        BY <2>3, <3>2, <3>5, <4>1 DEF Behind, q
      <4>2. CASE g = h /\ queue'[g][j] = x
        BY <2>3, <3>3, <4>2
      <4> QED BY <3>2, <4>1, <4>2
    <3> QED BY <3>5, <3>6, StillStopped DEF StopSame
  <2> QED BY <2>1, <2>2, <2>3, <2>4, <2>5, <2>6
<1> QED BY <1>1, StillStopped DEF Drained

\* What is taken is in front of the sentinel, or is it.
LEMMA DrainTake ==
  ASSUME TypedAndGiven, Apart, Calm, Drained, NEW w \in Writers, Take(w), UNCHANGED jobVars
  PROVE  Drained'
<1>1. PICK h \in Pipelines : h = wqueue[w]
  BY TakeTyped
<1> DEFINE q == queue[h]
           m == Len(queue[h])
           x == queue[h][1]
<1>2. /\ m \in Nat /\ DOMAIN q = 1 .. m /\ Head(q) = x /\ 1 \in DOMAIN q
      /\ DOMAIN Tail(q) = 1 .. m - 1 /\ \A i \in 1 .. m - 1 : Tail(q)[i] = q[i + 1]
  <2>1. queue[h] \in Seq(Item) /\ queue[h] # <<>>
    BY <1>1, TakeTyped
  <2> QED BY <2>1, TakenAt
<1>3. /\ queue'[h] = Tail(q) /\ \A g \in Pipelines : g # h => queue'[g] = queue[g]
      /\ UNCHANGED <<tickets, wqueue>>
      /\ \A v \in Writers : wpc'[v] = IF v = w THEN IF x.kind = "sentinel" THEN "dead" ELSE "handle"
                                      ELSE wpc[v]
      /\ Alive(w)
  BY <1>1, <1>2 DEF Take, TypedAndGiven, LifeTypeOK, PipeTypeOK, WriterTypeOK
<1>4. /\ \A g \in Pipelines : g # h => QueuedTickets(g)' = QueuedTickets(g)
      /\ QueuedTickets(h)' \subseteq QueuedTickets(h)
  BY <1>1, TakeQueue
<1>5. \A n \in QueuedTickets(h)' : \E i \in 1 .. m - 1 : q[i + 1].kind = "line" /\ n = q[i + 1].n
  BY <1>2, <1>3 DEF QueuedTickets, QueuedLines
<1>6. \A i \in 1 .. m - 1 : i + 1 \in DOMAIN q /\ i + 1 > 1 /\ i \in Nat
  BY <1>2
<1>7. \A i, j \in 1 .. m - 1 : j > i => j + 1 > i + 1
  BY <1>2
<1> HIDE DEF q, m, x
<1>8. \A g \in Pipelines : SentinelSound(g) /\ LinesPast(g) /\ goal'[g] = goal[g]
                           /\ goal'[g] <= tickets'[g]
  BY <1>3 DEF Drained
<1>9. stopping' = stopping /\ jpc' = jpc /\ stopping \in Writers \cup {None}
      /\ (jpc = "join" => stopping \in Writers /\ stopping = writer)
  BY DEF TypedAndGiven, Given, StopSound, LifeTypeOK, JobTypeOK, Calm, JobCalm
<1>10. CASE x.kind = "sentinel"
  <2>1. jpc = "join" /\ h = wqueue[stopping] /\ Alive(stopping) /\ Behind(h, 1)
    BY <1>2, <1>8, <1>10 DEF SentinelSound, q, x
  <2>2. w = stopping
    BY <1>3, <1>9, <2>1 DEF Calm, WriterCalm, Serving
  <2>3. \A i \in 1 .. m - 1 : q[i + 1].kind # "sentinel" /\ (q[i + 1].kind = "line" => q[i + 1].n > goal[h])
    BY <1>6, <2>1 DEF Behind, q
  <2>4. \A g \in Pipelines : SentinelSound(g)'
    <3> SUFFICES ASSUME NEW g \in Pipelines, NEW i \in DOMAIN queue'[g]
                 PROVE  queue'[g][i].kind # "sentinel"
      BY DEF SentinelSound
    <3>1. CASE g = h
      BY <1>2, <1>3, <2>3, <3>1
    <3>2. CASE g # h
      BY <1>3, <1>8, <2>1, <3>2 DEF SentinelSound
    <3> QED BY <3>1, <3>2
  <2>5. \A g \in Pipelines : LinesPast(g)'
    BY <1>3, <1>5, <1>8, <1>9, <2>1, <2>3 DEF LinesPast
  <2>6. wpc'[stopping'] # "unmade"
    BY <1>3, <1>9, <1>10, <2>2
  <2> QED BY <1>8, <2>4, <2>5, <2>6 DEF Drained
<1>11. CASE x.kind # "sentinel"
  <2>1. StopSame
    BY <1>3, <1>9, <1>11 DEF StopSame
  <2>2. /\ Stopped' <=> Stopped
        /\ Stopped' => wqueue'[stopping'] = wqueue[stopping] /\ wpc'[stopping'] # "unmade"
        /\ jpc = "join" => wqueue'[stopping'] = wqueue[stopping] /\ (Alive(stopping)' <=> Alive(stopping))
    BY <2>1, StillStopped
  <2>3. \A g \in Pipelines : LinesPast(g)'
    BY <1>4, <1>8, <2>2 DEF LinesPast
  <2>4. ASSUME NEW g \in Pipelines PROVE SentinelSound(g)'
    <3>1. CASE g # h
      <4>1. queue'[g] = queue[g] /\ goal'[g] = goal[g] /\ SentinelSound(g)
        BY <1>3, <1>8, <3>1
      <4> QED BY <1>9, <2>2, <4>1 DEF SentinelSound, Behind
    <3>2. CASE g = h
      <4>1. /\ DOMAIN queue'[g] = 1 .. m - 1
            /\ \A i \in DOMAIN queue'[g] : queue'[g][i] = q[i + 1]
        BY <1>2, <1>3, <3>2
      <4> SUFFICES ASSUME NEW i \in DOMAIN queue'[g], queue'[g][i].kind = "sentinel"
                   PROVE  jpc' = "join" /\ g = wqueue'[stopping'] /\ Alive(stopping)' /\ Behind(g, i)'
        BY DEF SentinelSound
      <4>2. jpc = "join" /\ h = wqueue[stopping] /\ Alive(stopping) /\ Behind(h, i + 1)
        BY <1>6, <1>8, <4>1 DEF SentinelSound, q
      <4>3. Behind(g, i)'
        <5> SUFFICES ASSUME NEW j \in DOMAIN queue'[g], j > i
                     PROVE  /\ queue'[g][j].kind # "sentinel"
                            /\ queue'[g][j].kind = "line" => queue'[g][j].n > goal'[g]
          BY DEF Behind
        <5>1. j + 1 \in DOMAIN q /\ j + 1 > i + 1
          BY <1>6, <1>7, <4>1
        <5> QED BY <1>8, <3>2, <4>1, <4>2, <5>1 DEF Behind, q
      <4> QED BY <1>9, <2>2, <3>2, <4>2, <4>3
    <3> QED BY <3>1, <3>2
  <2> QED BY <1>8, <2>2, <2>3, <2>4 DEF Drained
<1> QED BY <1>10, <1>11

LEMMA LogDrains ==
  ASSUME Regime \in {"solo", "warm"}, TypedAndGiven, Apart, Calm, Drained, NEW p \in Producers, Log(p)
  PROVE  Drained'
<1>0. UNCHANGED jobVars /\ ~ StartAgain(p)
  BY DEF Log, StartAgain, Calm, EmitsCalm, EmitCalm
<1>1. StopSame
  <2>1. CASE jpc = "idle"
    BY <1>0, <2>1 DEF StopSame
  <2>2. CASE jpc # "idle"
    <3>1. ppc[p] \notin {"create", "launch"}
      BY <2>2, CalmBusy
    <3>2. UNCHANGED <<wpc, wqueue>>
      BY <1>0, <3>1 DEF Log, Emit, Dispatch, SeeStarted, StartedMeanwhile, ClaimStart, CreateWriter,
                  LaunchWriter, LaunchFails, Prepare, PrepareFails, Enqueue, CheckRoom, OfferFull,
                  CountDrop, LogElsewhere, StartRaises
    <3> QED BY <1>0, <3>2 DEF StopSame
  <2> QED BY <2>1, <2>2
<1>2. CASE Enqueue(p)
  <2>1. via[p] \in Pipelines
    BY <1>2 DEF Enqueue, TypedAndGiven, Given, ThreadsSound
  <2>2. Line(via[p], p) \in Item
    BY <2>1, LifeItems DEF TypedAndGiven
  <2>3. Line(via[p], p).kind = "line" /\ Line(via[p], p).n = tickets[via[p]] + 1
    BY DEF Line
  <2>4. LinePut(via[p], Line(via[p], p))
    BY <1>0, <1>2, <2>2, <2>3 DEF Enqueue, LinePut, SameHands, HoldsLine
  <2> QED BY <1>1, <2>1, <2>2, <2>3, <2>4, DrainPut
<1>3. CASE ~ Enqueue(p)
  <2>1. UNCHANGED <<queue, tickets>>
    BY <1>0, <1>3 DEF Log, Emit, Dispatch, SeeStarted, StartedMeanwhile, ClaimStart, CreateWriter,
                LaunchWriter, LaunchFails, Prepare, PrepareFails, CheckRoom, OfferFull,
                CountDrop, LogElsewhere, StartRaises
  <2> QED BY <1>1, <2>1, DrainStays
<1> QED BY <1>2, <1>3

LEMMA ServeDrains ==
  ASSUME TypedAndGiven, Apart, Calm, Drained, NEW w \in Writers, Serve(w)
  PROVE  Drained'
<1>0. UNCHANGED jobVars /\ wpc = [v \in Writers |-> wpc[v]] /\ stopping \in Writers \cup {None}
  BY DEF Serve, TypedAndGiven, LifeTypeOK, WriterTypeOK, JobTypeOK
<1>1. CASE Take(w)
  BY <1>0, <1>1, DrainTake
<1>2. CASE HandleMarker(w) \/ WriteLine(w) \/ WriteFails(w) \/ FlushIfEmpty(w) \/ FlushFails(w)
  <2>1. UNCHANGED <<queue, tickets, wqueue>> /\ wpc[w] \in {"handle", "empty"}
    BY <1>2 DEF HandleMarker, WriteLine, WriteFails, FlushIfEmpty, FlushFails
  <2>2. wpc' = [wpc EXCEPT ![w] = "get"] \/ wpc' = [wpc EXCEPT ![w] = "empty"]
    BY <1>2 DEF HandleMarker, WriteLine, WriteFails, FlushIfEmpty, FlushFails
  <2>3. \A v \in Writers : /\ Alive(v)' <=> Alive(v)
                           /\ wpc'[v] = "unmade" => wpc[v] = "unmade"
    BY <1>0, <2>1, <2>2
  <2>4. StopSame
    BY <1>0, <2>1, <2>3 DEF StopSame
  <2> QED BY <2>1, <2>4, DrainStays
<1> QED BY <1>1, <1>2 DEF Serve, Write

LEMMA AwaitDrains ==
  ASSUME TypedAndGiven, Apart, Drained, NEW f \in Flushers, Await(f)
  PROVE  Drained'
<1>0. UNCHANGED jobVars
  BY DEF Await
<1>1. UNCHANGED <<wpc, wqueue>>
  BY DEF Await, Flush, FlushCall, StartFlush, PutMarker, FlushReleased, FlushTimesOut, FlushFindsDead
<1>2. StopSame
  BY <1>0, <1>1 DEF StopSame
<1>3. CASE PutMarker(f)
  <2>1. fon[f] \in Pipelines
    BY <1>3 DEF PutMarker, TypedAndGiven, Given, ThreadsSound
  <2>2. Marker(f) \in Item /\ Marker(f).kind = "marker"
    BY LifeItems DEF TypedAndGiven, Marker
  <2>3. LinePut(fon[f], Marker(f))
    BY <1>0, <1>3, <2>2 DEF PutMarker, LinePut, SameHands, HoldsLine
  <2> QED BY <1>2, <2>1, <2>2, <2>3, DrainPut
<1>4. CASE ~ PutMarker(f)
  <2>1. UNCHANGED <<queue, tickets>>
    BY <1>4 DEF Await, Flush, FlushCall, StartFlush, FlushReleased, FlushTimesOut, FlushFindsDead
  <2> QED BY <1>2, <2>1, DrainStays
<1> QED BY <1>3, <1>4

\* Where nothing is being joined, no queue has a sentinel.
LEMMA DrainIdle ==
  ASSUME TypedAndGiven, Drained, ~ (jpc = "join" /\ Alive(stopping)),
         \A h \in Pipelines : queue'[h] = queue[h] \/ queue'[h] = <<>>,
         \A h \in Pipelines : goal'[h] <= tickets'[h], ~ Stopped'
  PROVE  Drained'
<1>1. ASSUME NEW h \in Pipelines PROVE SentinelSound(h)' /\ LinesPast(h)'
  <2>1. \A i \in DOMAIN queue[h] : queue[h][i].kind # "sentinel"
    BY DEF Drained, SentinelSound
  <2>2. \A i \in DOMAIN queue'[h] : queue'[h][i].kind # "sentinel"
    BY <2>1
  <2> QED BY <2>2 DEF SentinelSound, LinesPast
<1> QED BY <1>1 DEF Drained

LEMMA JobDrains ==
  ASSUME Regime \in {"solo", "warm"}, TypedAndGiven, TypedAndGiven', Calm, Drained, Job
  PROVE  Drained'
<1>1. /\ \A h \in Pipelines : goal[h] <= tickets[h] /\ goal[h] \in Nat /\ tickets[h] \in Nat
      /\ jpc # "force"
  BY DEF Drained, Calm, JobCalm, TypedAndGiven, LifeTypeOK, JobTypeOK, PipeTypeOK
<1>2. CASE PutSentinel
  <2>1. PICK h \in Pipelines : h = wqueue[stopping]
    BY <1>2 DEF PutSentinel, TypedAndGiven, Given, StopSound, WritersSound, WriterSound, LifeTypeOK,
                JobTypeOK
  <2>2. /\ jpc = "put" /\ jpc' = "join" /\ queue' = [queue EXCEPT ![h] = Append(queue[h], Sentinel)]
        /\ UNCHANGED <<tickets, goal, stopping, wqueue, wpc>>
    BY <1>2, <2>1 DEF PutSentinel
  <2>3. Alive(stopping)
    BY <2>2 DEF Calm, JobCalm
  <2>4. ~ Stopped'
    BY <2>2, <2>3 DEF Stopped
  <2>5. ASSUME NEW g \in Pipelines PROVE SentinelSound(g)'
    <3> DEFINE q == queue[g]
               m == Len(queue[g])
    <3>1. q \in Seq(Item) /\ m \in Nat /\ DOMAIN q = 1 .. m
      BY QueueShape DEF TypedAndGiven
    <3>2. \A i \in DOMAIN q : q[i].kind # "sentinel"
      BY <2>2 DEF Drained, SentinelSound
    <3>3. CASE g # h
      <4>1. queue'[g] = q
        BY <2>2, <3>3 DEF TypedAndGiven, LifeTypeOK, PipeTypeOK
      <4> QED BY <3>2, <4>1 DEF SentinelSound
    <3>4. CASE g = h
      <4>1. queue'[g] = Append(q, Sentinel) /\ Sentinel \in Item
        BY <2>2, <3>4, LifeItems DEF TypedAndGiven, LifeTypeOK, PipeTypeOK
      <4>2. /\ DOMAIN queue'[g] = 1 .. m + 1
            /\ \A i \in 1 .. m : queue'[g][i] = q[i]
        BY <3>1, <4>1, PutAt
      <4> HIDE DEF m, q
      <4>3. \A i \in 1 .. m + 1 : i \in 1 .. m \/ i = m + 1
        BY <3>1
      <4>4. \A j \in 1 .. m + 1 : ~ (j > m + 1)
        BY <3>1
      <4>5. \A i \in DOMAIN queue'[g] : queue'[g][i].kind = "sentinel" => i = m + 1
        BY <3>1, <3>2, <4>2, <4>3
      <4>6. \A i \in DOMAIN queue'[g] : queue'[g][i].kind = "sentinel" => Behind(g, i)'
        BY <4>2, <4>4, <4>5 DEF Behind
      <4>7. jpc' = "join" /\ g = wqueue'[stopping'] /\ Alive(stopping)'
        BY <2>1, <2>2, <2>3, <3>4
      <4> QED BY <4>6, <4>7 DEF SentinelSound
    <3> QED BY <3>3, <3>4
  <2> QED BY <1>1, <2>2, <2>4, <2>5 DEF Drained, LinesPast
<1>3. CASE ForkBegin \/ InstallBegin \/ ShutdownBegin
  <2>1. PICK kind \in JobKinds : Begin(kind)
    BY <1>3 DEF JobKinds, ForkBegin, InstallBegin, ShutdownBegin
  <2>2. jpc = "idle" /\ goal' = tickets /\ UNCHANGED <<queue, tickets>>
    BY <1>3 DEF ForkBegin, InstallBegin, ShutdownBegin, Begin, StartFlush
  <2>3. writer # None => Alive(writer)
    BY <2>1, CalmBegin
  <2>4. ~ Stopped'
    BY <1>3, <2>3 DEF ForkBegin, InstallBegin, ShutdownBegin, Begin, CallStop, Stopped
  <2> QED BY <1>1, <2>2, <2>4, DrainIdle
<1>4. CASE Join
  <2>1. /\ jpc = "join" /\ ~ Alive(stopping) /\ UNCHANGED <<queue, tickets, goal, stopping, wpc, wqueue>>
        /\ jpc' # "join"
    BY <1>4 DEF Join, Joined, AfterStop, TypedAndGiven, LifeTypeOK, JobTypeOK, JobKinds
  <2>2. Stopped /\ wpc[stopping] # "unmade"
    BY <2>1 DEF Stopped, Drained
  <2>3. ASSUME NEW h \in Pipelines PROVE SentinelSound(h)' /\ LinesPast(h)'
    <3>1. \A i \in DOMAIN queue[h] : queue[h][i].kind # "sentinel"
      BY <2>1 DEF Drained, SentinelSound
    <3>2. QueuedTickets(h)' = QueuedTickets(h)
      BY <2>1 DEF QueuedTickets, QueuedLines
    <3>3. LinesPast(h)
      BY DEF Drained
    <3> QED BY <2>1, <2>2, <3>1, <3>2, <3>3 DEF SentinelSound, LinesPast
  <2> QED BY <1>1, <2>1, <2>2, <2>3 DEF Drained
<1>5. CASE \/ ParentResumes \/ RestartWriter \/ RelaunchWriter \/ InstallHandler \/ DetachRoot
           \/ AttachRoot \/ ShutdownStop \/ RedirectRoot \/ ForgetHandler
  <2>1. /\ UNCHANGED <<queue, tickets, goal>> /\ jpc # "join"
        /\ jpc' \in {"idle", "restart", "relaunch", "detach", "attach", "put", "force", "forget"}
    BY <1>5 DEF ParentResumes, RestartWriter, RelaunchWriter, InstallHandler, DetachRoot,
                AttachRoot, ShutdownStop, CallStop, RedirectRoot, ForgetHandler
  <2> QED BY <1>1, <2>1, DrainIdle DEF Stopped
<1>6. CASE ChildResumes
  <2>1. /\ UNCHANGED <<tickets, goal>> /\ jpc = "fork" /\ jpc' = "idle"
        /\ \A h \in Pipelines : queue'[h] = queue[h] \/ queue'[h] = <<>>
    BY <1>6 DEF ChildResumes, Renewed, TypedAndGiven, LifeTypeOK, PipeTypeOK
  <2> QED BY <1>1, <2>1, DrainIdle DEF Stopped
<1>7. CASE RelaunchAgain
  BY <1>7 DEF RelaunchAgain, Calm, JobCalm
<1> QED BY <1>1, <1>2, <1>3, <1>4, <1>5, <1>6, <1>7
        DEF Job, Stop, Fork, Install, Shutdown, ForceSentinel, ForceFull

LEMMA DrainedKept ==
  ASSUME Regime \in {"solo", "warm"}
  PROVE  TypedAndGiven /\ Apart /\ Calm /\ Drained /\ [LifeNext]_lifeVars => Drained'
<1> SUFFICES ASSUME TypedAndGiven, Apart, Calm, Drained, [LifeNext]_lifeVars PROVE Drained'
  OBVIOUS
<1>1. CASE LifeFinished \/ UNCHANGED lifeVars
  <2>1. StopSame /\ UNCHANGED <<queue, tickets>>
    BY <1>1 DEF LifeFinished, StopSame
  <2> QED BY <2>1, DrainStays
<1>2. CASE Job
  BY <1>2, JobDrains, LifeTypedKept
<1> QED BY <1>1, <1>2, LogDrains, ServeDrains, AwaitDrains DEF LifeNext

LEMMA LifeCalm ==
  ASSUME Regime \in {"solo", "warm"}
  PROVE  LifeSpec => [](TypedAndGiven /\ Apart /\ Calm /\ Drained)
<1>1. LifeInit => Calm /\ Drained
  BY CalmFirst
<1>2. TypedAndGiven /\ Calm /\ Drained /\ [LifeNext]_lifeVars => Calm'
  BY CalmKept
<1>3. TypedAndGiven /\ Apart /\ Calm /\ Drained /\ [LifeNext]_lifeVars => Drained'
  BY DrainedKept
<1> QED BY <1>1, <1>2, <1>3, LifeTyped, ApartFirst, ApartKept, PTL DEF LifeSpec

\* Where a job waits for a moment of "solo" or "warm", at the fork no writer thread
\* runs: the child inherits no lock that one holds and no half-written line.
THEOREM QuietFork ==
  ASSUME Regime \in {"solo", "warm"} PROVE LifeSpec => []ForkQuiet
<1>1. Calm => ForkQuiet
  BY DEF Calm, JobCalm, Serving, ForkQuiet
<1> QED BY <1>1, LifeCalm, PTL

\* ... and no queue is ever served by two writers.
THEOREM WriterAlone ==
  ASSUME Regime \in {"solo", "warm"} PROVE LifeSpec => []SoleWriter
<1>1. Calm => SoleWriter
  BY DEF Calm, WriterCalm, Serving, SoleWriter
<1>2. LifeSpec => [](TypedAndGiven /\ Apart /\ Calm /\ Drained)
  BY LifeCalm
<1> QED BY <1>1, <1>2, PTL

\* ... and, as long as no write fails, stop() drains: what was in the queue when the job
\* began is in the stream when the job goes on.
THEOREM StopIsComplete ==
  ASSUME Regime \in {"solo", "warm"}, "stream" \notin Faults PROVE LifeSpec => []StopDrains
<1>1. TypedAndGiven /\ Calm /\ Drained /\ NothingStranded => StopDrains
  <2> SUFFICES ASSUME TypedAndGiven, Calm, Drained, NothingStranded,
                      jpc \in {"fork", "swap", "redirect"}, stopping # None, NEW h, h = wqueue[stopping],
                      NEW n \in floor[h] + 1 .. goal[h]
               PROVE  n \in WrittenTickets(h)
    BY DEF StopDrains
  <2>1. Stopped /\ h \in Pipelines
    BY DEF Stopped, Drained, TypedAndGiven, Given, WritersSound, WriterSound, LifeTypeOK, JobTypeOK
  <2>2. floor[h] \in Nat /\ goal[h] \in Nat /\ tickets[h] \in Nat /\ goal[h] <= tickets[h]
    BY <2>1 DEF Drained, TypedAndGiven, LifeTypeOK, JobTypeOK, PipeTypeOK
  <2>3. n \in QueuedTickets(h) \cup HeldTickets(h) \cup WrittenTickets(h)
    <3>1. n \in floor[h] + 1 .. tickets[h]
      BY <2>2
    <3> QED BY <2>1, <3>1 DEF NothingStranded
  <2>4. n \notin QueuedTickets(h)
    BY <2>1, <2>2 DEF Drained, LinesPast
  <2>5. n \notin HeldTickets(h)
    BY DEF HeldTickets, Calm, JobCalm, Serving
  <2> QED BY <2>3, <2>4, <2>5
<1> QED BY <1>1, LifeCalm, NoLineLost, PTL
=============================================================================
