--------------------------- MODULE TransportProofs ---------------------------
(***************************************************************************)
(* What holds of Transport for every number of threads, every queue size   *)
(* and either overflow policy: first who writes and in which order, then   *)
(* what becomes of the records, what a flush and a notice of drops cover,  *)
(* and that each pipeline is a LogChannel.                                 *)
(***************************************************************************)
EXTENDS Transport, TLAPS, Facts

USE DEF vars, stateVars, pipeVars, writerVars, producerVars, flushVars, sinkVars,
        Push, Rest, Counted, Flushed, Delta, Unlocked, Released, SecondLook, NewWriter, StartFlush

\* What a queue gives out and what is put into it are items.
LEMMA HeadTail ==
  ASSUME NEW S, NEW q \in Seq(S), q # <<>>
  PROVE  Head(q) \in S /\ Tail(q) \in Seq(S) /\ Len(Tail(q)) = Len(q) - 1
OBVIOUS

LEMMA LineIsItem ==
  ASSUME TypeOK, NEW h \in Pipelines, NEW p \in Producers
  PROVE  Line(h, p) \in Item
BY DEF Line, Item, TypeOK, PipeTypeOK, ProducerTypeOK

LEMMA MarkerIsItem ==
  ASSUME TypeOK, NEW f \in Flushers
  PROVE  Marker(f) \in Item
BY DEF Marker, Item, TypeOK, FlushTypeOK

\* A record in emit is at the handler of _state.
LEMMA ViaHandler ==
  ASSUME TypeOK, Shape, NEW p \in Producers, ppc[p] # "idle"
  PROVE  via[p] = handler /\ via[p] \in Pipelines
BY DEF TypeOK, StateTypeOK, Shape, EmitShape

\* The initial state has the types and the shape.
LEMMA InitTyped == Init => TypeOK /\ Shape
<1> SUFFICES ASSUME Init PROVE TypeOK /\ Shape
  OBVIOUS
<1>1. TypeOK
  <2>1. StateTypeOK /\ PipeTypeOK
    BY DEF Init, StateTypeOK, PipeTypeOK
  <2>3. SinkTypeOK
    <3>1. released = {} /\ stream = <<>> /\ flushed = 0 /\ broken = FALSE
      BY DEF Init
    <3>2. stream \in Seq(Entry) /\ flushed \in 0 .. Len(stream)
      BY <3>1
    <3>3. broken \in BOOLEAN
      BY <3>1, Zenon
    <3> QED BY <3>1, <3>2, <3>3, Zenon DEF SinkTypeOK
  <2>2. WriterTypeOK /\ ProducerTypeOK /\ FlushTypeOK
    BY ConstantsAssumption DEF Init, WriterTypeOK, ProducerTypeOK, FlushTypeOK
  <2> QED BY <2>1, <2>2, <2>3 DEF TypeOK
<1>2. Shape
  BY ConstantsAssumption DEF Init, Shape, EmitShape, WriterShape, FlushShape
<1> QED BY <1>1, <1>2

\* Every step of emit keeps them.
LEMMA EmitTyped ==
  ASSUME TypeOK, Shape, NEW p \in Producers, Emit(p)
  PROVE  TypeOK' /\ Shape'
<1> USE ConstantsAssumption DEF TypeOK, Shape, StateTypeOK, PipeTypeOK, WriterTypeOK,
      ProducerTypeOK, FlushTypeOK, SinkTypeOK
<1>1. CASE Dispatch(p)
  <2>1. TypeOK'
    <3>2. PipeTypeOK'
      BY <1>1 DEF Dispatch
    <3>3. StateTypeOK' /\ WriterTypeOK' /\ FlushTypeOK' /\ SinkTypeOK'
      BY <1>1 DEF Dispatch
    <3>4. level' \in [Producers -> {"low", "high"}]
      <4>1. PICK l \in Levels[p] : level' = [level EXCEPT ![p] = l]
        BY <1>1 DEF Dispatch
      <4>2. l \in {"low", "high"}
        BY <4>1
      <4> QED BY <4>1, <4>2
    <3>5. left' \in [Producers -> Nat]
      BY <1>1 DEF Dispatch
    <3>6. ppc' \in [Producers -> {"idle", "emit", "lock", "create", "launch",
                                  "prepare", "put", "room", "offer", "drop"}]
      BY <1>1 DEF Dispatch, Goto
    <3>7. via' \in [Producers -> Pipelines \cup {None}]
      BY <1>1 DEF Dispatch
    <3> QED BY <3>2, <3>3, <3>4, <3>5, <3>6, <3>7
  <2>2. EmitShape'
    BY <1>1 DEF Dispatch, Goto, EmitShape, WriterShape
  <2>3. WriterShape'
    BY <1>1 DEF Dispatch, Goto, EmitShape, WriterShape
  <2>4. FlushShape'
    BY <1>1 DEF Dispatch, Goto, FlushShape
  <2> QED BY <1>1, <2>1, <2>2, <2>3, <2>4 DEF Dispatch
<1>2. CASE SeeStarted(p)
  <2>1. TypeOK'
    BY <1>2 DEF SeeStarted, Goto, EmitShape
  <2>2. EmitShape'
    BY <1>2 DEF SeeStarted, Goto, EmitShape, WriterShape
  <2>3. WriterShape'
    BY <1>2 DEF SeeStarted, Goto, EmitShape, WriterShape
  <2>4. FlushShape'
    BY <1>2 DEF SeeStarted, Goto, FlushShape
  <2> QED BY <1>2, <2>1, <2>2, <2>3, <2>4 DEF SeeStarted
<1>3. CASE StartedMeanwhile(p)
  <2>1. TypeOK'
    BY <1>3 DEF StartedMeanwhile, Goto, EmitShape
  <2>2. EmitShape'
    BY <1>3 DEF StartedMeanwhile, Goto, EmitShape, WriterShape
  <2>3. WriterShape'
    BY <1>3 DEF StartedMeanwhile, Goto, EmitShape, WriterShape
  <2>4. FlushShape'
    BY <1>3 DEF StartedMeanwhile, Goto, FlushShape
  <2> QED BY <1>3, <2>1, <2>2, <2>3, <2>4 DEF StartedMeanwhile
<1>4. CASE ClaimStart(p)
  <2>1. TypeOK'
    BY <1>4 DEF ClaimStart, Goto, EmitShape
  <2>2. EmitShape'
    BY <1>4 DEF ClaimStart, Goto, EmitShape, WriterShape
  <2>3. WriterShape'
    BY <1>4 DEF ClaimStart, Goto, EmitShape, WriterShape
  <2>4. FlushShape'
    BY <1>4 DEF ClaimStart, Goto, FlushShape
  <2> QED BY <1>4, <2>1, <2>2, <2>3, <2>4 DEF ClaimStart
<1>5. CASE CreateWriter(p)
  <2>1. TypeOK'
    <3>1. PICK w \in Writers : NewWriter(w)
      BY <1>5 DEF CreateWriter
    <3>2. StateTypeOK' /\ WriterTypeOK'
      BY <3>1, <1>5 DEF CreateWriter, NewWriter
    <3>3. ProducerTypeOK'
      BY <3>1, <1>5 DEF CreateWriter, Goto
    <3>4. PipeTypeOK' /\ FlushTypeOK' /\ SinkTypeOK'
      BY <1>5 DEF CreateWriter
    <3> QED BY <3>2, <3>3, <3>4
  <2>2. EmitShape'
    BY <1>5 DEF CreateWriter, Goto, EmitShape, WriterShape
  <2>3. WriterShape'
    BY <1>5 DEF CreateWriter, Goto, EmitShape, WriterShape
  <2>4. FlushShape'
    BY <1>5 DEF CreateWriter, Goto, FlushShape
  <2> QED BY <1>5, <2>1, <2>2, <2>3, <2>4 DEF CreateWriter
<1>6. CASE LaunchWriter(p)
  <2>1. TypeOK'
    BY <1>6 DEF LaunchWriter, Goto, EmitShape
  <2>2. EmitShape'
    BY <1>6 DEF LaunchWriter, Goto, EmitShape, WriterShape
  <2>3. WriterShape'
    BY <1>6 DEF LaunchWriter, Goto, EmitShape, WriterShape
  <2>4. FlushShape'
    BY <1>6 DEF LaunchWriter, Goto, FlushShape
  <2> QED BY <1>6, <2>1, <2>2, <2>3, <2>4 DEF LaunchWriter
<1>7. CASE LaunchFails(p)
  <2>1. TypeOK'
    <3>a. ppc[p] # "idle"
      BY <1>7 DEF LaunchFails
    <3>1. via[p] \in Pipelines
      BY <3>a, ViaHandler
    <3>2. PipeTypeOK'
      BY <3>1, <1>7 DEF LaunchFails
    <3>3. StateTypeOK' /\ WriterTypeOK' /\ ProducerTypeOK' /\ FlushTypeOK' /\ SinkTypeOK'
      BY <1>7 DEF LaunchFails, Goto
    <3> QED BY <3>2, <3>3
  <2>2. EmitShape'
    BY <1>7 DEF LaunchFails, Goto, EmitShape, WriterShape
  <2>3. WriterShape'
    BY <1>7 DEF LaunchFails, Goto, EmitShape, WriterShape
  <2>4. FlushShape'
    BY <1>7 DEF LaunchFails, Goto, FlushShape
  <2> QED BY <1>7, <2>1, <2>2, <2>3, <2>4 DEF LaunchFails
<1>8. CASE Prepare(p)
  <2>1. TypeOK'
    BY <1>8 DEF Prepare, Goto, EmitShape
  <2>2. EmitShape'
    BY <1>8 DEF Prepare, Goto, EmitShape, WriterShape
  <2>3. WriterShape'
    BY <1>8 DEF Prepare, Goto, EmitShape, WriterShape
  <2>4. FlushShape'
    BY <1>8 DEF Prepare, Goto, FlushShape
  <2> QED BY <1>8, <2>1, <2>2, <2>3, <2>4 DEF Prepare
<1>9. CASE PrepareFails(p)
  <2>1. TypeOK'
    <3>a. ppc[p] # "idle"
      BY <1>9 DEF PrepareFails
    <3>1. via[p] \in Pipelines
      BY <3>a, ViaHandler
    <3>2. PipeTypeOK'
      BY <3>1, <1>9 DEF PrepareFails
    <3>3. StateTypeOK' /\ WriterTypeOK' /\ ProducerTypeOK' /\ FlushTypeOK' /\ SinkTypeOK'
      BY <1>9 DEF PrepareFails, Goto
    <3> QED BY <3>2, <3>3
  <2>2. EmitShape'
    BY <1>9 DEF PrepareFails, Goto, EmitShape, WriterShape
  <2>3. WriterShape'
    BY <1>9 DEF PrepareFails, Goto, EmitShape, WriterShape
  <2>4. FlushShape'
    BY <1>9 DEF PrepareFails, Goto, FlushShape
  <2> QED BY <1>9, <2>1, <2>2, <2>3, <2>4 DEF PrepareFails
<1>10. CASE Enqueue(p)
  <2>1. TypeOK'
    <3>a. ppc[p] # "idle"
      BY <1>10 DEF Enqueue
    <3>1. via[p] \in Pipelines
      BY <3>a, ViaHandler
    <3>4. PICK s \in Seq(Item) : queue' = [queue EXCEPT ![via[p]] = s]
      <4>1. Line(via[p], p) \in Item
        BY <3>1, LineIsItem
      <4>2. Append(queue[via[p]], Line(via[p], p)) \in Seq(Item)
        BY <3>1, <4>1
      <4>3. queue' = [queue EXCEPT ![via[p]] = Append(queue[via[p]], Line(via[p], p))]
        BY <1>10 DEF Enqueue
      <4> QED BY <4>2, <4>3, Zenon
    <3>5. queue' \in [Pipelines -> Seq(Item)] /\ tickets' \in [Pipelines -> Nat]
      BY <3>1, <3>4, <1>10 DEF Enqueue
    <3>2. PipeTypeOK'
      BY <3>5, <1>10 DEF Enqueue
    <3>3. StateTypeOK' /\ WriterTypeOK' /\ ProducerTypeOK' /\ FlushTypeOK' /\ SinkTypeOK'
      BY <1>10 DEF Enqueue, Goto
    <3> QED BY <3>2, <3>3
  <2>2. EmitShape'
    BY <1>10 DEF Enqueue, Goto, EmitShape, WriterShape
  <2>3. WriterShape'
    BY <1>10 DEF Enqueue, Goto, EmitShape, WriterShape
  <2>4. FlushShape'
    BY <1>10 DEF Enqueue, Goto, FlushShape
  <2> QED BY <1>10, <2>1, <2>2, <2>3, <2>4 DEF Enqueue
<1>11. CASE CheckRoom(p)
  <2>1. TypeOK'
    BY <1>11 DEF CheckRoom, Goto, EmitShape
  <2>2. EmitShape'
    BY <1>11 DEF CheckRoom, Goto, EmitShape, WriterShape
  <2>3. WriterShape'
    BY <1>11 DEF CheckRoom, Goto, EmitShape, WriterShape
  <2>4. FlushShape'
    BY <1>11 DEF CheckRoom, Goto, FlushShape
  <2> QED BY <1>11, <2>1, <2>2, <2>3, <2>4 DEF CheckRoom
<1>12. CASE OfferFull(p)
  <2>1. TypeOK'
    BY <1>12 DEF OfferFull, Goto, EmitShape
  <2>2. EmitShape'
    BY <1>12 DEF OfferFull, Goto, EmitShape, WriterShape
  <2>3. WriterShape'
    BY <1>12 DEF OfferFull, Goto, EmitShape, WriterShape
  <2>4. FlushShape'
    BY <1>12 DEF OfferFull, Goto, FlushShape
  <2> QED BY <1>12, <2>1, <2>2, <2>3, <2>4 DEF OfferFull
<1>13. CASE CountDrop(p)
  <2>1. TypeOK'
    <3>a. ppc[p] # "idle"
      BY <1>13 DEF CountDrop
    <3>1. via[p] \in Pipelines
      BY <3>a, ViaHandler
    <3>2. PipeTypeOK'
      BY <3>1, <1>13 DEF CountDrop
    <3>3. StateTypeOK' /\ WriterTypeOK' /\ ProducerTypeOK' /\ FlushTypeOK' /\ SinkTypeOK'
      BY <1>13 DEF CountDrop, Goto
    <3> QED BY <3>2, <3>3
  <2>2. EmitShape'
    BY <1>13 DEF CountDrop, Goto, EmitShape, WriterShape
  <2>3. WriterShape'
    BY <1>13 DEF CountDrop, Goto, EmitShape, WriterShape
  <2>4. FlushShape'
    BY <1>13 DEF CountDrop, Goto, FlushShape
  <2> QED BY <1>13, <2>1, <2>2, <2>3, <2>4 DEF CountDrop
<1> QED
  BY <1>1, <1>2, <1>3, <1>4, <1>5, <1>6, <1>7, <1>8, <1>9, <1>10, <1>11,
     <1>12, <1>13 DEF Emit

\* What a written line and the notice behind it make of the stream.
LEMMA WriteLineStream ==
  ASSUME TypeOK, Shape, NEW w \in Writers, WriteLine(w)
  PROVE  SinkTypeOK'
<1> DEFINE h == wqueue[w]
           line == [kind |-> "line", on |-> h, n |-> hand[w].n]
           written == Append(stream, line)
           notice == [kind |-> "note", on |-> h, n |-> Delta(w)]
<1>1. h \in Pipelines /\ h = handler /\ reported[w] <= dropped[h] /\ hand[w] \in Item
  BY DEF WriteLine, Shape, WriterShape, TypeOK, StateTypeOK
<1>2. hand[w].n \in Nat
  BY <1>1 DEF Item
<1>3. line \in Entry
  BY <1>1, <1>2 DEF Entry
<1>4. Delta(w) \in Nat
  BY <1>1 DEF TypeOK, PipeTypeOK, WriterTypeOK
<1>5. notice \in Entry
  BY <1>1, <1>4 DEF Entry
<1>6. stream \in Seq(Entry) /\ flushed \in 0 .. Len(stream) /\ released' = released
      /\ released \in SUBSET ((Producers \cup Flushers \cup {None}) \X Nat)
  BY DEF TypeOK, SinkTypeOK, WriteLine
<1>7. /\ stream' \in {written, Append(written, notice)}
      /\ flushed' \in {flushed, Len(stream), Len(stream')}
      /\ broken' \in {broken, TRUE}
  BY DEF WriteLine
<1> HIDE DEF line, notice
<1>8. written \in Seq(Entry) /\ Append(written, notice) \in Seq(Entry)
      /\ Len(written) = Len(stream) + 1 /\ Len(Append(written, notice)) = Len(stream) + 2
  BY <1>3, <1>5, <1>6
<1> HIDE DEF written
<1>9. Len(stream) <= Len(stream') /\ stream' \in Seq(Entry)
  BY <1>6, <1>7, <1>8
<1>10. flushed' \in 0 .. Len(stream')
  BY <1>6, <1>7, <1>9
<1>11. broken' \in BOOLEAN
  BY <1>7 DEF TypeOK, SinkTypeOK
<1> QED
  BY <1>6, <1>9, <1>10, <1>11 DEF SinkTypeOK

\* Every step of a writer keeps them.
LEMMA WriteTyped ==
  ASSUME TypeOK, Shape, NEW w \in Writers, Write(w)
  PROVE  TypeOK' /\ Shape'
<1> USE DEF TypeOK, Shape, StateTypeOK, PipeTypeOK, WriterTypeOK,
      ProducerTypeOK, FlushTypeOK, SinkTypeOK
<1>0. wpc[w] # "unmade" => wqueue[w] = handler /\ wqueue[w] \in Pipelines
                           /\ reported[w] <= dropped[handler]
  BY DEF WriterShape
<1>1. CASE Take(w)
  <2>1. TypeOK'
    <3>1. wqueue[w] \in Pipelines /\ queue[wqueue[w]] \in Seq(Item) /\ queue[wqueue[w]] # <<>>
      BY <1>0, <1>1 DEF Take
    <3>2. Head(queue[wqueue[w]]) \in Item /\ Tail(queue[wqueue[w]]) \in Seq(Item)
      BY <3>1, HeadTail
    <3>3. PipeTypeOK'
      BY <1>1, <3>1, <3>2 DEF Take
    <3>4. WriterTypeOK'
      BY <1>1, <3>2 DEF Take
    <3>5. StateTypeOK' /\ ProducerTypeOK' /\ FlushTypeOK' /\ SinkTypeOK'
      BY <1>1 DEF Take
    <3> QED BY <3>3, <3>4, <3>5
  <2>2. EmitShape'
    BY <1>1 DEF Take, EmitShape
  <2>3. WriterShape'
    BY <1>0, <1>1 DEF Take, WriterShape
  <2>4. FlushShape'
    BY <1>1 DEF Take, FlushShape
  <2> QED BY <1>1, <2>1, <2>2, <2>3, <2>4 DEF Take
<1>2. CASE HandleMarker(w)
  <2>1. TypeOK'
    <3>1. hand[w] \in Item
      BY <1>2 DEF HandleMarker, WriterShape
    <3>2. hand[w].by \in Producers \cup Flushers \cup {None} /\ hand[w].n \in Nat
      BY <3>1 DEF Item
    <3>3. released' \in SUBSET ((Producers \cup Flushers \cup {None}) \X Nat)
      BY <1>2, <3>2 DEF HandleMarker
    <3>4. stream' \in Seq(Entry) /\ flushed' \in 0 .. Len(stream')
      <4>1. stream' = stream /\ (flushed' = Len(stream) \/ flushed' = flushed)
        BY <1>2 DEF HandleMarker, Flushed
      <4> QED BY <4>1
    <3>8. broken' \in BOOLEAN
      <4>1. broken' = broken \/ broken' = TRUE
        BY <1>2, Zenon DEF HandleMarker
      <4>2. broken \in BOOLEAN
        BY Zenon DEF TypeOK, SinkTypeOK
      <4> QED BY <4>1, <4>2, Zenon
    <3>7. SinkTypeOK'
      BY <3>3, <3>4, <3>8, Zenon DEF SinkTypeOK
    <3>5. WriterTypeOK'
      BY <1>2 DEF HandleMarker
    <3>6. StateTypeOK' /\ PipeTypeOK' /\ ProducerTypeOK' /\ FlushTypeOK'
      BY <1>2 DEF HandleMarker
    <3> QED BY <3>5, <3>6, <3>7
  <2>2. EmitShape'
    BY <1>2 DEF HandleMarker, EmitShape
  <2>3. WriterShape'
    BY <1>0, <1>2 DEF HandleMarker, WriterShape
  <2>4. FlushShape'
    BY <1>2 DEF HandleMarker, FlushShape
  <2> QED BY <1>2, <2>1, <2>2, <2>3, <2>4 DEF HandleMarker
<1>3. CASE WriteLine(w)
  <2>1. TypeOK'
    <3>1. SinkTypeOK'
      BY <1>0, <1>3, WriteLineStream
    <3>2. WriterTypeOK'
      BY <1>0, <1>3 DEF WriteLine
    <3>3. StateTypeOK' /\ PipeTypeOK' /\ ProducerTypeOK' /\ FlushTypeOK'
      BY <1>3 DEF WriteLine
    <3> QED BY <3>1, <3>2, <3>3
  <2>2. EmitShape'
    BY <1>3 DEF WriteLine, EmitShape
  <2>3. WriterShape'
    BY <1>0, <1>3 DEF WriteLine, WriterShape
  <2>4. FlushShape'
    BY <1>3 DEF WriteLine, FlushShape
  <2> QED BY <1>3, <2>1, <2>2, <2>3, <2>4 DEF WriteLine
<1>4. CASE WriteFails(w)
  <2>1. TypeOK'
    <3>1. PipeTypeOK'
      BY <1>0, <1>4 DEF WriteFails
    <3>2. WriterTypeOK'
      BY <1>4 DEF WriteFails
    <3>3. StateTypeOK' /\ ProducerTypeOK' /\ FlushTypeOK' /\ SinkTypeOK'
      BY <1>4 DEF WriteFails
    <3> QED BY <3>1, <3>2, <3>3
  <2>2. EmitShape'
    BY <1>4 DEF WriteFails, EmitShape
  <2>3. WriterShape'
    BY <1>0, <1>4 DEF WriteFails, WriterShape
  <2>4. FlushShape'
    BY <1>4 DEF WriteFails, FlushShape
  <2> QED BY <1>4, <2>1, <2>2, <2>3, <2>4 DEF WriteFails
<1>5. CASE FlushIfEmpty(w)
  <2>1. TypeOK'
    <3>1. SinkTypeOK' /\ WriterTypeOK'
      BY <1>5 DEF FlushIfEmpty
    <3>2. StateTypeOK' /\ PipeTypeOK' /\ ProducerTypeOK' /\ FlushTypeOK'
      BY <1>5 DEF FlushIfEmpty
    <3> QED BY <3>1, <3>2
  <2>2. EmitShape'
    BY <1>5 DEF FlushIfEmpty, EmitShape
  <2>3. WriterShape'
    BY <1>0, <1>5 DEF FlushIfEmpty, WriterShape
  <2>4. FlushShape'
    BY <1>5 DEF FlushIfEmpty, FlushShape
  <2> QED BY <1>5, <2>1, <2>2, <2>3, <2>4 DEF FlushIfEmpty
<1>6. CASE FlushFails(w)
  <2>1. TypeOK'
    <3>1. PipeTypeOK'
      BY <1>0, <1>6 DEF FlushFails
    <3>2. WriterTypeOK'
      BY <1>6 DEF FlushFails
    <3>3. StateTypeOK' /\ ProducerTypeOK' /\ FlushTypeOK' /\ SinkTypeOK'
      BY <1>6 DEF FlushFails
    <3> QED BY <3>1, <3>2, <3>3
  <2>2. EmitShape'
    BY <1>6 DEF FlushFails, EmitShape
  <2>3. WriterShape'
    BY <1>0, <1>6 DEF FlushFails, WriterShape
  <2>4. FlushShape'
    BY <1>6 DEF FlushFails, FlushShape
  <2> QED BY <1>6, <2>1, <2>2, <2>3, <2>4 DEF FlushFails
<1> QED
  BY <1>1, <1>2, <1>3, <1>4, <1>5, <1>6 DEF Write

\* Every step of flush keeps them.
LEMMA FlushTyped ==
  ASSUME TypeOK, Shape, NEW f \in Flushers, Flush(f)
  PROVE  TypeOK' /\ Shape'
<1> USE DEF TypeOK, Shape, StateTypeOK, PipeTypeOK, WriterTypeOK,
      ProducerTypeOK, FlushTypeOK, SinkTypeOK
<1>1. CASE FlushCall(f)
  <2>1. TypeOK'
    <3>1. PICK timeout \in BOOLEAN : timed' = [timed EXCEPT ![f] = timeout]
      BY <1>1 DEF FlushCall
    <3>2. timed' \in [Flushers -> BOOLEAN]
      BY <3>1
    <3>3. fpc' \in [Flushers -> {"idle", "mark", "wait"}]
          /\ fon' \in [Flushers -> Pipelines \cup {None}]
          /\ fwriter' \in [Flushers -> Writers \cup {None}]
      BY <1>1 DEF FlushCall
    <3>4. calls' \in [Flushers -> Nat] /\ before' \in [Flushers -> Nat]
      BY <1>1 DEF FlushCall
    <3>5. StateTypeOK' /\ PipeTypeOK' /\ WriterTypeOK' /\ ProducerTypeOK' /\ SinkTypeOK'
      BY <1>1 DEF FlushCall
    <3> QED BY <3>2, <3>3, <3>4, <3>5
  <2>2. EmitShape'
    BY <1>1 DEF FlushCall, EmitShape
  <2>3. WriterShape'
    BY <1>1 DEF FlushCall, WriterShape
  <2>4. FlushShape'
    BY <1>1 DEF FlushCall, FlushShape, Alive
  <2> QED BY <1>1, <2>1, <2>2, <2>3, <2>4 DEF FlushCall
<1>2. CASE PutMarker(f)
  <2>1. TypeOK'
    <3>1. fon[f] \in Pipelines
      BY <1>2 DEF PutMarker, FlushShape
    <3>a. queue[fon[f]] \in Seq(Item) /\ Marker(f) \in Item
      BY <3>1, MarkerIsItem
    <3>2. Append(queue[fon[f]], Marker(f)) \in Seq(Item)
      BY <3>a
    <3>3. PipeTypeOK'
      BY <1>2, <3>1, <3>2 DEF PutMarker
    <3>4. FlushTypeOK'
      BY <1>2 DEF PutMarker
    <3>5. StateTypeOK' /\ WriterTypeOK' /\ ProducerTypeOK' /\ SinkTypeOK'
      BY <1>2 DEF PutMarker
    <3> QED BY <3>3, <3>4, <3>5
  <2>2. EmitShape'
    BY <1>2 DEF PutMarker, EmitShape
  <2>3. WriterShape'
    BY <1>2 DEF PutMarker, WriterShape
  <2>4. FlushShape'
    BY <1>2 DEF PutMarker, FlushShape, Alive
  <2> QED BY <1>2, <2>1, <2>2, <2>3, <2>4 DEF PutMarker
<1>3. CASE FlushReleased(f)
  <2>1. TypeOK'
    BY <1>3 DEF FlushReleased, FlushShape
  <2>2. EmitShape'
    BY <1>3 DEF FlushReleased, EmitShape
  <2>3. WriterShape'
    BY <1>3 DEF FlushReleased, WriterShape
  <2>4. FlushShape'
    BY <1>3 DEF FlushReleased, FlushShape, Alive
  <2> QED BY <1>3, <2>1, <2>2, <2>3, <2>4 DEF FlushReleased
<1>4. CASE FlushTimesOut(f)
  <2>1. TypeOK'
    BY <1>4 DEF FlushTimesOut, FlushShape
  <2>2. EmitShape'
    BY <1>4 DEF FlushTimesOut, EmitShape
  <2>3. WriterShape'
    BY <1>4 DEF FlushTimesOut, WriterShape
  <2>4. FlushShape'
    BY <1>4 DEF FlushTimesOut, FlushShape, Alive
  <2> QED BY <1>4, <2>1, <2>2, <2>3, <2>4 DEF FlushTimesOut
<1> QED
  BY <1>1, <1>2, <1>3, <1>4 DEF Flush

\* Every variable keeps its type, and what a thread uses was given to it.
THEOREM Typed == Spec => [](TypeOK /\ Shape)
<1>1. TypeOK /\ Shape /\ [Next]_vars => (TypeOK /\ Shape)'
  <2> SUFFICES ASSUME TypeOK, Shape, [Next]_vars PROVE TypeOK' /\ Shape'
    OBVIOUS
  <2>1. CASE UNCHANGED vars
    <3>1. TypeOK'
      BY <2>1 DEF TypeOK, StateTypeOK, PipeTypeOK, WriterTypeOK, ProducerTypeOK,
                  FlushTypeOK, SinkTypeOK
    <3>2. Shape'
      BY <2>1 DEF Shape, EmitShape, WriterShape, FlushShape
    <3> QED BY <3>1, <3>2
  <2>2. CASE Next
    BY <2>1, <2>2, EmitTyped, WriteTyped, FlushTyped DEF Next, Finished
  <2> QED BY <2>1, <2>2
<1> QED BY <1>1, InitTyped, PTL DEF Spec

\* Every variable of Transport always has its type.
THEOREM TypeCorrect == Spec => []TypeOK
BY Typed, PTL

\* A step outside emit's start sequence: it makes no writer and claims no start.
StartFrame ==
  /\ started' = started /\ wqueue' = wqueue
  /\ \A h \in Pipelines : startLock'[h] \in {startLock[h], None}
  /\ \A w \in Writers : wpc'[w] # "unmade" => wpc[w] # "unmade"
  /\ \A p \in Producers : ppc'[p] = "create" => ppc[p] = "create" /\ via'[p] = via[p]

LEMMA FrameKeepsFirst ==
  ASSUME FirstWriter, OneWriter, StartFrame
  PROVE  FirstWriter' /\ OneWriter'
BY DEF FirstWriter, OneWriter, StartFrame

LEMMA EmitFrame ==
  ASSUME TypeOK, Shape, NEW p \in Producers, Emit(p), ~ ClaimStart(p), ~ CreateWriter(p)
  PROVE  StartFrame
<1> USE DEF TypeOK, PipeTypeOK, WriterTypeOK, ProducerTypeOK, StartFrame, Goto
<1>1. CASE Dispatch(p)
  BY <1>1 DEF Dispatch
<1>2. CASE SeeStarted(p)
  BY <1>2 DEF SeeStarted
<1>3. CASE StartedMeanwhile(p)
  BY <1>3 DEF StartedMeanwhile
<1>4. CASE LaunchWriter(p)
  BY <1>4 DEF LaunchWriter, Shape, EmitShape
<1>5. CASE LaunchFails(p)
  BY <1>5 DEF LaunchFails
<1>6. CASE Prepare(p)
  BY <1>6 DEF Prepare
<1>7. CASE PrepareFails(p)
  BY <1>7 DEF PrepareFails
<1>8. CASE Enqueue(p)
  BY <1>8 DEF Enqueue
<1>9. CASE CheckRoom(p)
  BY <1>9 DEF CheckRoom
<1>10. CASE OfferFull(p)
  BY <1>10 DEF OfferFull
<1>11. CASE CountDrop(p)
  BY <1>11 DEF CountDrop
<1> QED
  BY <1>1, <1>2, <1>3, <1>4, <1>5, <1>6, <1>7, <1>8, <1>9, <1>10, <1>11 DEF Emit

LEMMA WriteFrame ==
  ASSUME TypeOK, NEW w \in Writers, Write(w)
  PROVE  StartFrame
<1> USE DEF TypeOK, WriterTypeOK, StartFrame
<1>1. CASE Take(w)
  BY <1>1 DEF Take
<1>2. CASE HandleMarker(w)
  BY <1>2 DEF HandleMarker
<1>3. CASE WriteLine(w)
  BY <1>3 DEF WriteLine
<1>4. CASE WriteFails(w)
  BY <1>4 DEF WriteFails
<1>5. CASE FlushIfEmpty(w)
  BY <1>5 DEF FlushIfEmpty
<1>6. CASE FlushFails(w)
  BY <1>6 DEF FlushFails
<1> QED
  BY <1>1, <1>2, <1>3, <1>4, <1>5, <1>6 DEF Write

LEMMA FlushFrame ==
  ASSUME NEW f \in Flushers, Flush(f)
  PROVE  StartFrame
BY DEF Flush, StartFrame, FlushCall, PutMarker, FlushReleased, FlushTimesOut

\* What OneWriter needs survives every step: only emit's start sequence bears on it.
LEMMA FirstWriterKept ==
  ASSUME TypeOK, Shape, FirstWriter, OneWriter, [Next]_vars
  PROVE  FirstWriter' /\ OneWriter'
<1>1. ASSUME NEW p \in Producers, ClaimStart(p)
      PROVE  FirstWriter' /\ OneWriter'
  <2>1. ppc[p] = "lock" /\ via[p] = handler /\ handler \in Pipelines /\ ~ started[handler]
        /\ wpc' = wpc /\ wqueue' = wqueue /\ via' = via
    BY <1>1, ViaHandler DEF ClaimStart
  <2>2. \A h \in Pipelines : started'[h] = (started[h] \/ h = handler)
    BY <1>1, <2>1 DEF ClaimStart, TypeOK, PipeTypeOK
  <2>3. \A h \in Pipelines : h # handler => startLock'[h] = startLock[h]
    BY <1>1, <2>1 DEF ClaimStart, TypeOK, PipeTypeOK
  <2>4. \A w \in Writers : wpc[w] # "unmade" => wqueue[w] # handler
    BY <2>1 DEF FirstWriter
  <2>5. \A w \in Writers : wpc[w] = "unmade" 
    BY <2>4 DEF Shape, WriterShape
  <2>6. FirstWriter' /\ OneWriter'
    BY <2>1, <2>2, <2>3, <2>5 DEF FirstWriter, OneWriter
  <2> QED BY <2>6
<1>2. ASSUME NEW p \in Producers, CreateWriter(p)
      PROVE  FirstWriter' /\ OneWriter'
  <2>1. PICK v \in Writers :
          /\ wpc[v] = "unmade"
          /\ wpc' = [wpc EXCEPT ![v] = "made"]
          /\ wqueue' = [wqueue EXCEPT ![v] = handler]
    BY <1>2 DEF CreateWriter
  <2>2. ppc[p] = "create" /\ via[p] = handler /\ handler \in Pipelines
        /\ started' = started /\ startLock' = startLock /\ via' = via
        /\ ppc' = [ppc EXCEPT ![p] = "launch"]
    BY <1>2, ViaHandler DEF CreateWriter, Goto
  <2>3. started[handler] /\ startLock[handler] = p
    BY <2>2, ConstantsAssumption DEF FirstWriter, Shape, EmitShape
  <2>4. \A w \in Writers : wpc[w] # "unmade" => wqueue[w] # handler
    BY <2>2 DEF FirstWriter
  <2>5. \A q \in Producers : ppc'[q] = "create" => ppc[q] = "create" /\ q # p
    BY <2>2 DEF TypeOK, ProducerTypeOK
  <2>6. \A q \in Producers : ppc[q] # "create" \/ q = p
    BY <2>3 DEF Shape, EmitShape
  <2>7. \A w \in Writers : w # v => wpc'[w] = wpc[w] /\ wqueue'[w] = wqueue[w]
    BY <2>1 DEF TypeOK, WriterTypeOK
  <2>8. wqueue'[v] = handler
    BY <2>1 DEF TypeOK, WriterTypeOK
  <2>9. FirstWriter'
    BY <2>2, <2>3, <2>5, <2>6, <2>7, <2>8 DEF FirstWriter
  <2>10. OneWriter'
    BY <2>4, <2>7, <2>8 DEF OneWriter
  <2> QED BY <2>9, <2>10
<1>3. ASSUME NEW p \in Producers, Emit(p), ~ ClaimStart(p), ~ CreateWriter(p)
      PROVE  FirstWriter' /\ OneWriter'
  BY <1>3, EmitFrame, FrameKeepsFirst
<1>4. ASSUME NEW w \in Writers, Write(w)
      PROVE  FirstWriter' /\ OneWriter'
  BY <1>4, WriteFrame, FrameKeepsFirst
<1>5. ASSUME NEW f \in Flushers, Flush(f)
      PROVE  FirstWriter' /\ OneWriter'
  BY <1>5, FlushFrame, FrameKeepsFirst
<1>6. CASE UNCHANGED vars
  BY <1>6 DEF FirstWriter, OneWriter
<1> QED
  BY <1>1, <1>2, <1>3, <1>4, <1>5, <1>6 DEF Next, Finished

\* LP-003: one queue, one Writer, however many threads emit first.
THEOREM SingleWriter == Spec => []OneWriter
<1>1. Init => FirstWriter /\ OneWriter
  BY DEF Init, FirstWriter, OneWriter
<1>2. TypeOK /\ Shape /\ FirstWriter /\ OneWriter /\ [Next]_vars
      => (FirstWriter /\ OneWriter)'
  BY FirstWriterKept
<1> QED BY <1>1, <1>2, Typed, PTL DEF Spec

\* A step that moves no line: no queue, no stream and no line in a hand changes.
LineFrame ==
  /\ queue' = queue /\ tickets' = tickets /\ stream' = stream
  /\ \A w \in Writers : wpc'[w] = "handle" =>
       wpc[w] = "handle" /\ hand'[w] = hand[w] /\ wqueue'[w] = wqueue[w]

LEMMA FrameKeepsOrder ==
  ASSUME Staged, InOrder, LineFrame
  PROVE  Staged' /\ InOrder'
BY DEF Staged, StagedAt, InOrder, LineFrame, HoldsLine, OnStream, QueuedLines

LEMMA EmitLineFrame ==
  ASSUME TypeOK, Shape, NEW p \in Producers, Emit(p), ~ Enqueue(p)
  PROVE  LineFrame
<1> USE DEF TypeOK, WriterTypeOK, LineFrame
<1>1. CASE Dispatch(p)
  BY <1>1 DEF Dispatch
<1>2. CASE SeeStarted(p)
  BY <1>2 DEF SeeStarted
<1>3. CASE StartedMeanwhile(p)
  BY <1>3 DEF StartedMeanwhile
<1>4. CASE ClaimStart(p)
  BY <1>4 DEF ClaimStart
<1>5. CASE CreateWriter(p)
  BY <1>5 DEF CreateWriter
<1>6. CASE LaunchWriter(p)
  BY <1>6 DEF LaunchWriter, Shape, EmitShape
<1>7. CASE LaunchFails(p)
  BY <1>7 DEF LaunchFails
<1>8. CASE Prepare(p)
  BY <1>8 DEF Prepare
<1>9. CASE PrepareFails(p)
  BY <1>9 DEF PrepareFails
<1>10. CASE CheckRoom(p)
  BY <1>10 DEF CheckRoom
<1>11. CASE OfferFull(p)
  BY <1>11 DEF OfferFull
<1>12. CASE CountDrop(p)
  BY <1>12 DEF CountDrop
<1> QED
  BY <1>1, <1>2, <1>3, <1>4, <1>5, <1>6, <1>7, <1>8, <1>9, <1>10, <1>11, <1>12 DEF Emit

LEMMA WriteLineFrame ==
  ASSUME TypeOK, Shape, NEW w \in Writers, Write(w), ~ Take(w), ~ WriteLine(w)
  PROVE  LineFrame
<1> USE DEF TypeOK, WriterTypeOK, LineFrame
<1>1. CASE HandleMarker(w)
  BY <1>1 DEF HandleMarker
<1>2. CASE WriteFails(w)
  BY <1>2 DEF WriteFails
<1>3. CASE FlushIfEmpty(w)
  BY <1>3 DEF FlushIfEmpty
<1>4. CASE FlushFails(w)
  BY <1>4 DEF FlushFails
<1> QED
  BY <1>1, <1>2, <1>3, <1>4 DEF Write

LEMMA FlushLineFrame ==
  ASSUME NEW f \in Flushers, Flush(f), ~ PutMarker(f)
  PROVE  LineFrame
BY DEF Flush, LineFrame, FlushCall, FlushReleased, FlushTimesOut

\* What is appended to a queue comes last, and a line has the highest ticket so far.
LEMMA AppendKeepsOrder ==
  ASSUME TypeOK, Shape, Staged, InOrder, NEW h \in Pipelines, NEW x \in Item,
         queue' = [queue EXCEPT ![h] = Append(queue[h], x)],
         \A g \in Pipelines : g # h => tickets'[g] = tickets[g],
         \/ x.kind = "line" /\ x.n = tickets[h] + 1 /\ tickets'[h] = tickets[h] + 1
         \/ x.kind # "line" /\ tickets'[h] = tickets[h],
         UNCHANGED <<wpc, wqueue, hand, stream>>
  PROVE  Staged' /\ InOrder'
<1> DEFINE q == queue[h]
<1>1. q \in Seq(Item) /\ tickets[h] \in Nat /\ queue'[h] = Append(q, x)
  BY DEF TypeOK, PipeTypeOK
<1>2. /\ DOMAIN q = 1 .. Len(q) /\ Len(q) \in Nat
      /\ DOMAIN queue'[h] = 1 .. Len(q) + 1
      /\ \A i \in 1 .. Len(q) : queue'[h][i] = q[i] /\ q[i] \in Item
      /\ queue'[h][Len(q) + 1] = x
  BY <1>1
<1>3. \A i \in 1 .. Len(q) : q[i].n \in Nat
  BY <1>2 DEF Item
<1>4. \A w \in Writers : HoldsLine(w, h)' <=> HoldsLine(w, h)
  BY DEF HoldsLine
<1>5. \A w \in Writers : HoldsLine(w, h) => hand[w].n \in Nat
  BY DEF HoldsLine, Shape, WriterShape, Item
<1>6. \A k \in DOMAIN stream : stream[k].n \in Nat
  <2>1. stream \in Seq(Entry)
    BY DEF TypeOK, SinkTypeOK
  <2>2. \A k \in DOMAIN stream : stream[k] \in Entry
    BY <2>1
  <2> QED BY <2>2 DEF Entry
<1>7. StagedAt(h)
  BY DEF Staged
<1>8. \A i \in QueuedLines(h)' :
        \/ i \in QueuedLines(h) /\ i \in 1 .. Len(q) /\ queue'[h][i] = q[i]
        \/ i = Len(q) + 1 /\ queue'[h][i] = x /\ x.kind = "line"
  BY <1>2 DEF QueuedLines
<1> HIDE DEF q
<1>9. StagedAt(h)'
  <2>1. \A i \in QueuedLines(h)' : queue'[h][i].n <= tickets'[h]
    BY <1>1, <1>3, <1>7, <1>8 DEF StagedAt, q
  <2>2. \A i, j \in QueuedLines(h)' : i < j => queue'[h][i].n < queue'[h][j].n
    BY <1>1, <1>2, <1>3, <1>7, <1>8 DEF StagedAt, q
  <2>3. \A w \in Writers : HoldsLine(w, h)' =>
          /\ hand'[w].n <= tickets'[h]
          /\ \A i \in QueuedLines(h)' : hand'[w].n < queue'[h][i].n
    BY <1>1, <1>3, <1>4, <1>5, <1>7, <1>8 DEF StagedAt, q
  <2>4. \A k \in DOMAIN stream' : OnStream(k, h)' =>
          /\ stream'[k].n <= tickets'[h]
          /\ \A i \in QueuedLines(h)' : stream'[k].n < queue'[h][i].n
    BY <1>1, <1>3, <1>6, <1>7, <1>8 DEF StagedAt, OnStream, q
  <2>5. \A k \in DOMAIN stream' : OnStream(k, h)' =>
          \A w \in Writers : HoldsLine(w, h)' => stream'[k].n < hand'[w].n
    BY <1>4, <1>7 DEF StagedAt, OnStream
  <2> QED BY <2>1, <2>2, <2>3, <2>4, <2>5 DEF StagedAt
<1>10. \A g \in Pipelines : g # h => StagedAt(g)'
  <2> SUFFICES ASSUME NEW g \in Pipelines, g # h PROVE StagedAt(g)'
    OBVIOUS
  <2>1. queue'[g] = queue[g] /\ tickets'[g] = tickets[g]
    BY DEF TypeOK, PipeTypeOK
  <2> QED BY <2>1 DEF Staged, StagedAt, QueuedLines, HoldsLine, OnStream
<1>11. InOrder'
  BY DEF InOrder
<1> QED BY <1>9, <1>10, <1>11 DEF Staged

\* What is taken out of a queue is its oldest item, and no other hand is full.
LEMMA TakeKeepsOrder ==
  ASSUME TypeOK, Shape, OneWriter, Staged, InOrder, NEW w \in Writers, Take(w),
         NEW h \in Pipelines, h = wqueue[w]
  PROVE  Staged' /\ InOrder'
<1> DEFINE q == queue[h]
<1>1. wpc[w] = "get" /\ q # <<>>
      /\ queue' = [queue EXCEPT ![h] = Tail(q)]
      /\ UNCHANGED <<wqueue, tickets, stream>>
  BY DEF Take
<1>2. q \in Seq(Item) /\ queue'[h] = Tail(q)
  BY <1>1 DEF TypeOK, PipeTypeOK
<1>3. /\ DOMAIN q = 1 .. Len(q) /\ Len(q) \in Nat /\ Len(q) > 0
      /\ DOMAIN queue'[h] = 1 .. Len(q) - 1
      /\ \A i \in 1 .. Len(q) - 1 : queue'[h][i] = q[i + 1]
      /\ Head(q) = q[1] /\ q[1] \in Item
  <2> HIDE DEF q
  <2>1. q \in Seq(Item) /\ q # <<>> /\ queue'[h] = Tail(q)
    BY <1>1, <1>2
  <2>2. Tail(q) \in Seq(Item) /\ Len(Tail(q)) = Len(q) - 1 /\ Len(q) \in Nat /\ Len(q) > 0
    BY <2>1
  <2>3. \A i \in 1 .. Len(q) - 1 : Tail(q)[i] = q[i + 1]
    BY <2>1, <2>2
  <2>4. Head(q) = q[1] /\ q[1] \in Item /\ DOMAIN q = 1 .. Len(q)
    BY <2>1, <2>2
  <2>5. DOMAIN Tail(q) = 1 .. Len(q) - 1
    BY <2>2
  <2> QED BY <2>1, <2>2, <2>3, <2>4, <2>5
<1>4. \A v \in Writers : HoldsLine(v, h)' => v = w /\ hand'[w] = q[1] /\ q[1].kind = "line"
  <2> SUFFICES ASSUME NEW v \in Writers, HoldsLine(v, h)'
               PROVE  v = w /\ hand'[w] = q[1] /\ q[1].kind = "line"
    OBVIOUS
  <2>1. v = w
    <3>1. wpc'[v] = "handle" /\ wqueue[v] = h
      BY <1>1 DEF HoldsLine
    <3>2. CASE v # w
      <4>1. wpc[v] = "handle"
        BY <3>1, <3>2 DEF Take, TypeOK, WriterTypeOK
      <4> QED BY <1>1, <3>1, <4>1 DEF OneWriter
    <3> QED BY <3>2
  <2>2. wpc'[w] = "handle" /\ hand'[w].kind = "line"
    BY <2>1 DEF HoldsLine
  <2>3. q[1].kind # "sentinel"
    BY <1>3, <2>2 DEF Take, TypeOK, WriterTypeOK
  <2>4. hand'[w] = q[1]
    BY <1>3, <2>3 DEF Take, TypeOK, WriterTypeOK
  <2> QED BY <2>1, <2>2, <2>4
<1>5. StagedAt(h)
  BY <1>1 DEF Staged
<1>6. \A i \in QueuedLines(h)' :
        i \in 1 .. Len(q) - 1 /\ i + 1 \in QueuedLines(h) /\ queue'[h][i] = q[i + 1]
  <2> SUFFICES ASSUME NEW i \in QueuedLines(h)'
               PROVE  i \in 1 .. Len(q) - 1 /\ i + 1 \in QueuedLines(h)
                      /\ queue'[h][i] = q[i + 1]
    OBVIOUS
  <2>1. i \in 1 .. Len(q) - 1 /\ queue'[h][i].kind = "line"
    BY <1>1, <1>3 DEF QueuedLines
  <2>2. queue'[h][i] = q[i + 1] /\ i + 1 \in 1 .. Len(q)
    BY <1>3, <2>1
  <2> QED BY <1>3, <2>1, <2>2 DEF QueuedLines
<1>7. q[1].kind = "line" => 1 \in QueuedLines(h)
  BY <1>3 DEF QueuedLines
<1>a. \A i, j \in QueuedLines(h) : i < j => q[i].n < q[j].n
  BY <1>5 DEF StagedAt
<1>b. \A i \in QueuedLines(h)' : q[1].kind = "line" => q[1].n < queue'[h][i].n
  <2> SUFFICES ASSUME NEW i \in QueuedLines(h)', q[1].kind = "line"
               PROVE  q[1].n < queue'[h][i].n
    OBVIOUS
  <2>1. 1 < i + 1 /\ i + 1 \in QueuedLines(h) /\ queue'[h][i] = q[i + 1]
    BY <1>3, <1>6
  <2> QED BY <1>7, <1>a, <2>1
<1> HIDE DEF q
<1>8. StagedAt(h)'
  <2>0. tickets'[h] = tickets[h] /\ stream' = stream
    BY <1>1
  <2>1. \A i \in QueuedLines(h)' : queue'[h][i].n <= tickets'[h]
    BY <2>0, <1>5, <1>6 DEF StagedAt, q
  <2>2. \A i, j \in QueuedLines(h)' : i < j => queue'[h][i].n < queue'[h][j].n
    <3> SUFFICES ASSUME NEW i \in QueuedLines(h)', NEW j \in QueuedLines(h)', i < j
                 PROVE  queue'[h][i].n < queue'[h][j].n
      OBVIOUS
    <3>1. i + 1 < j + 1
      BY <1>3, <1>6
    <3> QED BY <1>6, <1>a, <3>1
  <2>3. \A v \in Writers : HoldsLine(v, h)' =>
          /\ hand'[v].n <= tickets'[h]
          /\ \A i \in QueuedLines(h)' : hand'[v].n < queue'[h][i].n
    BY <2>0, <1>4, <1>5, <1>7, <1>b DEF StagedAt, q
  <2>4. \A k \in DOMAIN stream' : OnStream(k, h)' =>
          /\ stream'[k].n <= tickets'[h]
          /\ \A i \in QueuedLines(h)' : stream'[k].n < queue'[h][i].n
          /\ \A v \in Writers : HoldsLine(v, h)' => stream'[k].n < hand'[v].n
    <3> SUFFICES ASSUME NEW k \in DOMAIN stream, OnStream(k, h)
                 PROVE  /\ stream[k].n <= tickets[h]
                        /\ \A i \in QueuedLines(h)' : stream[k].n < queue'[h][i].n
                        /\ \A v \in Writers : HoldsLine(v, h)' => stream[k].n < hand'[v].n
      BY <2>0 DEF OnStream
    <3>1. stream[k].n <= tickets[h] /\ \A i \in QueuedLines(h) : stream[k].n < q[i].n
      BY <1>5 DEF StagedAt, q
    <3> QED BY <1>4, <1>6, <1>7, <3>1
  <2> QED BY <2>1, <2>2, <2>3, <2>4 DEF StagedAt
<1>9. \A g \in Pipelines : g # h => StagedAt(g)'
  <2> SUFFICES ASSUME NEW g \in Pipelines, g # h PROVE StagedAt(g)'
    OBVIOUS
  <2>1. queue'[g] = queue[g] /\ UNCHANGED <<tickets, stream, wqueue>>
    BY <1>1 DEF TypeOK, PipeTypeOK
  <2>2. \A v \in Writers : HoldsLine(v, g)' => HoldsLine(v, g) /\ hand'[v] = hand[v]
    BY <1>1 DEF HoldsLine, Take, TypeOK, WriterTypeOK
  <2> QED BY <2>1, <2>2 DEF Staged, StagedAt, QueuedLines, OnStream
<1>10. InOrder'
  BY <1>1 DEF InOrder
<1> QED BY <1>8, <1>9, <1>10 DEF Staged

\* The line that is written was in the only hand on its pipeline.
LEMMA WriteKeepsOrder ==
  ASSUME TypeOK, Shape, OneWriter, Staged, InOrder, NEW w \in Writers, WriteLine(w),
         NEW h \in Pipelines, h = wqueue[w]
  PROVE  Staged' /\ InOrder'
<1> DEFINE line == [kind |-> "line", on |-> h, n |-> hand[w].n]
           notice == [kind |-> "note", on |-> h, n |-> Delta(w)]
           m == Len(stream)
<1>1. HoldsLine(w, h) /\ StagedAt(h)
      /\ UNCHANGED <<queue, tickets, wqueue>>
  BY DEF WriteLine, HoldsLine, Staged
<1>2. \A g \in Pipelines, v \in Writers :
        HoldsLine(v, g)' => HoldsLine(v, g) /\ g # h /\ hand'[v] = hand[v]
  <2> SUFFICES ASSUME NEW g \in Pipelines, NEW v \in Writers, HoldsLine(v, g)'
               PROVE  HoldsLine(v, g) /\ g # h /\ hand'[v] = hand[v]
    OBVIOUS
  <2>1. v # w
    BY DEF HoldsLine, WriteLine, TypeOK, WriterTypeOK
  <2>2. HoldsLine(v, g) /\ hand'[v] = hand[v]
    BY <2>1 DEF HoldsLine, WriteLine, TypeOK, WriterTypeOK
  <2>3. g # h
    BY <1>1, <2>1, <2>2 DEF HoldsLine, OneWriter
  <2> QED BY <2>2, <2>3
<1>3. stream \in Seq(Entry) /\ m \in Nat /\ DOMAIN stream = 1 .. m
  BY DEF TypeOK, SinkTypeOK
<1>4. stream' = Append(stream, line) \/ stream' = Append(Append(stream, line), notice)
  BY DEF WriteLine
<1> HIDE DEF m
<1>5. /\ line.kind = "line" /\ line.on = h /\ line.n = hand[w].n
      /\ notice.kind = "note"
  OBVIOUS
<1> HIDE DEF line, notice
<1>6. \A k \in DOMAIN stream' :
        \/ k \in 1 .. m /\ stream'[k] = stream[k]
        \/ k = m + 1 /\ stream'[k] = line
        \/ k = m + 2 /\ stream'[k] = notice
  <2>1. CASE stream' = Append(stream, line)
    <3>1. DOMAIN stream' = 1 .. m + 1
      BY <1>3, <2>1 DEF m
    <3> QED BY <1>3, <2>1, <3>1 DEF m
  <2>2. CASE stream' = Append(Append(stream, line), notice)
    <3> DEFINE s == Append(stream, line)
    <3>1. /\ Len(s) = m + 1 /\ DOMAIN s = 1 .. m + 1
          /\ \A k \in 1 .. m : s[k] = stream[k]
          /\ s[m + 1] = line
      BY <1>3 DEF m
    <3>2. s \in Seq(Entry \cup {line})
      BY <1>3
    <3> HIDE DEF s
    <3>3. DOMAIN stream' = 1 .. m + 2 /\ stream'[m + 2] = notice
          /\ \A k \in 1 .. m + 1 : stream'[k] = s[k]
      BY <1>3, <2>2, <3>1, <3>2 DEF s
    <3>4. \A k \in 1 .. m : k \in 1 .. m + 1 /\ stream'[k] = stream[k]
      BY <1>3, <3>1, <3>3
    <3>5. stream'[m + 1] = line
      BY <1>3, <3>1, <3>3
    <3>6. \A k \in 1 .. m + 2 : k \in 1 .. m \/ k = m + 1 \/ k = m + 2
      BY <1>3
    <3> QED BY <3>3, <3>4, <3>5, <3>6
  <2> QED BY <1>4, <2>1, <2>2
<1>7. hand[w].n <= tickets[h] /\ (\A i \in QueuedLines(h) : hand[w].n < queue[h][i].n)
      /\ \A k \in 1 .. m : OnStream(k, h) => stream[k].n < hand[w].n
  BY <1>1, <1>3 DEF StagedAt
<1>8. ASSUME NEW g \in Pipelines PROVE StagedAt(g)'
  <2>1. queue'[g] = queue[g] /\ tickets'[g] = tickets[g] /\ QueuedLines(g)' = QueuedLines(g)
    BY <1>1 DEF QueuedLines
  <2>2. StagedAt(g)
    BY DEF Staged
  <2>3. \A k \in DOMAIN stream' : OnStream(k, g)' =>
          /\ stream'[k].n <= tickets[g]
          /\ \A i \in QueuedLines(g) : stream'[k].n < queue[g][i].n
          /\ \A v \in Writers : HoldsLine(v, g)' => stream'[k].n < hand'[v].n
    <3> SUFFICES ASSUME NEW k \in DOMAIN stream', OnStream(k, g)'
                 PROVE  /\ stream'[k].n <= tickets[g]
                        /\ \A i \in QueuedLines(g) : stream'[k].n < queue[g][i].n
                        /\ \A v \in Writers : HoldsLine(v, g)' => stream'[k].n < hand'[v].n
      OBVIOUS
    <3>1. CASE k \in 1 .. m /\ stream'[k] = stream[k]
      BY <1>2, <1>3, <2>2, <3>1 DEF StagedAt, OnStream
    <3>2. CASE stream'[k] = line
      <4>1. g = h
        BY <1>5, <3>2 DEF OnStream
      <4> QED BY <1>2, <1>5, <1>7, <3>2, <4>1
    <3>3. CASE stream'[k] = notice
      BY <1>5, <3>3 DEF OnStream
    <3> QED BY <1>6, <3>1, <3>2, <3>3
  <2> QED BY <1>2, <2>1, <2>2, <2>3 DEF StagedAt
<1>9. InOrder'
  <2> SUFFICES ASSUME NEW i \in DOMAIN stream', NEW j \in DOMAIN stream', i < j,
                      stream'[i].kind = "line", stream'[j].kind = "line",
                      stream'[i].on = stream'[j].on
               PROVE  stream'[i].n < stream'[j].n
    BY DEF InOrder
  <2>1. CASE i \in 1 .. m /\ stream'[i] = stream[i] /\ j \in 1 .. m /\ stream'[j] = stream[j]
    BY <1>3, <2>1 DEF InOrder
  <2>2. CASE i \in 1 .. m /\ stream'[i] = stream[i] /\ j = m + 1 /\ stream'[j] = line
    BY <1>5, <1>7, <2>2 DEF OnStream
  <2> QED BY <1>3, <1>5, <1>6, <2>1, <2>2
<1> QED BY <1>8, <1>9 DEF Staged

\* No step disturbs the order of the tickets.
LEMMA StagedKept ==
  ASSUME TypeOK, Shape, OneWriter, Staged, InOrder, [Next]_vars
  PROVE  Staged' /\ InOrder'
<1>1. ASSUME NEW p \in Producers, Enqueue(p)
      PROVE  Staged' /\ InOrder'
  <2>1. ppc[p] # "idle"
    BY <1>1 DEF Enqueue
  <2>2. via[p] \in Pipelines /\ Line(via[p], p) \in Item
    BY <2>1, ViaHandler, LineIsItem
  <2>3. Line(via[p], p).kind = "line" /\ Line(via[p], p).n = tickets[via[p]] + 1
    BY DEF Line
  <2>4. queue' = [queue EXCEPT ![via[p]] = Append(queue[via[p]], Line(via[p], p))]
        /\ UNCHANGED <<wpc, wqueue, hand, stream>>
    BY <1>1 DEF Enqueue
  <2>5. tickets'[via[p]] = tickets[via[p]] + 1
        /\ \A g \in Pipelines : g # via[p] => tickets'[g] = tickets[g]
    BY <1>1, <2>2 DEF Enqueue, TypeOK, PipeTypeOK
  <2> QED BY <2>2, <2>3, <2>4, <2>5, AppendKeepsOrder
<1>2. ASSUME NEW f \in Flushers, PutMarker(f)
      PROVE  Staged' /\ InOrder'
  <2>1. fon[f] \in Pipelines /\ Marker(f) \in Item
    BY <1>2, MarkerIsItem DEF PutMarker, Shape, FlushShape, TypeOK, StateTypeOK
  <2>2. Marker(f).kind # "line"
    BY DEF Marker
  <2>3. queue' = [queue EXCEPT ![fon[f]] = Append(queue[fon[f]], Marker(f))]
        /\ UNCHANGED <<wpc, wqueue, hand, stream, tickets>>
    BY <1>2 DEF PutMarker
  <2> QED BY <2>1, <2>2, <2>3, AppendKeepsOrder
<1>3. ASSUME NEW w \in Writers, Take(w) \/ WriteLine(w)
      PROVE  Staged' /\ InOrder'
  <2>1. wqueue[w] \in Pipelines
    BY <1>3 DEF Take, WriteLine, Shape, WriterShape, TypeOK, StateTypeOK
  <2> QED BY <1>3, <2>1, TakeKeepsOrder, WriteKeepsOrder
<1>4. LineFrame => Staged' /\ InOrder'
  BY FrameKeepsOrder
<1>5. CASE UNCHANGED vars
  BY <1>4, <1>5 DEF LineFrame
<1> QED
  BY <1>1, <1>2, <1>3, <1>4, <1>5, EmitLineFrame, WriteLineFrame, FlushLineFrame
  DEF Next, Finished

\* LP-009: lines reach the stream in the order in which they entered the queue, each once.
THEOREM Ordered == Spec => []InOrder
<1>1. Init => Staged /\ InOrder
  BY DEF Init, Staged, StagedAt, InOrder, QueuedLines, HoldsLine, OnStream
<1>2. TypeOK /\ Shape /\ OneWriter /\ Staged /\ InOrder /\ [Next]_vars
      => (Staged /\ InOrder)'
  BY StagedKept
<1> QED BY <1>1, <1>2, Typed, SingleWriter, PTL DEF Spec

-----------------------------------------------------------------------------
(* What becomes of the records.                                            *)

\* What is shown of every reachable state so far.
Sound == TypeOK /\ Shape /\ OneWriter /\ Staged /\ InOrder

LEMMA AlwaysSound == Spec => []Sound
<1>1. Init => Staged /\ InOrder
  BY DEF Init, Staged, StagedAt, InOrder, QueuedLines, HoldsLine, OnStream
<1>2. TypeOK /\ Shape /\ OneWriter /\ Staged /\ InOrder /\ [Next]_vars
      => (Staged /\ InOrder)'
  BY StagedKept
<1>3. TypeOK /\ Shape /\ OneWriter /\ Staged /\ InOrder => Sound
  BY DEF Sound
<1> QED BY <1>1, <1>2, <1>3, Typed, SingleWriter, PTL DEF Spec

-----------------------------------------------------------------------------
(* Where the lines of a queue are.                                         *)

\* A queue is a sequence of items at the positions 1 to its length.
LEMMA Positions ==
  ASSUME TypeOK, NEW h \in Pipelines
  PROVE  /\ queue[h] \in Seq(Item) /\ Len(queue[h]) \in Nat
         /\ DOMAIN queue[h] = 1 .. Len(queue[h])
         /\ \A i \in DOMAIN queue[h] : queue[h][i] \in Item
         /\ QueuedLines(h) \in SUBSET (1 .. Len(queue[h]))
<1>1. queue[h] \in Seq(Item)
  BY DEF TypeOK, PipeTypeOK
<1>2. /\ Len(queue[h]) \in Nat
      /\ DOMAIN queue[h] = 1 .. Len(queue[h])
      /\ \A i \in DOMAIN queue[h] : queue[h][i] \in Item
  BY <1>1
<1> QED BY <1>1, <1>2 DEF QueuedLines

\* put: the item comes behind the others.
LEMMA AppendPositions ==
  ASSUME TypeOK, NEW h \in Pipelines, NEW x \in Item,
         queue' = [queue EXCEPT ![h] = Append(queue[h], x)]
  PROVE  /\ \A g \in Pipelines : g # h => queue'[g] = queue[g]
         /\ DOMAIN queue'[h] = 1 .. Len(queue[h]) + 1
         /\ queue'[h][Len(queue[h]) + 1] = x
         /\ \A i \in 1 .. Len(queue[h]) : queue'[h][i] = queue[h][i]
         /\ QueuedLines(h)' = QueuedLines(h) \cup
              (IF x.kind = "line" THEN {Len(queue[h]) + 1} ELSE {})
         /\ Len(queue[h]) + 1 \notin QueuedLines(h)
<1> DEFINE q == queue[h]
           m == Len(queue[h])
<1>1. q \in Seq(Item) /\ m \in Nat /\ queue'[h] = Append(q, x)
      /\ \A g \in Pipelines : g # h => queue'[g] = queue[g]
  BY Positions DEF TypeOK, PipeTypeOK
<1>2. /\ DOMAIN q = 1 .. m /\ DOMAIN queue'[h] = 1 .. m + 1
      /\ queue'[h][m + 1] = x
      /\ \A i \in 1 .. m : queue'[h][i] = q[i]
  BY <1>1
<1>3. m + 1 \notin QueuedLines(h)
  BY <1>1, <1>2 DEF QueuedLines
<1>4. \A i : i \in QueuedLines(h)' <=>
               i \in QueuedLines(h) \/ (i = m + 1 /\ x.kind = "line")
  <2> HIDE DEF q, m
  <2>1. \A i : i \in QueuedLines(h)' <=> i \in 1 .. m + 1 /\ queue'[h][i].kind = "line"
    BY <1>2 DEF QueuedLines
  <2>2. \A i : i \in QueuedLines(h) <=> i \in 1 .. m /\ q[i].kind = "line"
    BY <1>2 DEF QueuedLines, q
  <2>3. \A i : i \in 1 .. m + 1 <=> i \in 1 .. m \/ i = m + 1
    BY <1>1
  <2>4. m + 1 \notin 1 .. m
    BY <1>1
  <2> QED BY <1>2, <2>1, <2>2, <2>3, <2>4
<1>5. QueuedLines(h)' = QueuedLines(h) \cup (IF x.kind = "line" THEN {m + 1} ELSE {})
  BY <1>4
<1> QED BY <1>1, <1>2, <1>3, <1>5

\* put of a line.
LEMMA LinePositions ==
  ASSUME TypeOK, NEW h \in Pipelines, NEW x \in Item, x.kind = "line",
         queue' = [queue EXCEPT ![h] = Append(queue[h], x)]
  PROVE  /\ QueuedLines(h)' = QueuedLines(h) \cup {Len(queue[h]) + 1}
         /\ Len(queue[h]) + 1 \notin QueuedLines(h)
<1>1. QueuedLines(h)' = QueuedLines(h) \cup (IF x.kind = "line" THEN {Len(queue[h]) + 1} ELSE {})
  BY AppendPositions
<1>2. Len(queue[h]) + 1 \notin QueuedLines(h)
  BY AppendPositions
<1> QED BY <1>1, <1>2

\* get: every item moves up, and the oldest one is out.
LEMMA TakePositions ==
  ASSUME TypeOK, Shape, NEW w \in Writers, Take(w), NEW h \in Pipelines, h = wqueue[w]
  PROVE  /\ \A g \in Pipelines : g # h => queue'[g] = queue[g]
         /\ Len(queue[h]) > 0
         /\ DOMAIN queue'[h] = 1 .. Len(queue[h]) - 1
         /\ \A i \in 1 .. Len(queue[h]) - 1 : queue'[h][i] = queue[h][i + 1]
         /\ Head(queue[h]) = queue[h][1] /\ queue[h][1] \in Item
         /\ QueuedLines(h)' = {i \in 1 .. Len(queue[h]) - 1 : i + 1 \in QueuedLines(h)}
         /\ 1 \in QueuedLines(h) <=> queue[h][1].kind = "line"
<1> DEFINE q == queue[h]
           m == Len(queue[h])
<1>1. q \in Seq(Item) /\ m \in Nat /\ queue'[h] = Tail(q) /\ q # <<>>
      /\ \A g \in Pipelines : g # h => queue'[g] = queue[g]
  BY Positions DEF TypeOK, PipeTypeOK, Take
<1> HIDE DEF q
<1>2. /\ m > 0 /\ DOMAIN q = 1 .. m
      /\ Head(q) = q[1] /\ q[1] \in Item
  BY <1>1 DEF q
<1>3. Tail(q) \in Seq(Item) /\ Len(Tail(q)) = m - 1
  BY <1>1 DEF q
<1>4. DOMAIN Tail(q) = 1 .. m - 1 /\ \A i \in 1 .. m - 1 : Tail(q)[i] = q[i + 1]
  BY <1>1, <1>2, <1>3 DEF q
<1> HIDE DEF m
<1>5. \A i : i \in QueuedLines(h) <=> i \in 1 .. m /\ q[i].kind = "line"
  BY <1>2 DEF QueuedLines, q
<1>6. \A i : i \in QueuedLines(h)' <=> i \in 1 .. m - 1 /\ queue'[h][i].kind = "line"
  BY <1>1, <1>4 DEF QueuedLines
<1>7. \A i \in 1 .. m - 1 : i + 1 \in 1 .. m
  BY <1>1 DEF m
<1>8. QueuedLines(h)' = {i \in 1 .. m - 1 : i + 1 \in QueuedLines(h)}
  BY <1>1, <1>4, <1>5, <1>6, <1>7
<1>9. 1 \in 1 .. m
  BY <1>1, <1>2 DEF m
<1> QED BY <1>1, <1>2, <1>4, <1>5, <1>8, <1>9 DEF q, m

-----------------------------------------------------------------------------
(* How many lines below WARNING a queue holds.                             *)

LowQueued(h)   == {i \in QueuedLines(h) : queue[h][i].level = "low"}
LowOffering(h) == {p \in InEmit(h) : ppc[p] = "offer" /\ level[p] = "low"}
LowBound(h) == Cardinality(LowQueued(h)) + Cardinality(LowOffering(h))
               <= Reserve - 1 + Cardinality(Producers)

\* Only the policy "block" puts without asking how full the queue is.
Policy == \A p \in Producers : ppc[p] = "put" => Overflow = "block"

LowInv == Policy /\ (Overflow = "drop" => \A h \in Pipelines : LowBound(h))

\* The counts are numbers, and neither is more than there are slots or threads.
LowSized == \A h \in Pipelines :
  /\ Cardinality(LowQueued(h)) \in Nat /\ Cardinality(LowOffering(h)) \in Nat
  /\ IsFiniteSet(LowQueued(h)) /\ IsFiniteSet(LowOffering(h))
  /\ Cardinality(LowQueued(h)) <= Len(queue[h])
  /\ Cardinality(LowOffering(h)) <= Cardinality(Producers)

LEMMA LowFinite == TypeOK => LowSized
<1> SUFFICES ASSUME TypeOK, NEW h \in Pipelines
             PROVE  /\ IsFiniteSet(LowQueued(h)) /\ IsFiniteSet(LowOffering(h))
                    /\ Cardinality(LowQueued(h)) <= Len(queue[h])
                    /\ Cardinality(LowOffering(h)) <= Cardinality(Producers)
  BY FS_CardinalityType DEF LowSized
<1>1. Len(queue[h]) \in Nat /\ LowQueued(h) \in SUBSET (1 .. Len(queue[h]))
  BY Positions DEF LowQueued
<1>2. /\ IsFiniteSet(1 .. Len(queue[h]))
      /\ Cardinality(1 .. Len(queue[h])) = Len(queue[h])
  BY <1>1, FS_Interval
<1>3. IsFiniteSet(LowQueued(h)) /\ Cardinality(LowQueued(h)) <= Len(queue[h])
  BY <1>1, <1>2, FS_Subset
<1>4. LowOffering(h) \in SUBSET Producers
  BY DEF LowOffering, InEmit
<1>5. IsFiniteSet(LowOffering(h)) /\ Cardinality(LowOffering(h)) <= Cardinality(Producers)
  BY <1>4, FS_Subset, ConstantsAssumption
<1> QED BY <1>3, <1>5

LEMMA LowFiniteNext == TypeOK' => LowSized'
BY LowFinite, PTL

LEMMA Limits == Reserve \in Nat /\ Cardinality(Producers) \in Nat
BY ConstantsAssumption, FS_CardinalityType DEF Reserve

\* A step after which nothing more is in a queue or about to be offered to it.
LowFrame ==
  /\ \A h \in Pipelines : Cardinality(LowQueued(h)') <= Cardinality(LowQueued(h))
  /\ \A p \in Producers :
       /\ ppc'[p] = "put" => Overflow = "block"
       /\ ppc'[p] = "offer" =>
            ppc[p] = "offer" /\ via'[p] = via[p] /\ level'[p] = level[p]

LEMMA LowFrameKeeps ==
  ASSUME TypeOK, TypeOK', LowInv, LowFrame
  PROVE  LowInv'
<1>1. ASSUME NEW h \in Pipelines, Overflow = "drop" PROVE LowBound(h)'
  <2>1. LowOffering(h)' \in SUBSET LowOffering(h)
    BY DEF LowOffering, InEmit, LowFrame
  <2>2. Cardinality(LowOffering(h)') <= Cardinality(LowOffering(h))
    BY <2>1, LowFinite, FS_Subset DEF LowSized
  <2>3. Cardinality(LowQueued(h)') <= Cardinality(LowQueued(h))
    BY DEF LowFrame
  <2>4. LowBound(h)
    BY <1>1 DEF LowInv
  <2>5. /\ Cardinality(LowQueued(h)) \in Nat /\ Cardinality(LowOffering(h)) \in Nat
        /\ Cardinality(LowQueued(h)') \in Nat /\ Cardinality(LowOffering(h)') \in Nat
    BY LowFinite, LowFiniteNext DEF LowSized
  <2> QED BY <2>2, <2>3, <2>4, <2>5, Limits DEF LowBound
<1>2. Policy'
  BY DEF Policy, LowFrame
<1> QED BY <1>1, <1>2 DEF LowInv

\* The look at qsize() lets a record below WARNING through only into the first
\* nine tenths, whoever else is between the look and put_nowait.
LEMMA CheckRoomLow ==
  ASSUME TypeOK, Shape, TypeOK', LowInv, NEW p \in Producers, CheckRoom(p)
  PROVE  LowInv'
<1>1. ppc[p] = "room" /\ via[p] \in Pipelines /\ queue' = queue /\ via' = via /\ level' = level
      /\ ppc' = [ppc EXCEPT ![p] = IF Len(queue[via[p]]) >= Threshold(level[p])
                                   THEN "drop" ELSE "offer"]
  BY ViaHandler DEF CheckRoom, Goto
<1>2. Policy'
  BY <1>1 DEF LowInv, Policy, TypeOK, ProducerTypeOK
<1>3. ASSUME NEW h \in Pipelines, Overflow = "drop" PROVE LowBound(h)'
  <2>1. LowQueued(h)' = LowQueued(h)
    BY <1>1 DEF LowQueued, QueuedLines
  <2>2. CASE ppc'[p] = "offer" /\ level[p] = "low" /\ via[p] = h
    <3>1. Len(queue[h]) < Reserve /\ Len(queue[h]) \in Nat
      BY <1>1, <2>2, Positions, Limits DEF Threshold, TypeOK, ProducerTypeOK
    <3>2. Cardinality(LowQueued(h)') <= Len(queue[h])
      BY <2>1, LowFinite DEF LowSized
    <3>3. Cardinality(LowOffering(h)') <= Cardinality(Producers)
      BY LowFiniteNext DEF LowSized
    <3>4. Cardinality(LowQueued(h)') \in Nat /\ Cardinality(LowOffering(h)') \in Nat
      BY LowFiniteNext DEF LowSized
    <3> QED BY <3>1, <3>2, <3>3, <3>4, Limits DEF LowBound
  <2>3. CASE ~ (ppc'[p] = "offer" /\ level[p] = "low" /\ via[p] = h)
    <3>1. LowOffering(h)' \in SUBSET LowOffering(h)
      BY <1>1, <2>3 DEF LowOffering, InEmit, TypeOK, ProducerTypeOK
    <3>2. Cardinality(LowOffering(h)') <= Cardinality(LowOffering(h))
      BY <3>1, LowFinite, FS_Subset DEF LowSized
    <3>3. LowBound(h)
      BY <1>3 DEF LowInv
    <3>4. Cardinality(LowQueued(h)) \in Nat /\ Cardinality(LowOffering(h)) \in Nat
          /\ Cardinality(LowOffering(h)') \in Nat
      BY LowFinite, LowFiniteNext DEF LowSized
    <3> QED BY <2>1, <3>2, <3>3, <3>4, Limits DEF LowBound
  <2> QED BY <2>2, <2>3
<1> QED BY <1>2, <1>3 DEF LowInv

\* put_nowait: a record below WARNING that was offered is in the queue instead.
LEMMA EnqueueLow ==
  ASSUME TypeOK, Shape, TypeOK', LowInv, NEW p \in Producers, Enqueue(p)
  PROVE  LowInv'
<1> DEFINE g == via[p]
           x == Line(g, p)
<1>1. ppc[p] \in {"put", "offer"} /\ g \in Pipelines /\ via' = via /\ level' = level
      /\ queue' = [queue EXCEPT ![g] = Append(queue[g], x)]
      /\ ppc' = [ppc EXCEPT ![p] = "idle"]
  BY ViaHandler DEF Enqueue, Goto
<1>2. x \in Item /\ x.kind = "line" /\ x.level = level[p]
  BY <1>1, LineIsItem DEF Line
<1> HIDE DEF x
<1>3. Policy'
  BY <1>1 DEF LowInv, Policy, TypeOK, ProducerTypeOK
<1>4. ASSUME NEW h \in Pipelines, Overflow = "drop" PROVE LowBound(h)'
  <2>1. ppc[p] = "offer"
    BY <1>1, <1>4 DEF LowInv, Policy
  <2>2. LowBound(h)
    BY <1>4 DEF LowInv
  <2>3. /\ Cardinality(LowQueued(h)) \in Nat /\ Cardinality(LowOffering(h)) \in Nat
        /\ IsFiniteSet(LowQueued(h)) /\ IsFiniteSet(LowOffering(h))
    BY LowFinite DEF LowSized
  <2>4. LowOffering(h)' = LowOffering(h) \ {p}
    BY <1>1, ConstantsAssumption DEF LowOffering, InEmit, TypeOK, ProducerTypeOK
  <2>5. CASE h # g
    <3>1. LowQueued(h)' = LowQueued(h)
      BY <1>1, <1>2, <2>5, AppendPositions DEF LowQueued, QueuedLines
    <3>2. Cardinality(LowOffering(h)') <= Cardinality(LowOffering(h))
      BY <2>3, <2>4, FS_Subset
    <3>3. Cardinality(LowOffering(h)') \in Nat
      BY LowFiniteNext DEF LowSized
    <3> QED BY <2>2, <2>3, <3>1, <3>2, <3>3, Limits DEF LowBound
  <2>6. CASE h = g
    <3> DEFINE new == Len(queue[h]) + 1
    <3>1. /\ QueuedLines(h)' = QueuedLines(h) \cup {new} /\ new \notin QueuedLines(h)
          /\ queue'[h][new] = x /\ \A i \in 1 .. Len(queue[h]) : queue'[h][i] = queue[h][i]
      BY <1>1, <1>2, <2>6, AppendPositions
    <3>2. QueuedLines(h) \in SUBSET (1 .. Len(queue[h]))
      BY Positions
    <3> HIDE DEF new
    <3>3. CASE level[p] = "low"
      <4>1. LowQueued(h)' = LowQueued(h) \cup {new} /\ new \notin LowQueued(h)
        BY <1>2, <3>1, <3>2, <3>3 DEF LowQueued
      <4>2. Cardinality(LowQueued(h)') = Cardinality(LowQueued(h)) + 1
        BY <2>3, <4>1, Added
      <4>3. p \in LowOffering(h)
        BY <2>1, <2>6, <3>3 DEF LowOffering, InEmit
      <4>4. Cardinality(LowOffering(h)') = Cardinality(LowOffering(h)) - 1
        BY <2>3, <2>4, <4>3, Removed
      <4> QED BY <2>2, <2>3, <4>2, <4>4, Limits DEF LowBound
    <3>4. CASE level[p] # "low"
      <4>1. LowQueued(h)' = LowQueued(h)
        BY <1>2, <3>1, <3>2, <3>4 DEF LowQueued
      <4>2. Cardinality(LowOffering(h)') <= Cardinality(LowOffering(h))
        BY <2>3, <2>4, FS_Subset
      <4>3. Cardinality(LowOffering(h)') \in Nat
        BY LowFiniteNext DEF LowSized
      <4> QED BY <2>2, <2>3, <4>1, <4>2, <4>3, Limits DEF LowBound
    <3> QED BY <3>3, <3>4
  <2> QED BY <2>5, <2>6
<1> QED BY <1>3, <1>4 DEF LowInv

LEMMA TakeLow ==
  ASSUME TypeOK, Shape, LowInv, NEW w \in Writers, Take(w)
  PROVE  LowFrame
<1>1. wqueue[w] \in Pipelines
  BY DEF Take, Shape, WriterShape, TypeOK, StateTypeOK
<1>2. ASSUME NEW h \in Pipelines
      PROVE  Cardinality(LowQueued(h)') <= Cardinality(LowQueued(h))
  <2> DEFINE m == Len(queue[h])
  <2>1. Cardinality(LowQueued(h)) \in Nat
    BY LowFinite DEF LowSized
  <2>2. CASE h # wqueue[w]
    <3>1. LowQueued(h)' = LowQueued(h)
      BY <1>1, <2>2, TakePositions DEF LowQueued, QueuedLines
    <3> QED BY <2>1, <3>1
  <2>3. CASE h = wqueue[w]
    <3>1. /\ m > 0 /\ m \in Nat
          /\ \A i \in 1 .. m - 1 : queue'[h][i] = queue[h][i + 1]
          /\ QueuedLines(h)' = {i \in 1 .. m - 1 : i + 1 \in QueuedLines(h)}
          /\ QueuedLines(h) \in SUBSET (1 .. m)
      BY <2>3, TakePositions, Positions
    <3> HIDE DEF m
    <3>2. LowQueued(h)' = {i \in 1 .. m - 1 : i + 1 \in LowQueued(h)}
      BY <3>1 DEF LowQueued
    <3>3. LowQueued(h) \in SUBSET (1 .. m) /\ LowQueued(h)' \in SUBSET (1 .. m - 1)
      BY <3>1, <3>2 DEF LowQueued
    <3>4. Cardinality(LowQueued(h)') \in {Cardinality(LowQueued(h)) - 1, Cardinality(LowQueued(h))}
      BY <3>1, <3>2, <3>3, ShiftedSize
    <3> QED BY <2>1, <3>4
  <2> QED BY <2>2, <2>3
<1>3. ppc' = ppc /\ via' = via /\ level' = level
  BY DEF Take
<1> QED BY <1>2, <1>3 DEF LowFrame, LowInv, Policy

LEMMA PutMarkerLow ==
  ASSUME TypeOK, Shape, LowInv, NEW f \in Flushers, PutMarker(f)
  PROVE  LowFrame
<1>1. fon[f] \in Pipelines /\ Marker(f) \in Item /\ Marker(f).kind # "line"
      /\ queue' = [queue EXCEPT ![fon[f]] = Append(queue[fon[f]], Marker(f))]
      /\ UNCHANGED producerVars
  BY MarkerIsItem DEF PutMarker, Shape, FlushShape, TypeOK, StateTypeOK, Marker
<1>2. ASSUME NEW h \in Pipelines PROVE LowQueued(h)' = LowQueued(h)
  <2>1. QueuedLines(h)' = QueuedLines(h) /\ QueuedLines(h) \in SUBSET (1 .. Len(queue[h]))
        /\ \A i \in 1 .. Len(queue[h]) : queue'[h][i] = queue[h][i]
    <3>1. CASE h = fon[f]
      <4> DEFINE x == Marker(f)
      <4>1. x \in Item /\ x.kind # "line" /\ queue' = [queue EXCEPT ![h] = Append(queue[h], x)]
        BY <1>1, <3>1
      <4> HIDE DEF x
      <4>2. /\ QueuedLines(h)' = QueuedLines(h) \cup {}
            /\ \A i \in 1 .. Len(queue[h]) : queue'[h][i] = queue[h][i]
        BY <4>1, AppendPositions, Zenon
      <4> QED BY <4>2, Positions
    <3>2. CASE h # fon[f]
      BY <1>1, <3>2, AppendPositions, Positions DEF QueuedLines
    <3> QED BY <3>1, <3>2
  <2> QED BY <2>1 DEF LowQueued
<1> QED BY <1>1, <1>2, LowFinite DEF LowFrame, LowInv, Policy, LowSized

\* The other steps touch no queue and offer nothing.
LEMMA OtherLow ==
  ASSUME TypeOK, LowInv, queue' = queue,
         \A p \in Producers :
           /\ ppc'[p] = "put" => ppc[p] = "put" \/ Overflow = "block"
           /\ ppc'[p] = "offer" =>
                ppc[p] = "offer" /\ via'[p] = via[p] /\ level'[p] = level[p]
  PROVE  LowFrame
<1>1. \A h \in Pipelines : LowQueued(h)' = LowQueued(h)
  BY DEF LowQueued, QueuedLines
<1> QED BY <1>1, LowFinite DEF LowFrame, LowInv, Policy, LowSized

LEMMA EmitLow ==
  ASSUME TypeOK, LowInv, NEW p \in Producers, Emit(p), ~ Enqueue(p), ~ CheckRoom(p)
  PROVE  LowFrame
<1> USE OtherLow DEF TypeOK, ProducerTypeOK, Goto
<1>1. CASE Dispatch(p)
  BY <1>1 DEF Dispatch
<1>2. CASE SeeStarted(p) \/ StartedMeanwhile(p) \/ ClaimStart(p)
  BY <1>2 DEF SeeStarted, StartedMeanwhile, ClaimStart
<1>3. CASE CreateWriter(p)
  BY <1>3 DEF CreateWriter
<1>4. CASE LaunchWriter(p) \/ LaunchFails(p)
  BY <1>4 DEF LaunchWriter, LaunchFails
<1>5. CASE Prepare(p) \/ PrepareFails(p)
  BY <1>5 DEF Prepare, PrepareFails
<1>6. CASE OfferFull(p) \/ CountDrop(p)
  BY <1>6 DEF OfferFull, CountDrop
<1> QED BY <1>1, <1>2, <1>3, <1>4, <1>5, <1>6 DEF Emit

LEMMA WriteLow ==
  ASSUME TypeOK, LowInv, NEW w \in Writers, Write(w), ~ Take(w)
  PROVE  LowFrame
<1> USE OtherLow
<1>1. CASE HandleMarker(w) \/ WriteLine(w)
  BY <1>1 DEF HandleMarker, WriteLine
<1>2. CASE WriteFails(w) \/ FlushIfEmpty(w) \/ FlushFails(w)
  BY <1>2 DEF WriteFails, FlushIfEmpty, FlushFails
<1> QED BY <1>1, <1>2 DEF Write

LEMMA FlushLow ==
  ASSUME TypeOK, LowInv, NEW f \in Flushers, Flush(f), ~ PutMarker(f)
  PROVE  LowFrame
BY OtherLow DEF Flush, FlushCall, FlushReleased, FlushTimesOut

\* LP-007: at most as many lines below WARNING as there are threads get past the
\* ninety per cent, for any number of threads and any queue size.
THEOREM ReserveBounded == Spec => []LowLinesBounded
<1>1. Init => LowInv
  <2> SUFFICES ASSUME Init PROVE LowInv
    OBVIOUS
  <2>1. ASSUME NEW h \in Pipelines PROVE LowBound(h)
    <3>1. LowQueued(h) = {} /\ LowOffering(h) = {}
      <4>1. queue[h] = <<>> /\ DOMAIN queue[h] = {} /\ \A p \in Producers : ppc[p] = "idle"
        BY DEF Init
      <4>2. QueuedLines(h) = {} /\ InEmit(h) = {}
        BY <4>1 DEF QueuedLines, InEmit
      <4> QED BY <4>2 DEF LowQueued, LowOffering
    <3>2. Cardinality({}) = 0 /\ Reserve >= 1
      BY FS_EmptySet, ConstantsAssumption DEF Reserve
    <3> QED BY <3>1, <3>2, Limits DEF LowBound
  <2> QED BY <2>1 DEF LowInv, Policy, Init
<1>2. TypeOK /\ Shape /\ (TypeOK /\ Shape)' /\ LowInv /\ [Next]_vars => LowInv'
  <2> SUFFICES ASSUME TypeOK, Shape, TypeOK', LowInv, [Next]_vars PROVE LowInv'
    OBVIOUS
  <2>1. ASSUME NEW p \in Producers, Emit(p) PROVE LowInv'
    BY <2>1, CheckRoomLow, EnqueueLow, EmitLow, LowFrameKeeps
  <2>2. ASSUME NEW w \in Writers, Write(w) PROVE LowInv'
    BY <2>2, TakeLow, WriteLow, LowFrameKeeps
  <2>3. ASSUME NEW f \in Flushers, Flush(f) PROVE LowInv'
    BY <2>3, PutMarkerLow, FlushLow, LowFrameKeeps
  <2>4. CASE UNCHANGED vars
    BY <2>4, OtherLow, LowFrameKeeps
  <2> QED BY <2>1, <2>2, <2>3, <2>4 DEF Next, Finished
<1>3. LowInv => LowLinesBounded
  BY DEF LowInv, LowBound, LowLinesBounded, LowQueued, LowOffering
<1> QED BY <1>1, <1>2, <1>3, Typed, PTL DEF Spec

-----------------------------------------------------------------------------
(* Where every record is.                                                  *)

Accounted(h) ==
  logged[h] <= Cardinality(InEmit(h)) + Cardinality(QueuedLines(h))
               + Cardinality(HeldTickets(h)) + Cardinality(WrittenTickets(h))
               + dropped[h]

\* The sets that are counted are finite: of threads, of slots and of tickets.
Sized == \A h \in Pipelines :
  /\ IsFiniteSet(InEmit(h)) /\ IsFiniteSet(QueuedLines(h))
  /\ IsFiniteSet(HeldTickets(h)) /\ IsFiniteSet(WrittenTickets(h))
  /\ Cardinality(InEmit(h)) \in Nat /\ Cardinality(QueuedLines(h)) \in Nat
  /\ Cardinality(HeldTickets(h)) \in Nat /\ Cardinality(WrittenTickets(h)) \in Nat

LEMMA AllSized == TypeOK /\ Shape /\ Staged => Sized
<1> SUFFICES ASSUME TypeOK, Shape, Staged, NEW h \in Pipelines
             PROVE  /\ IsFiniteSet(InEmit(h)) /\ IsFiniteSet(QueuedLines(h))
                    /\ IsFiniteSet(HeldTickets(h)) /\ IsFiniteSet(WrittenTickets(h))
  BY FS_CardinalityType DEF Sized
<1>1. IsFiniteSet(InEmit(h))
  BY FS_Subset, ConstantsAssumption DEF InEmit
<1>2. IsFiniteSet(QueuedLines(h))
  <2>1. Len(queue[h]) \in Int /\ QueuedLines(h) \in SUBSET (1 .. Len(queue[h]))
    BY Positions
  <2>2. IsFiniteSet(1 .. Len(queue[h]))
    BY <2>1, FS_Interval
  <2> QED BY <2>1, <2>2, FS_Subset
<1>3. tickets[h] \in Nat /\ IsFiniteSet(0 .. tickets[h])
  BY FS_Interval DEF TypeOK, PipeTypeOK
<1>4. HeldTickets(h) \in SUBSET (0 .. tickets[h])
  <2>1. \A w \in Writers : HoldsLine(w, h) => hand[w].n \in Nat /\ hand[w].n <= tickets[h]
    BY DEF HoldsLine, Shape, WriterShape, Item, Staged, StagedAt
  <2> QED BY <1>3, <2>1 DEF HeldTickets, HoldsLine
<1>5. WrittenTickets(h) \in SUBSET (0 .. tickets[h])
  <2>1. stream \in Seq(Entry)
    BY DEF TypeOK, SinkTypeOK
  <2>a. \A k \in 1 .. Len(stream) : k \in DOMAIN stream /\ stream[k] \in Entry
    BY <2>1
  <2>2. \A k \in 1 .. Len(stream) : k \in DOMAIN stream /\ stream[k].n \in Nat
    BY <2>a DEF Entry
  <2>3. \A k \in 1 .. Len(stream) : OnStream(k, h) => stream[k].n <= tickets[h]
    BY <2>2 DEF Staged, StagedAt
  <2> QED BY <1>3, <2>2, <2>3 DEF WrittenTickets, WrittenUpTo, OnStream
<1> QED BY <1>1, <1>2, <1>3, <1>4, <1>5, FS_Subset

LEMMA AllSizedNext == (TypeOK /\ Shape /\ Staged)' => Sized'
BY AllSized, PTL

\* The only hand on a pipeline is that of its writer.
OneHand == \A w \in Writers : \A h \in Pipelines : wpc[w] # "unmade" /\ wqueue[w] = h =>
  HeldTickets(h) = {n \in {hand[w].n} : wpc[w] = "handle" /\ hand[w].kind = "line"}

LEMMA AllOneHand == OneWriter => OneHand
BY DEF OneWriter, OneHand, HeldTickets

LEMMA AllOneHandNext == OneWriter' => OneHand'
BY AllOneHand, PTL

\* A record enters emit, goes on in it, or leaves it.
LEMMA InEmitChanges ==
  ASSUME TypeOK, Sized, NEW p \in Producers, ppc[p] # "idle", via' = via,
         NEW there, ppc' = [ppc EXCEPT ![p] = there], NEW h \in Pipelines
  PROVE  /\ there # "idle" => InEmit(h)' = InEmit(h)
         /\ there = "idle" /\ via[p] # h => InEmit(h)' = InEmit(h)
         /\ there = "idle" /\ via[p] = h => Cardinality(InEmit(h)') = Cardinality(InEmit(h)) - 1
<1>1. there # "idle" \/ via[p] # h => InEmit(h)' = InEmit(h)
  BY DEF InEmit, TypeOK, ProducerTypeOK
<1>2. ASSUME there = "idle", via[p] = h
      PROVE  Cardinality(InEmit(h)') = Cardinality(InEmit(h)) - 1
  <2>1. InEmit(h)' = InEmit(h) \ {p} /\ p \in InEmit(h)
    BY <1>2 DEF InEmit, TypeOK, ProducerTypeOK
  <2> QED BY <2>1, Removed DEF Sized
<1> QED BY <1>1, <1>2

\* A step that moves no line and puts none into or out of a hand.
LEMMA StillThere ==
  ASSUME queue' = queue, stream' = stream,
         \A w \in Writers :
           wpc[w] = "handle" \/ wpc'[w] = "handle" =>
             wpc'[w] = wpc[w] /\ hand'[w] = hand[w] /\ wqueue'[w] = wqueue[w]
  PROVE  \A h \in Pipelines : QueuedLines(h)' = QueuedLines(h)
           /\ HeldTickets(h)' = HeldTickets(h) /\ WrittenTickets(h)' = WrittenTickets(h)
BY DEF QueuedLines, HeldTickets, WrittenTickets, WrittenUpTo

LEMMA EmitAccounted ==
  ASSUME TypeOK, Shape, TypeOK', Sized, Sized', NEW p \in Producers, Emit(p),
         NEW h \in Pipelines, Accounted(h)
  PROVE  Accounted(h)'
<1> DEFINE E == Cardinality(InEmit(h))
           Q == Cardinality(QueuedLines(h))
           H == Cardinality(HeldTickets(h))
           W == Cardinality(WrittenTickets(h))
<1> USE DEF TypeOK, PipeTypeOK, WriterTypeOK, ProducerTypeOK, Goto
<1>1. /\ E \in Nat /\ Q \in Nat /\ H \in Nat /\ W \in Nat
      /\ E' \in Nat /\ Q' \in Nat /\ H' \in Nat /\ W' \in Nat
      /\ logged[h] \in Int /\ dropped[h] \in Nat
  BY DEF Sized
<1>2. logged[h] <= E + Q + H + W + dropped[h]
  BY DEF Accounted
<1>3. ~ Enqueue(p) => Q' = Q /\ H' = H /\ W' = W
  <2> SUFFICES ASSUME ~ Enqueue(p) PROVE Q' = Q /\ H' = H /\ W' = W
    OBVIOUS
  <2>1. CASE CreateWriter(p)
    BY <2>1, StillThere DEF CreateWriter
  <2>2. CASE LaunchWriter(p)
    BY <2>2, StillThere DEF LaunchWriter
  <2>3. CASE ~ CreateWriter(p) /\ ~ LaunchWriter(p)
    <3>1. UNCHANGED <<queue, stream, wpc, hand, wqueue>>
      BY <2>3 DEF Emit, Dispatch, SeeStarted, StartedMeanwhile, ClaimStart, LaunchFails, Prepare,
                  PrepareFails, CheckRoom, OfferFull, CountDrop
    <3> QED BY <3>1, StillThere
  <2> QED BY <2>1, <2>2, <2>3
<1>4. CASE Dispatch(p)
  <2>1. root \in Pipelines /\ via' = [via EXCEPT ![p] = root] /\ ppc[p] = "idle"
        /\ ppc' = [ppc EXCEPT ![p] = "emit"] /\ dropped' = dropped
        /\ logged' = [logged EXCEPT ![root] = @ + 1] /\ ~ Enqueue(p)
    BY <1>4 DEF Dispatch, Enqueue
  <2>2. CASE root = h
    <3>1. InEmit(h)' = InEmit(h) \cup {p} /\ p \notin InEmit(h)
      BY <2>1, <2>2 DEF InEmit
    <3>2. E' = E + 1
      BY <3>1, Added DEF Sized
    <3>3. logged'[h] = logged[h] + 1 /\ dropped'[h] = dropped[h]
      BY <2>1, <2>2
    <3>4. Q' = Q /\ H' = H /\ W' = W
      BY <1>3, <2>1
    <3> HIDE DEF TypeOK
    <3> QED BY <1>1, <1>2, <3>2, <3>3, <3>4 DEF Accounted
  <2>3. CASE root # h
    <3>1. InEmit(h)' = InEmit(h) /\ logged'[h] = logged[h]
      BY <2>1, <2>3 DEF InEmit
    <3> QED BY <1>2, <1>3, <2>1, <3>1 DEF Accounted
  <2> QED BY <2>2, <2>3
<1>5. CASE \/ SeeStarted(p) \/ StartedMeanwhile(p) \/ ClaimStart(p) \/ CreateWriter(p)
           \/ LaunchWriter(p) \/ Prepare(p) \/ CheckRoom(p) \/ OfferFull(p)
  <2>1. \E there : there # "idle" /\ ppc' = [ppc EXCEPT ![p] = there]
    BY <1>5 DEF SeeStarted, StartedMeanwhile, ClaimStart, CreateWriter, LaunchWriter, Prepare,
                CheckRoom, OfferFull
  <2>2. ppc[p] # "idle" /\ via' = via /\ logged' = logged /\ dropped' = dropped /\ ~ Enqueue(p)
    BY <1>5 DEF SeeStarted, StartedMeanwhile, ClaimStart, CreateWriter, LaunchWriter, Prepare,
                CheckRoom, OfferFull, Enqueue
  <2>3. InEmit(h)' = InEmit(h)
    BY <2>1, <2>2, InEmitChanges
  <2> QED BY <1>2, <1>3, <2>2, <2>3 DEF Accounted
<1>6. CASE LaunchFails(p) \/ PrepareFails(p) \/ CountDrop(p)
  <2>1. /\ ppc[p] # "idle" /\ via' = via /\ ppc' = [ppc EXCEPT ![p] = "idle"] /\ ~ Enqueue(p)
        /\ \/ logged' = [logged EXCEPT ![via[p]] = @ - 1] /\ dropped' = dropped
           \/ logged' = logged /\ dropped' = [dropped EXCEPT ![via[p]] = @ + 1]
    BY <1>6 DEF LaunchFails, PrepareFails, CountDrop, Enqueue
  <2>2. CASE via[p] = h
    <3>1. E' = E - 1
      BY <2>1, <2>2, InEmitChanges
    <3>2. \/ logged'[h] = logged[h] - 1 /\ dropped'[h] = dropped[h]
          \/ logged'[h] = logged[h] /\ dropped'[h] = dropped[h] + 1
      BY <2>1, <2>2
    <3>3. Q' = Q /\ H' = H /\ W' = W
      BY <1>3, <2>1
    <3> HIDE DEF TypeOK
    <3> QED BY <1>1, <1>2, <3>1, <3>2, <3>3 DEF Accounted
  <2>3. CASE via[p] # h
    <3>1. E' = E
      BY <2>1, <2>3, InEmitChanges
    <3>2. logged'[h] = logged[h] /\ dropped'[h] = dropped[h]
      BY <2>1, <2>3
    <3> QED BY <1>2, <1>3, <2>1, <3>1, <3>2 DEF Accounted
  <2> QED BY <2>2, <2>3
<1>7. CASE Enqueue(p)
  <2> DEFINE g == via[p]
             x == Line(g, p)
  <2>1. /\ ppc[p] # "idle" /\ via' = via /\ ppc' = [ppc EXCEPT ![p] = "idle"]
        /\ queue' = [queue EXCEPT ![g] = Append(queue[g], x)]
        /\ UNCHANGED <<logged, dropped, stream, wpc, hand, wqueue>>
    BY <1>7 DEF Enqueue
  <2>2. g \in Pipelines /\ x \in Item /\ x.kind = "line"
    BY <2>1, ViaHandler, LineIsItem DEF Line
  <2> HIDE DEF x
  <2>3. H' = H /\ W' = W
    BY <2>1 DEF HeldTickets, WrittenTickets, WrittenUpTo
  <2>4. CASE g = h
    <3>1. E' = E - 1
      BY <2>1, <2>4, InEmitChanges
    <3>2. QueuedLines(h)' = QueuedLines(h) \cup {Len(queue[h]) + 1}
          /\ Len(queue[h]) + 1 \notin QueuedLines(h)
      <4>1. queue' = [queue EXCEPT ![h] = Append(queue[h], x)]
        BY <2>1, <2>4
      <4> QED BY <2>2, <4>1, LinePositions
    <3>3. Q' = Q + 1
      BY <3>2, Added DEF Sized
    <3> QED BY <1>1, <1>2, <2>1, <2>3, <3>1, <3>3 DEF Accounted
  <2>5. CASE g # h
    <3>1. E' = E
      BY <2>1, <2>5, InEmitChanges
    <3>2. queue'[h] = queue[h]
      BY <2>1, <2>2, <2>5, AppendPositions
    <3>3. Q' = Q
      BY <3>2 DEF QueuedLines
    <3> QED BY <1>2, <2>1, <2>3, <3>1, <3>3 DEF Accounted
  <2> QED BY <2>4, <2>5
<1> QED BY <1>4, <1>5, <1>6, <1>7 DEF Emit

\* Writing a line puts it behind what is written, and perhaps a notice behind it.
LEMMA WritePositions ==
  ASSUME TypeOK, Shape, TypeOK', NEW w \in Writers, WriteLine(w)
  PROVE  LET m == Len(stream)
             line == [kind |-> "line", on |-> wqueue[w], n |-> hand[w].n]
             notice == [kind |-> "note", on |-> wqueue[w], n |-> Delta(w)]
         IN  /\ m \in Nat /\ Len(stream') \in {m + 1, m + 2}
             /\ \A k \in 1 .. m : stream'[k] = stream[k]
             /\ stream'[m + 1] = line
             /\ Len(stream') = m + 2 => stream'[m + 2] = notice
             /\ DOMAIN stream = 1 .. m /\ DOMAIN stream' = 1 .. Len(stream')
             /\ flushed' \in {flushed, m, Len(stream')}
<1> DEFINE line == [kind |-> "line", on |-> wqueue[w], n |-> hand[w].n]
           notice == [kind |-> "note", on |-> wqueue[w], n |-> Delta(w)]
           m == Len(stream)
           s == Append(stream, line)
<1>1. stream \in Seq(Entry) /\ stream' \in Seq(Entry)
  BY DEF TypeOK, SinkTypeOK
<1>2. stream' = Append(stream, line) \/ stream' = Append(s, notice)
  BY DEF WriteLine
<1>3. flushed' \in {flushed, m, Len(stream')}
  BY DEF WriteLine
<1> HIDE DEF line, notice
<1>4. /\ s \in Seq(Entry \cup {line}) /\ m \in Nat
      /\ Len(s) = m + 1 /\ s[m + 1] = line /\ \A k \in 1 .. m : s[k] = stream[k]
  BY <1>1
<1>5. DOMAIN stream = 1 .. m /\ DOMAIN stream' = 1 .. Len(stream')
  BY <1>1
<1>6. CASE stream' = s
  BY <1>3, <1>4, <1>5, <1>6 DEF line, notice
<1>7. CASE stream' = Append(s, notice)
  <2> HIDE DEF s, m
  <2>1. /\ Len(stream') = m + 2 /\ stream'[m + 2] = notice
        /\ \A k \in 1 .. m + 1 : stream'[k] = s[k]
    BY <1>4, <1>7
  <2>2. stream'[m + 1] = line /\ \A k \in 1 .. m : stream'[k] = stream[k]
    BY <1>4, <2>1
  <2> QED BY <1>3, <1>4, <1>5, <2>1, <2>2 DEF line, notice, m
<1> QED BY <1>2, <1>6, <1>7

LEMMA WriteTickets ==
  ASSUME TypeOK, Shape, TypeOK', NEW w \in Writers, WriteLine(w), NEW h \in Pipelines
  PROVE  WrittenTickets(h)' = WrittenTickets(h) \cup {n \in {hand[w].n} : h = wqueue[w]}
<1> DEFINE m == Len(stream)
           M == Len(stream')
<1> DEFINE line == [kind |-> "line", on |-> wqueue[w], n |-> hand[w].n]
           notice == [kind |-> "note", on |-> wqueue[w], n |-> Delta(w)]
<1>a. /\ m \in Nat /\ M \in {m + 1, m + 2}
      /\ \A k \in 1 .. m : stream'[k] = stream[k]
      /\ stream'[m + 1] = line
      /\ M = m + 2 => stream'[m + 2] = notice
  BY WritePositions, Zenon
<1>1. /\ m \in Nat /\ M \in {m + 1, m + 2}
      /\ \A k \in 1 .. m : stream'[k] = stream[k]
      /\ stream'[m + 1].kind = "line" /\ stream'[m + 1].on = wqueue[w]
      /\ stream'[m + 1].n = hand[w].n
      /\ M = m + 2 => stream'[m + 2].kind = "note"
  BY <1>a
<1>2. \A n : n \in WrittenTickets(h) <=>
        \E k \in 1 .. m : stream[k].kind = "line" /\ stream[k].on = h /\ stream[k].n = n
  BY DEF WrittenTickets, WrittenUpTo
<1>3. \A n : n \in WrittenTickets(h)' <=>
        \E k \in 1 .. M : stream'[k].kind = "line" /\ stream'[k].on = h /\ stream'[k].n = n
  BY DEF WrittenTickets, WrittenUpTo
<1> HIDE DEF m, M
<1>4. \A k \in 1 .. M : k \in 1 .. m \/ k = m + 1 \/ (k = m + 2 /\ M = m + 2)
  BY <1>1
<1>5. m + 1 \in 1 .. M /\ \A k \in 1 .. m : k \in 1 .. M
  BY <1>1
<1>6. \A n : n \in WrittenTickets(h)' <=>
             n \in WrittenTickets(h) \/ (n = hand[w].n /\ h = wqueue[w])
  BY <1>1, <1>2, <1>3, <1>4, <1>5
<1> QED BY <1>6

LEMMA WriteAccounted ==
  ASSUME TypeOK, Shape, TypeOK', Sized, Sized', Staged, OneHand, OneHand', NEW w \in Writers,
         Write(w), NEW h \in Pipelines, Accounted(h)
  PROVE  Accounted(h)'
<1> DEFINE E == Cardinality(InEmit(h))
           Q == Cardinality(QueuedLines(h))
           H == Cardinality(HeldTickets(h))
           W == Cardinality(WrittenTickets(h))
           D == dropped[h]
<1>1. /\ E \in Nat /\ Q \in Nat /\ H \in Nat /\ W \in Nat /\ D \in Nat
      /\ E' \in Nat /\ Q' \in Nat /\ H' \in Nat /\ W' \in Nat
      /\ logged[h] \in Int
  BY DEF Sized, TypeOK, PipeTypeOK
<1>2. logged[h] <= E + Q + H + W + D
  BY DEF Accounted
<1>3. E' = E /\ logged' = logged
  BY DEF InEmit, Write, Take, HandleMarker, WriteLine, WriteFails, FlushIfEmpty, FlushFails
<1>4. wpc[w] # "unmade" /\ wpc'[w] # "unmade" /\ wqueue' = wqueue /\ wqueue[w] \in Pipelines
  BY DEF Write, Take, HandleMarker, WriteLine, WriteFails, FlushIfEmpty, FlushFails, Shape,
         WriterShape, TypeOK, StateTypeOK, WriterTypeOK
<1>5. h # wqueue[w] => HeldTickets(h)' = HeldTickets(h)
  <2>1. \A v \in Writers : v # w => wpc'[v] = wpc[v] /\ hand'[v] = hand[v]
    BY DEF Write, Take, HandleMarker, WriteLine, WriteFails, FlushIfEmpty, FlushFails, TypeOK,
           WriterTypeOK
  <2> QED BY <1>4, <2>1 DEF HeldTickets
<1>6. h = wqueue[w] =>
        /\ HeldTickets(h) = {n \in {hand[w].n} : wpc[w] = "handle" /\ hand[w].kind = "line"}
        /\ HeldTickets(h)' = {n \in {hand'[w].n} : wpc'[w] = "handle" /\ hand'[w].kind = "line"}
  BY <1>4 DEF OneHand
<1>7. Cardinality({}) = 0 /\ \A n : Cardinality({n}) = 1
  BY FS_EmptySet, FS_Singleton
<1>8. ASSUME E' = E, logged' = logged, D' \in Nat, Q + H + W + D <= Q' + H' + W' + D'
      PROVE  Accounted(h)'
  BY <1>1, <1>2, <1>8 DEF Accounted
<1>9. CASE Take(w)
  <2>1. W' = W /\ D' = D
    BY <1>9 DEF Take, WrittenTickets, WrittenUpTo
  <2>2. CASE h # wqueue[w]
    <3>1. queue'[h] = queue[h]
      BY <1>4, <1>9, <2>2, TakePositions
    <3> QED BY <1>1, <1>3, <1>5, <1>8, <2>1, <2>2, <3>1 DEF QueuedLines
  <2>3. CASE h = wqueue[w]
    <3> DEFINE m == Len(queue[h])
    <3>1. /\ m > 0 /\ m \in Nat /\ Head(queue[h]) = queue[h][1]
          /\ QueuedLines(h)' = {i \in 1 .. m - 1 : i + 1 \in QueuedLines(h)}
          /\ QueuedLines(h) \in SUBSET (1 .. m)
          /\ 1 \in QueuedLines(h) <=> queue[h][1].kind = "line"
      BY <1>9, <2>3, TakePositions, Positions
    <3> HIDE DEF m
    <3>2. Q' = IF 1 \in QueuedLines(h) THEN Q - 1 ELSE Q
      BY <3>1, ShiftedSize
    <3>3. wpc[w] = "get"
      BY <1>9 DEF Take
    <3>4. HeldTickets(h) = {}
      BY <1>6, <2>3, <3>3
    <3>5. 1 \in QueuedLines(h) => wpc'[w] = "handle" /\ hand'[w].kind = "line"
      BY <1>9, <2>3, <3>1 DEF Take, TypeOK, WriterTypeOK
    <3>6. 1 \in QueuedLines(h) => HeldTickets(h)' = {hand'[w].n}
      BY <1>6, <2>3, <3>5
    <3>7. H = 0 /\ (1 \in QueuedLines(h) => H' = 1)
      BY <1>7, <3>4, <3>6
    <3> QED BY <1>1, <1>3, <1>8, <2>1, <3>2, <3>7
  <2> QED BY <2>2, <2>3
<1>10. CASE HandleMarker(w) \/ FlushIfEmpty(w) \/ FlushFails(w)
  <2>1. queue' = queue /\ stream' = stream
    BY <1>10 DEF HandleMarker, FlushIfEmpty, FlushFails
  <2>4. Q' = Q /\ W' = W
    BY <2>1 DEF WrittenTickets, WrittenUpTo, QueuedLines
  <2>2. HeldTickets(h)' = HeldTickets(h)
    <3>1. CASE h = wqueue[w]
      <4>1. ~ (wpc[w] = "handle" /\ hand[w].kind = "line") /\ wpc'[w] # "handle"
        BY <1>10 DEF HandleMarker, FlushIfEmpty, FlushFails, TypeOK, WriterTypeOK
      <4> QED BY <1>6, <3>1, <4>1
    <3> QED BY <1>5, <3>1
  <2>3. D' \in {D, D + 1}
    BY <1>4, <1>10 DEF HandleMarker, FlushIfEmpty, FlushFails, TypeOK, PipeTypeOK
  <2> QED BY <1>1, <1>3, <1>8, <2>2, <2>3, <2>4
<1>11. CASE WriteFails(w)
  <2>1. Q' = Q /\ W' = W
    BY <1>11 DEF WriteFails, WrittenTickets, WrittenUpTo, QueuedLines
  <2>2. CASE h # wqueue[w]
    <3>1. D' = D
      BY <1>4, <1>11, <2>2 DEF WriteFails, TypeOK, PipeTypeOK
    <3> QED BY <1>1, <1>3, <1>5, <1>8, <2>1, <2>2, <3>1
  <2>3. CASE h = wqueue[w]
    <3>1. D' = D + 1 /\ wpc[w] = "handle" /\ hand[w].kind = "line"
      BY <1>11, <2>3 DEF WriteFails, TypeOK, PipeTypeOK
    <3>2. HeldTickets(h) = {hand[w].n}
      BY <1>6, <2>3, <3>1
    <3>3. H = 1
      BY <1>7, <3>2
    <3> QED BY <1>1, <1>3, <1>8, <2>1, <3>1, <3>3
  <2> QED BY <2>2, <2>3
<1>12. CASE WriteLine(w)
  <2>1. Q' = Q /\ D' = D
    BY <1>12 DEF WriteLine, QueuedLines
  <2>2. CASE h # wqueue[w]
    <3>1. WrittenTickets(h)' = WrittenTickets(h)
      BY <1>12, <2>2, WriteTickets
    <3> QED BY <1>1, <1>3, <1>5, <1>8, <2>1, <2>2, <3>1
  <2>3. CASE h = wqueue[w]
    <3>1. wpc[w] = "handle" /\ hand[w].kind = "line"
      BY <1>12 DEF WriteLine
    <3>2. HeldTickets(h) = {hand[w].n}
      BY <1>6, <2>3, <3>1
    <3>3. WrittenTickets(h)' = WrittenTickets(h) \cup {hand[w].n}
      BY <1>12, <2>3, WriteTickets
    <3>4. hand[w].n \notin WrittenTickets(h)
      <4>1. StagedAt(h) /\ HoldsLine(w, h)
        BY <2>3, <3>1 DEF Staged, HoldsLine
      <4>2. \A k \in 1 .. Len(stream) : k \in DOMAIN stream /\ stream[k] \in Entry
        BY DEF TypeOK, SinkTypeOK
      <4>3. hand[w].n \in Nat /\ \A k \in 1 .. Len(stream) : stream[k].n \in Nat
        BY <3>1, <4>2 DEF Shape, WriterShape, Item, Entry
      <4>4. \A k \in 1 .. Len(stream) : OnStream(k, h) => stream[k].n < hand[w].n
        BY <4>1, <4>2 DEF StagedAt
      <4> QED BY <4>3, <4>4 DEF WrittenTickets, WrittenUpTo, OnStream
    <3>5. W' = W + 1 /\ H = 1
      BY <1>7, <3>2, <3>3, <3>4, Added DEF Sized
    <3> QED BY <1>1, <1>3, <1>8, <2>1, <3>5
  <2> QED BY <2>2, <2>3
<1> QED BY <1>9, <1>10, <1>11, <1>12 DEF Write

LEMMA FlushAccounted ==
  ASSUME TypeOK, Shape, Sized, NEW f \in Flushers, Flush(f), NEW h \in Pipelines, Accounted(h)
  PROVE  Accounted(h)'
<1>1. QueuedLines(h)' = QueuedLines(h)
  <2>1. CASE PutMarker(f)
    <3> DEFINE g == fon[f]
               x == Marker(f)
    <3>1. g \in Pipelines /\ x \in Item /\ x.kind # "line"
          /\ queue' = [queue EXCEPT ![g] = Append(queue[g], x)]
      BY <2>1, MarkerIsItem DEF PutMarker, Shape, FlushShape, TypeOK, StateTypeOK, Marker
    <3> HIDE DEF x, g
    <3>2. CASE h = g
      <4>1. QueuedLines(h)' = QueuedLines(h) \cup {}
        BY <3>1, <3>2, AppendPositions, Zenon
      <4> QED BY <4>1
    <3>3. CASE h # g
      <4>1. queue'[h] = queue[h]
        BY <3>1, <3>3, AppendPositions
      <4> QED BY <4>1 DEF QueuedLines
    <3> QED BY <3>2, <3>3
  <2>2. CASE ~ PutMarker(f)
    BY <2>2 DEF Flush, FlushCall, FlushReleased, FlushTimesOut, QueuedLines
  <2> QED BY <2>1, <2>2
<1>2. UNCHANGED <<logged, dropped, producerVars, writerVars, stream>>
  BY DEF Flush, FlushCall, PutMarker, FlushReleased, FlushTimesOut
<1> QED BY <1>1, <1>2 DEF Accounted, InEmit, HeldTickets, WrittenTickets, WrittenUpTo

\* At first no line is anywhere.
LEMMA InitNothing ==
  ASSUME Init, NEW h \in Pipelines
  PROVE  /\ QueuedLines(h) = {} /\ InEmit(h) = {} /\ HeldTickets(h) = {}
         /\ WrittenTickets(h) = {} /\ tickets[h] = 0
<1>1. /\ queue[h] = <<>> /\ stream = <<>> /\ tickets[h] = 0
      /\ \A p \in Producers : ppc[p] = "idle"
      /\ \A w \in Writers : wpc[w] = "unmade"
  BY DEF Init
<1>2. QueuedLines(h) = {} /\ InEmit(h) = {}
  BY <1>1 DEF QueuedLines, InEmit
<1>3. HeldTickets(h) = {}
  <2>1. {v \in Writers : wqueue[v] = h /\ wpc[v] = "handle" /\ hand[v].kind = "line"} = {}
    BY <1>1
  <2> QED BY <2>1 DEF HeldTickets
<1>4. WrittenTickets(h) = {}
  <2>1. 1 .. Len(stream) = {}
    BY <1>1
  <2> QED BY <2>1 DEF WrittenTickets, WrittenUpTo
<1> QED BY <1>1, <1>2, <1>3, <1>4

\* LP-007: no record given to the handler is lost without being counted.
THEOREM AllAccounted == Spec => []NoSilentLoss
<1>1. Init => NoSilentLoss
  <2> SUFFICES ASSUME Init, NEW h \in Pipelines PROVE Accounted(h)
    BY DEF NoSilentLoss, Accounted
  <2>1. logged[h] = 0 /\ dropped[h] = 0
    BY DEF Init
  <2>2. QueuedLines(h) = {} /\ InEmit(h) = {} /\ HeldTickets(h) = {} /\ WrittenTickets(h) = {}
    BY InitNothing
  <2>3. /\ Cardinality(InEmit(h)) = 0 /\ Cardinality(QueuedLines(h)) = 0
        /\ Cardinality(HeldTickets(h)) = 0 /\ Cardinality(WrittenTickets(h)) = 0
    BY <2>2, FS_EmptySet
  <2> QED BY <2>1, <2>3 DEF Accounted
<1>2. Sound /\ Sound' /\ NoSilentLoss /\ [Next]_vars => NoSilentLoss'
  <2> SUFFICES ASSUME Sound, Sound', NoSilentLoss, [Next]_vars, NEW h \in Pipelines
               PROVE  Accounted(h)'
    BY DEF NoSilentLoss, Accounted
  <2> USE DEF Sound
  <2>1. Sized /\ Sized' /\ OneHand /\ OneHand' /\ Accounted(h)
    BY AllSized, AllSizedNext, AllOneHand, AllOneHandNext DEF NoSilentLoss, Accounted
  <2>2. CASE UNCHANGED vars
    BY <2>1, <2>2 DEF Accounted, InEmit, QueuedLines, HeldTickets, WrittenTickets, WrittenUpTo
  <2> QED
    BY <2>1, <2>2, EmitAccounted, WriteAccounted, FlushAccounted DEF Next, Finished
<1> QED BY <1>1, <1>2, AlwaysSound, PTL DEF Spec

-----------------------------------------------------------------------------
(* What a step does to the lines of a pipeline: all that the promises of a *)
(* pipeline to the threads that log depend on.                             *)

OnTheWay(h) == QueuedTickets(h) \cup HeldTickets(h)

Stays(h) == /\ tickets'[h] = tickets[h]
            /\ OnTheWay(h)' = OnTheWay(h) /\ WrittenTickets(h)' = WrittenTickets(h)
Enters(h) == /\ Len(queue[h]) < QueueSize
             /\ tickets'[h] = tickets[h] + 1
             /\ OnTheWay(h)' = OnTheWay(h) \cup {tickets[h] + 1}
             /\ WrittenTickets(h)' = WrittenTickets(h)
Leaves(h, n) == /\ n \in OnTheWay(h) /\ \A m \in OnTheWay(h) : n <= m
                /\ tickets'[h] = tickets[h]
                /\ OnTheWay(h)' = OnTheWay(h) \ {n}
IsWritten(h, n) == Leaves(h, n) /\ WrittenTickets(h)' = WrittenTickets(h) \cup {n}
IsLost(h, n) == /\ Leaves(h, n) /\ WrittenTickets(h)' = WrittenTickets(h)
                /\ "stream" \in Faults /\ broken'
Moves(h) == \/ Enters(h)
            \/ \E n : IsWritten(h, n) \/ IsLost(h, n)
OneMoves == \/ \A h \in Pipelines : Stays(h)
            \/ \E h \in Pipelines : Moves(h) /\ \A g \in Pipelines : g # h => Stays(g)

\* An item that is put is the newest; it counts if it is a line.
LEMMA PutMoves ==
  ASSUME Sound, NEW h \in Pipelines, NEW x \in Item, Len(queue[h]) < QueueSize,
         queue' = [queue EXCEPT ![h] = Append(queue[h], x)],
         \A g \in Pipelines : g # h => tickets'[g] = tickets[g],
         \/ x.kind = "line" /\ x.n = tickets[h] + 1 /\ tickets'[h] = tickets[h] + 1
         \/ x.kind # "line" /\ tickets'[h] = tickets[h],
         UNCHANGED <<wpc, wqueue, hand, stream>>
  PROVE  OneMoves
<1> DEFINE m == Len(queue[h])
<1>1. /\ \A g \in Pipelines : g # h => queue'[g] = queue[g]
      /\ queue'[h][m + 1] = x
      /\ \A i \in 1 .. m : queue'[h][i] = queue[h][i]
      /\ QueuedLines(h)' = QueuedLines(h) \cup (IF x.kind = "line" THEN {m + 1} ELSE {})
      /\ QueuedLines(h) \in SUBSET (1 .. m)
  BY AppendPositions, Positions DEF Sound
<1>2. \A g \in Pipelines : HeldTickets(g)' = HeldTickets(g) /\ WrittenTickets(g)' = WrittenTickets(g)
  BY DEF HeldTickets, WrittenTickets, WrittenUpTo
<1>3. \A g \in Pipelines : g # h => Stays(g)
  BY <1>1, <1>2 DEF Stays, OnTheWay, QueuedTickets, QueuedLines
<1> HIDE DEF m
<1>4. CASE x.kind = "line" /\ x.n = tickets[h] + 1 /\ tickets'[h] = tickets[h] + 1
  <2>1. \A i : i \in QueuedLines(h)' <=> i \in QueuedLines(h) \/ i = m + 1
    BY <1>1, <1>4
  <2>2. \A i \in QueuedLines(h) : queue'[h][i] = queue[h][i]
    BY <1>1
  <2>3. QueuedTickets(h)' = QueuedTickets(h) \cup {tickets[h] + 1}
    <3>1. \A n : n \in QueuedTickets(h) <=> \E i \in QueuedLines(h) : queue[h][i].n = n
      BY DEF QueuedTickets
    <3>2. \A n : n \in QueuedTickets(h)' <=> \E i \in QueuedLines(h)' : queue'[h][i].n = n
      BY DEF QueuedTickets
    <3>3. queue'[h][m + 1].n = tickets[h] + 1 /\ m + 1 \in QueuedLines(h)'
      BY <1>1, <1>4, <2>1
    <3>4. ASSUME NEW n PROVE n \in QueuedTickets(h)' <=> n \in QueuedTickets(h) \/ n = tickets[h] + 1
      <4>1. ASSUME n \in QueuedTickets(h)' PROVE n \in QueuedTickets(h) \/ n = tickets[h] + 1
        <5>1. PICK i \in QueuedLines(h)' : queue'[h][i].n = n
          BY <3>2, <4>1
        <5>2. CASE i \in QueuedLines(h)
          BY <2>2, <3>1, <5>1, <5>2
        <5> QED BY <2>1, <3>3, <5>1, <5>2
      <4>2. ASSUME n \in QueuedTickets(h) PROVE n \in QueuedTickets(h)'
        <5>1. PICK i \in QueuedLines(h) : queue[h][i].n = n
          BY <3>1, <4>2
        <5> QED BY <2>1, <2>2, <3>2, <5>1
      <4>3. tickets[h] + 1 \in QueuedTickets(h)'
        BY <3>2, <3>3
      <4> QED BY <4>1, <4>2, <4>3
    <3> QED BY <3>4
  <2>4. Enters(h)
    BY <1>2, <1>4, <2>3 DEF Enters, OnTheWay
  <2> QED BY <1>3, <2>4 DEF OneMoves, Moves
<1>5. CASE x.kind # "line" /\ tickets'[h] = tickets[h]
  <2>1. QueuedLines(h)' = QueuedLines(h) /\ \A i \in QueuedLines(h) : queue'[h][i] = queue[h][i]
    BY <1>1, <1>5
  <2>2. Stays(h)
    BY <1>2, <1>5, <2>1 DEF Stays, OnTheWay, QueuedTickets
  <2> QED BY <1>3, <2>2 DEF OneMoves
<1> QED BY <1>4, <1>5

\* An item that is taken goes from the queue into the hand.
LEMMA TakeMoves ==
  ASSUME Sound, OneHand, OneHand', NEW w \in Writers, Take(w)
  PROVE  OneMoves
<1> USE DEF Sound
<1>1. wpc[w] = "get" /\ wqueue[w] \in Pipelines
      /\ UNCHANGED <<wqueue, tickets, stream>>
  BY DEF Take, Shape, WriterShape, TypeOK, StateTypeOK
<1>2. wpc'[w] # "unmade" /\ \A v \in Writers : v # w => wpc'[v] = wpc[v] /\ hand'[v] = hand[v]
  BY DEF Take, TypeOK, WriterTypeOK
<1>3. ASSUME NEW h \in Pipelines PROVE Stays(h)
  <2>1. WrittenTickets(h)' = WrittenTickets(h)
    BY <1>1 DEF WrittenTickets, WrittenUpTo
  <2>2. CASE h # wqueue[w]
    <3>1. queue'[h] = queue[h]
      BY <1>1, <2>2, TakePositions
    <3>2. HeldTickets(h)' = HeldTickets(h)
      BY <1>1, <1>2, <2>2 DEF HeldTickets
    <3> QED BY <1>1, <2>1, <3>1, <3>2 DEF Stays, OnTheWay, QueuedTickets, QueuedLines
  <2>3. CASE h = wqueue[w]
    <3> DEFINE m == Len(queue[h])
               first == queue[h][1]
    <3>1. /\ m > 0 /\ m \in Nat /\ Head(queue[h]) = first
          /\ \A i \in 1 .. m - 1 : queue'[h][i] = queue[h][i + 1]
          /\ QueuedLines(h)' = {i \in 1 .. m - 1 : i + 1 \in QueuedLines(h)}
          /\ QueuedLines(h) \in SUBSET (1 .. m)
          /\ 1 \in QueuedLines(h) <=> first.kind = "line"
      BY <2>3, TakePositions, Positions
    <3>2. HeldTickets(h) = {}
      BY <1>1, <2>3 DEF OneHand
    <3>3. HeldTickets(h)' = {n \in {hand'[w].n} : wpc'[w] = "handle" /\ hand'[w].kind = "line"}
      BY <1>1, <1>2, <2>3 DEF OneHand
    <3>4. IF first.kind = "sentinel" THEN wpc'[w] = "dead"
                                     ELSE wpc'[w] = "handle" /\ hand'[w] = first
      BY <2>3, <3>1 DEF Take, TypeOK, WriterTypeOK
    <3> HIDE DEF m, first
    <3>5. HeldTickets(h)' = {n \in {first.n} : 1 \in QueuedLines(h)}
      BY <3>1, <3>3, <3>4
    <3>6. \A n : n \in QueuedTickets(h) <=> \E i \in QueuedLines(h) : queue[h][i].n = n
      BY DEF QueuedTickets
    <3>7. \A n : n \in QueuedTickets(h)' <=> \E i \in QueuedLines(h)' : queue'[h][i].n = n
      BY DEF QueuedTickets
    <3>8. ASSUME NEW n, n \in QueuedTickets(h)' PROVE n \in QueuedTickets(h)
      BY <3>1, <3>6, <3>7, <3>8
    <3>9. ASSUME NEW n, n \in QueuedTickets(h)
          PROVE  n \in QueuedTickets(h)' \/ (1 \in QueuedLines(h) /\ n = first.n)
      <4>1. PICK i \in QueuedLines(h) : queue[h][i].n = n
        BY <3>6, <3>9
      <4>2. CASE i = 1
        BY <4>1, <4>2 DEF first
      <4>3. CASE i # 1
        <5>1. i - 1 \in 1 .. m - 1 /\ (i - 1) + 1 = i
          BY <3>1, <4>1, <4>3
        <5>2. i - 1 \in QueuedLines(h)' /\ queue'[h][i - 1] = queue[h][i]
          BY <3>1, <4>1, <5>1
        <5> QED BY <3>7, <4>1, <5>2
      <4> QED BY <4>2, <4>3
    <3>10. 1 \in QueuedLines(h) => first.n \in QueuedTickets(h)
      BY <3>6 DEF first
    <3>11. OnTheWay(h)' = OnTheWay(h)
      BY <3>2, <3>5, <3>8, <3>9, <3>10 DEF OnTheWay
    <3> QED BY <1>1, <2>1, <3>11 DEF Stays
  <2> QED BY <2>2, <2>3
<1> QED BY <1>3 DEF OneMoves

\* Where the tickets are that a writer has in its hand: above what is written, below
\* what is queued, and nowhere else.
LEMMA HeldIsLeast ==
  ASSUME Sound, OneHand, NEW w \in Writers, NEW h \in Pipelines, HoldsLine(w, h)
  PROVE  /\ HeldTickets(h) = {hand[w].n}
         /\ hand[w].n \notin QueuedTickets(h)
         /\ \A m \in OnTheWay(h) : hand[w].n <= m
<1>1. wpc[w] = "handle" /\ wqueue[w] = h /\ hand[w].kind = "line"
  BY DEF HoldsLine
<1>2. HeldTickets(h) = {hand[w].n}
  BY <1>1 DEF OneHand
<1>3. hand[w].n \in Nat
  BY <1>1 DEF Sound, Shape, WriterShape, Item
<1>4. \A i \in QueuedLines(h) : queue[h][i] \in Item
  BY Positions DEF Sound
<1>5. \A i \in QueuedLines(h) : queue[h][i].n \in Nat /\ hand[w].n < queue[h][i].n
  BY <1>4 DEF Sound, Staged, StagedAt, Item
<1> QED BY <1>2, <1>3, <1>5 DEF OnTheWay, QueuedTickets

\* A line leaves the hand: written, or lost with a stream that fails.
LEMMA LetGo ==
  ASSUME Sound, Sound', OneHand, OneHand', NEW w \in Writers, WriteLine(w) \/ WriteFails(w)
  PROVE  OneMoves
<1> USE DEF Sound
<1> DEFINE h == wqueue[w]
           n == hand[w].n
<1>1. /\ h \in Pipelines /\ HoldsLine(w, h) /\ wpc[w] # "unmade" /\ wpc'[w] \notin {"unmade", "handle"}
      /\ UNCHANGED <<queue, tickets, wqueue>>
      /\ \A v \in Writers : v # w => wpc'[v] = wpc[v] /\ hand'[v] = hand[v]
  BY DEF WriteLine, WriteFails, HoldsLine, Shape, WriterShape, TypeOK, StateTypeOK, WriterTypeOK
<1>2. /\ HeldTickets(h) = {n} /\ n \notin QueuedTickets(h)
      /\ \A m \in OnTheWay(h) : n <= m
  BY <1>1, HeldIsLeast
<1>3. \A v \in Writers : \A g \in Pipelines : wpc'[v] # "unmade" /\ wqueue[v] = g =>
        HeldTickets(g)' = {k \in {hand'[v].n} : wpc'[v] = "handle" /\ hand'[v].kind = "line"}
  BY <1>1 DEF OneHand
<1>4. WriteLine(w) =>
        \A g \in Pipelines : WrittenTickets(g)' = WrittenTickets(g) \cup {k \in {n} : g = h}
  BY WriteTickets
<1>5. WriteFails(w) => stream' = stream /\ broken' = TRUE /\ "stream" \in Faults
  BY DEF WriteFails
<1>6. PICK g \in Pipelines : g = h
  BY <1>1
<1> HIDE DEF h, n
<1>7. HeldTickets(g)' = {}
  BY <1>1, <1>3, <1>6 DEF h
<1>8. QueuedTickets(g)' = QueuedTickets(g)
  BY <1>1 DEF QueuedTickets, QueuedLines
<1>9. Leaves(g, n)
  BY <1>1, <1>2, <1>6, <1>7, <1>8 DEF Leaves, OnTheWay
<1>10. ASSUME NEW k \in Pipelines, k # g PROVE Stays(k)
  <2>1. HeldTickets(k)' = HeldTickets(k)
    BY <1>1, <1>6, <1>10 DEF HeldTickets, h
  <2>2. WrittenTickets(k)' = WrittenTickets(k)
    BY <1>4, <1>5, <1>6, <1>10 DEF WrittenTickets, WrittenUpTo
  <2> QED BY <1>1, <2>1, <2>2 DEF Stays, OnTheWay, QueuedTickets, QueuedLines
<1>11. IsWritten(g, n) \/ IsLost(g, n)
  <2>1. CASE WriteLine(w)
    BY <1>4, <1>6, <1>9, <2>1 DEF IsWritten
  <2>2. CASE WriteFails(w)
    BY <1>5, <1>9, <2>2 DEF IsLost, WrittenTickets, WrittenUpTo
  <2> QED BY <2>1, <2>2
<1> QED BY <1>10, <1>11 DEF OneMoves, Moves

\* The other steps move no line.
LEMMA RestStays ==
  ASSUME queue' = queue, stream' = stream, tickets' = tickets,
         \A w \in Writers :
           (wpc[w] = "handle" /\ hand[w].kind # "marker") \/ wpc'[w] = "handle" =>
             wpc'[w] = wpc[w] /\ hand'[w] = hand[w] /\ wqueue'[w] = wqueue[w]
  PROVE  OneMoves
BY DEF OneMoves, Stays, OnTheWay, QueuedTickets, QueuedLines, HeldTickets, WrittenTickets,
       WrittenUpTo

\* In every step at most one pipeline takes in a line or lets one go.
LEMMA StepMoves ==
  ASSUME Sound, Sound', [Next]_vars
  PROVE  OneMoves
<1> USE DEF Sound
<1>0. OneHand /\ OneHand'
  BY AllOneHand, AllOneHandNext
<1>1. ASSUME NEW p \in Producers, Enqueue(p) PROVE OneMoves
  <2> DEFINE h == via[p]
             x == Line(h, p)
  <2>1. ppc[p] # "idle" /\ Len(queue[h]) < QueueSize
        /\ queue' = [queue EXCEPT ![h] = Append(queue[h], x)]
        /\ UNCHANGED <<wpc, wqueue, hand, stream>>
    BY <1>1 DEF Enqueue
  <2>2. h \in Pipelines /\ x \in Item /\ x.kind = "line" /\ x.n = tickets[h] + 1
    BY <2>1, ViaHandler, LineIsItem DEF Line
  <2>3. tickets'[h] = tickets[h] + 1 /\ \A g \in Pipelines : g # h => tickets'[g] = tickets[g]
    BY <1>1, <2>2 DEF Enqueue, TypeOK, PipeTypeOK
  <2> HIDE DEF x, h
  <2> QED BY <2>1, <2>2, <2>3, PutMoves
<1>2. ASSUME NEW f \in Flushers, PutMarker(f) PROVE OneMoves
  <2> DEFINE h == fon[f]
             x == Marker(f)
  <2>1. Len(queue[h]) < QueueSize /\ queue' = [queue EXCEPT ![h] = Append(queue[h], x)]
        /\ UNCHANGED <<wpc, wqueue, hand, stream, tickets>>
    BY <1>2 DEF PutMarker
  <2>2. h \in Pipelines /\ x \in Item /\ x.kind # "line"
    BY <1>2, MarkerIsItem DEF PutMarker, Shape, FlushShape, TypeOK, StateTypeOK, Marker
  <2> HIDE DEF x, h
  <2> QED BY <2>1, <2>2, PutMoves
<1>3. ASSUME NEW p \in Producers, Emit(p), ~ Enqueue(p) PROVE OneMoves
  <2>1. CASE CreateWriter(p) \/ LaunchWriter(p)
    BY <2>1, RestStays DEF CreateWriter, LaunchWriter, TypeOK, WriterTypeOK
  <2>2. CASE ~ CreateWriter(p) /\ ~ LaunchWriter(p)
    <3>1. UNCHANGED <<queue, stream, tickets, wpc, hand, wqueue>>
      BY <1>3, <2>2 DEF Emit, Dispatch, SeeStarted, StartedMeanwhile, ClaimStart, LaunchFails,
                        Prepare, PrepareFails, CheckRoom, OfferFull, CountDrop
    <3> QED BY <3>1, RestStays
  <2> QED BY <2>1, <2>2
<1>4. ASSUME NEW w \in Writers, HandleMarker(w) \/ FlushIfEmpty(w) \/ FlushFails(w) PROVE OneMoves
  BY <1>4, RestStays DEF HandleMarker, FlushIfEmpty, FlushFails, TypeOK, WriterTypeOK
<1>5. ASSUME NEW w \in Writers, Write(w) PROVE OneMoves
  BY <1>0, <1>4, <1>5, TakeMoves, LetGo DEF Write
<1>6. ASSUME NEW f \in Flushers, Flush(f), ~ PutMarker(f) PROVE OneMoves
  BY <1>6, RestStays DEF Flush, FlushCall, FlushReleased, FlushTimesOut
<1>7. CASE UNCHANGED vars
  BY <1>7, RestStays
<1> QED BY <1>1, <1>2, <1>3, <1>5, <1>6, <1>7 DEF Next, Finished

\* A stream that has failed once stays marked.
LEMMA BrokenStays ==
  ASSUME [Next]_vars, ~ broken'
  PROVE  ~ broken
<1>1. ASSUME NEW p \in Producers, Emit(p) PROVE broken' = broken
  BY <1>1 DEF Emit, Dispatch, SeeStarted, StartedMeanwhile, ClaimStart, CreateWriter,
              LaunchWriter, LaunchFails, Prepare, PrepareFails, Enqueue, CheckRoom, OfferFull, CountDrop
<1>2. ASSUME NEW w \in Writers, Write(w) PROVE broken' = broken \/ broken'
  BY <1>2 DEF Write, Take, HandleMarker, WriteLine, WriteFails, FlushIfEmpty, FlushFails
<1>3. ASSUME NEW f \in Flushers, Flush(f) PROVE broken' = broken
  BY <1>3 DEF Flush, FlushCall, PutMarker, FlushReleased, FlushTimesOut
<1>4. CASE UNCHANGED vars
  BY <1>4
<1> QED BY <1>1, <1>2, <1>3, <1>4, Zenon DEF Next, Finished

\* The lines of a pipeline are numbered from 1, and as long as the stream works each of
\* them is queued, in the writer's hand or written.
Ranged == \A h \in Pipelines : OnTheWay(h) \cup WrittenTickets(h) \subseteq 1 .. tickets[h]
AllThere == ~ broken =>
  \A h \in Pipelines : 1 .. tickets[h] \subseteq OnTheWay(h) \cup WrittenTickets(h)

LEMMA ThereKept ==
  ASSUME Sound, Sound', Ranged, AllThere, [Next]_vars
  PROVE  Ranged' /\ AllThere'
<1>1. ASSUME NEW h \in Pipelines
      PROVE  /\ OnTheWay(h)' \cup WrittenTickets(h)' \subseteq 1 .. tickets'[h]
             /\ ~ broken' => 1 .. tickets'[h] \subseteq OnTheWay(h)' \cup WrittenTickets(h)'
  <2>1. tickets[h] \in Nat
    BY DEF Sound, TypeOK, PipeTypeOK
  <2>2. ~ broken' => ~ broken
    BY BrokenStays
  <2>3. OnTheWay(h) \cup WrittenTickets(h) \subseteq 1 .. tickets[h]
        /\ (~ broken' => 1 .. tickets[h] \subseteq OnTheWay(h) \cup WrittenTickets(h))
    BY <2>2 DEF Ranged, AllThere
  <2>4. CASE Stays(h)
    BY <2>3, <2>4 DEF Stays
  <2>5. CASE Enters(h)
    <3>1. 1 .. tickets'[h] = (1 .. tickets[h]) \cup {tickets[h] + 1}
      BY <2>1, <2>5 DEF Enters
    <3> QED BY <2>3, <2>5, <3>1 DEF Enters
  <2>6. ASSUME NEW n, IsWritten(h, n)
        PROVE  /\ OnTheWay(h)' \cup WrittenTickets(h)' \subseteq 1 .. tickets'[h]
               /\ ~ broken' => 1 .. tickets'[h] \subseteq OnTheWay(h)' \cup WrittenTickets(h)'
    BY <2>3, <2>6 DEF IsWritten, Leaves
  <2>7. ASSUME NEW n, IsLost(h, n)
        PROVE  /\ OnTheWay(h)' \cup WrittenTickets(h)' \subseteq 1 .. tickets'[h]
               /\ ~ broken' => 1 .. tickets'[h] \subseteq OnTheWay(h)' \cup WrittenTickets(h)'
    BY <2>3, <2>7 DEF IsLost, Leaves
  <2> QED BY <2>4, <2>5, <2>6, <2>7, StepMoves DEF OneMoves, Moves
<1> QED BY <1>1 DEF Ranged, AllThere

LEMMA AlwaysThere == Spec => [](Ranged /\ AllThere)
<1>1. Init => Ranged /\ AllThere
  BY InitNothing DEF Ranged, AllThere, OnTheWay, QueuedTickets
<1>2. Sound /\ Sound' /\ Ranged /\ AllThere /\ [Next]_vars => (Ranged /\ AllThere)'
  BY ThereKept
<1> QED BY <1>1, <1>2, AlwaysSound, PTL DEF Spec
-----------------------------------------------------------------------------
(* Each pipeline is a LogChannel.                                          *)

Fates == [h \in Pipelines |-> Fate(h)]

\* A line is not written while it is on its way.
LEMMA Apart ==
  ASSUME Sound, NEW h \in Pipelines
  PROVE  OnTheWay(h) \cap WrittenTickets(h) = {}
<1> SUFFICES ASSUME NEW n, n \in OnTheWay(h), n \in WrittenTickets(h) PROVE FALSE
  OBVIOUS
<1>1. PICK k \in 1 .. Len(stream) : OnStream(k, h) /\ stream[k].n = n
  BY DEF WrittenTickets, WrittenUpTo, OnStream
<1>2. k \in DOMAIN stream /\ stream[k] \in Entry
  BY DEF Sound, TypeOK, SinkTypeOK
<1>3. n \in Nat
  BY <1>1, <1>2 DEF Entry
<1>4. \A i \in QueuedLines(h) : n < queue[h][i].n
  BY <1>1, <1>2 DEF Sound, Staged, StagedAt
<1>5. \A w \in Writers : HoldsLine(w, h) => n < hand[w].n
  BY <1>1, <1>2 DEF Sound, Staged, StagedAt
<1> QED BY <1>3, <1>4, <1>5 DEF OnTheWay, QueuedTickets, HeldTickets, HoldsLine

Disjoint == \A h \in Pipelines : OnTheWay(h) \cap WrittenTickets(h) = {}

LEMMA AlwaysApart == Sound => Disjoint
BY Apart DEF Disjoint

LEMMA AlwaysApartNext == Sound' => Disjoint'
BY AlwaysApart, PTL

\* What LogChannel calls pending is what is on its way, and that is no more than the
\* slots of the queue and the writer's hand.
LEMMA PendingIsOnTheWay ==
  ASSUME Sound, Ranged, NEW h \in Pipelines
  PROVE  Channel!Pending(h) = OnTheWay(h)
<1>1. OnTheWay(h) \subseteq 1 .. tickets[h] /\ OnTheWay(h) \cap WrittenTickets(h) = {}
  BY Apart DEF Ranged
<1>2. \A n \in 1 .. tickets[h] : Fates[h][n] = "pending" <=> n \in OnTheWay(h)
  BY <1>1 DEF Fates, Fate, OnTheWay
<1> QED BY <1>1, <1>2 DEF Channel!Pending, Fates

\* LogChannel counts as this module does.
LEMMA SameCount ==
  ASSUME NEW S
  PROVE  Channel!Cardinality(S) = Cardinality(S)
BY DEF Channel!Cardinality, Cardinality

LEMMA WayIsNarrow ==
  ASSUME Sound, NEW h \in Pipelines
  PROVE  /\ Cardinality(OnTheWay(h)) \in Nat
         /\ Cardinality(OnTheWay(h)) <= Len(queue[h]) + 1
<1>1. Len(queue[h]) \in Nat /\ QueuedLines(h) \in SUBSET (1 .. Len(queue[h]))
  BY Positions DEF Sound
<1>2. IsFiniteSet(1 .. Len(queue[h])) /\ Cardinality(1 .. Len(queue[h])) = Len(queue[h])
  BY <1>1, FS_Interval
<1>3. IsFiniteSet(QueuedLines(h)) /\ Cardinality(QueuedLines(h)) <= Len(queue[h])
  BY <1>1, <1>2, FS_Subset
<1>4. [i \in QueuedLines(h) |-> queue[h][i].n] \in Surjection(QueuedLines(h), QueuedTickets(h))
  BY DEF Surjection, QueuedTickets
<1>5. IsFiniteSet(QueuedTickets(h)) /\ Cardinality(QueuedTickets(h)) <= Cardinality(QueuedLines(h))
  BY <1>3, <1>4, FS_Surjection
<1>6. IsFiniteSet(HeldTickets(h)) /\ Cardinality(HeldTickets(h)) <= 1
  <2>1. CASE HeldTickets(h) = {}
    <3>1. IsFiniteSet({}) /\ Cardinality({}) = 0
      BY FS_EmptySet
    <3> QED BY <2>1, <3>1
  <2>2. CASE HeldTickets(h) # {}
    <3>1. PICK n : n \in HeldTickets(h)
      BY <2>2
    <3>2. HeldTickets(h) = {n}
      BY <3>1 DEF HeldTickets, Sound, OneWriter
    <3>3. IsFiniteSet({n}) /\ Cardinality({n}) = 1
      BY FS_Singleton
    <3> QED BY <3>2, <3>3
  <2> QED BY <2>1, <2>2
<1>7. IsFiniteSet(QueuedTickets(h) \cap HeldTickets(h)) /\ IsFiniteSet(OnTheWay(h))
      /\ Cardinality(OnTheWay(h)) = Cardinality(QueuedTickets(h)) + Cardinality(HeldTickets(h))
                                    - Cardinality(QueuedTickets(h) \cap HeldTickets(h))
  BY <1>5, <1>6, FS_Union, FS_Intersection DEF OnTheWay
<1>8. /\ Cardinality(QueuedTickets(h)) \in Nat /\ Cardinality(HeldTickets(h)) \in Nat
      /\ Cardinality(QueuedLines(h)) \in Nat /\ Cardinality(OnTheWay(h)) \in Nat
      /\ Cardinality(QueuedTickets(h) \cap HeldTickets(h)) \in Nat
  BY <1>3, <1>5, <1>6, <1>7, FS_CardinalityType
<1> QED BY <1>1, <1>3, <1>5, <1>6, <1>7, <1>8

\* A pipeline whose lines stay has the same fate for each of them.
LEMMA SameFate ==
  ASSUME NEW h \in Pipelines, Stays(h)
  PROVE  Fate(h)' = Fate(h)
BY DEF Stays, Fate, OnTheWay

LEMMA ChannelStep ==
  ASSUME Sound, Sound', Ranged, Ranged', [Next]_vars
  PROVE  [Channel!Next]_(Channel!channels)
<1>1. /\ tickets \in [Pipelines -> Nat] /\ tickets' \in [Pipelines -> Nat]
      /\ Fates = [h \in Pipelines |-> Fate(h)] /\ Fates' = [h \in Pipelines |-> Fate(h)']
  BY DEF Sound, TypeOK, PipeTypeOK, Fates
<1>2. CASE \A h \in Pipelines : Stays(h)
  <2>1. tickets' = tickets
    BY <1>1, <1>2 DEF Stays
  <2>2. Fates' = Fates
    BY <1>1, <1>2, SameFate
  <2> QED BY <2>1, <2>2 DEF Channel!channels, Fates
<1>3. ASSUME NEW h \in Pipelines, Moves(h), \A g \in Pipelines : g # h => Stays(g)
      PROVE  Channel!Next
  <2>1. \A g \in Pipelines : g # h => tickets'[g] = tickets[g] /\ Fate(g)' = Fate(g)
    BY <1>3, SameFate DEF Stays
  <2>2. tickets' = [tickets EXCEPT ![h] = tickets'[h]]
    BY <1>1, <2>1
  <2>3. Fates' = [Fates EXCEPT ![h] = Fate(h)']
    BY <1>1, <2>1
  <2>4. OnTheWay(h) \subseteq 1 .. tickets[h] /\ WrittenTickets(h) \subseteq 1 .. tickets[h]
        /\ OnTheWay(h) \cap WrittenTickets(h) = {} /\ tickets[h] \in Nat
        /\ OnTheWay(h)' \cap WrittenTickets(h)' = {}
    BY <1>1, AlwaysApart, AlwaysApartNext DEF Ranged, Disjoint
  <2> DEFINE t == tickets[h]
  <2>a. Fates[h] = Fate(h) /\ Fate(h)' = [n \in 1 .. tickets'[h] |->
          IF n \in WrittenTickets(h)' THEN "written"
          ELSE IF n \in OnTheWay(h)' THEN "pending" ELSE "lost"]
    BY DEF Fates, Fate, OnTheWay
  <2>b. Fate(h) = [n \in 1 .. t |->
          IF n \in WrittenTickets(h) THEN "written"
          ELSE IF n \in OnTheWay(h) THEN "pending" ELSE "lost"]
    BY DEF Fate, OnTheWay
  <2>c. Channel!Pending(h) = OnTheWay(h)
    BY PendingIsOnTheWay
  <2>5. CASE Enters(h)
    <3>1. tickets'[h] = t + 1 /\ WrittenTickets(h)' = WrittenTickets(h)
          /\ OnTheWay(h)' = OnTheWay(h) \cup {t + 1}
      BY <2>5 DEF Enters
    <3>2. Fate(h)' = [n \in 1 .. t + 1 |-> IF n = t + 1 THEN "pending" ELSE Fates[h][n]]
      <4> DEFINE new == [n \in 1 .. t + 1 |-> IF n = t + 1 THEN "pending" ELSE Fates[h][n]]
      <4>1. ASSUME NEW n \in 1 .. t + 1 PROVE Fate(h)'[n] = new[n]
        <5>1. CASE n = t + 1
          BY <2>4, <2>a, <3>1, <5>1
        <5>2. CASE n # t + 1
          <6>1. n \in 1 .. t
            BY <2>4, <5>2
          <6> QED BY <2>4, <2>a, <2>b, <3>1, <5>2, <6>1
        <5> QED BY <5>1, <5>2
      <4> QED BY <2>a, <3>1, <4>1
    <3>3. Cardinality(Channel!Pending(h)) < QueueSize + 1
      <4>1. Len(queue[h]) < QueueSize /\ Len(queue[h]) \in Nat /\ QueueSize \in Nat
        BY <2>5, Positions, ConstantsAssumption DEF Enters, Sound
      <4> QED BY <2>c, <4>1, WayIsNarrow
    <3>4. Channel!Accept(h)
      <4>1. tickets' = [tickets EXCEPT ![h] = tickets[h] + 1]
        BY <2>2, <3>1
      <4>2. Fates' = [Fates EXCEPT ![h] = [n \in 1 .. tickets[h] + 1 |->
                        IF n = tickets[h] + 1 THEN "pending" ELSE Fates[h][n]]]
        BY <2>3, <3>2
      <4>3. Channel!Cardinality(Channel!Pending(h)) < QueueSize + 1
        BY <3>3, SameCount
      <4> QED BY <4>1, <4>2, <4>3 DEF Channel!Accept, Fates
    <3> QED BY <3>4 DEF Channel!Next
  <2>6. ASSUME NEW n, IsWritten(h, n) PROVE Channel!Deliver(h)
    <3>1. /\ n \in OnTheWay(h) /\ n \in 1 .. t /\ \A m \in OnTheWay(h) : n <= m
          /\ tickets'[h] = t /\ OnTheWay(h)' = OnTheWay(h) \ {n}
          /\ WrittenTickets(h)' = WrittenTickets(h) \cup {n}
      BY <2>4, <2>6 DEF IsWritten, Leaves
    <3>2. Fate(h)' = [Fate(h) EXCEPT ![n] = "written"]
      BY <2>a, <2>b, <3>1
    <3>3. Fates' = [Fates EXCEPT ![h][n] = "written"]
      BY <2>3, <2>a, <3>2
    <3>4. tickets' = tickets
      BY <1>1, <2>1, <3>1
    <3>5. Channel!Settle(h, "written")
      BY <2>c, <3>1, <3>3, <3>4 DEF Channel!Settle, Fates
    <3> QED BY <3>5 DEF Channel!Deliver
  <2>7. ASSUME NEW n, IsLost(h, n) PROVE Channel!GiveUp(h)
    <3>1. /\ n \in OnTheWay(h) /\ n \in 1 .. t /\ \A m \in OnTheWay(h) : n <= m
          /\ tickets'[h] = t /\ OnTheWay(h)' = OnTheWay(h) \ {n}
          /\ WrittenTickets(h)' = WrittenTickets(h) /\ n \notin WrittenTickets(h)
          /\ "stream" \in Faults
      BY <2>4, <2>7 DEF IsLost, Leaves
    <3>2. Fate(h)' = [Fate(h) EXCEPT ![n] = "lost"]
      <4>1. ASSUME NEW m \in 1 .. t PROVE Fate(h)'[m] = IF m = n THEN "lost" ELSE Fate(h)[m]
        BY <2>a, <2>b, <3>1
      <4> QED BY <2>a, <2>b, <3>1, <4>1
    <3>3. Fates' = [Fates EXCEPT ![h][n] = "lost"]
      BY <2>3, <2>a, <3>2
    <3>4. tickets' = tickets
      BY <1>1, <2>1, <3>1
    <3>5. Channel!Settle(h, "lost")
      BY <2>c, <3>1, <3>3, <3>4 DEF Channel!Settle, Fates
    <3> QED BY <3>1, <3>5 DEF Channel!GiveUp
  <2> QED BY <1>3, <2>5, <2>6, <2>7 DEF Moves, Channel!Next
<1> QED BY <1>2, <1>3, StepMoves DEF OneMoves

\* LP-006 to LP-009: every pipeline behaves as a LogChannel.
THEOREM IsChannel == Spec => ImplementsChannel
<1>1. Init => Channel!Init
  <2> SUFFICES ASSUME Init PROVE Channel!Init
    OBVIOUS
  <2>1. tickets = [h \in Pipelines |-> 0]
    BY DEF Init
  <2>2. \A h \in Pipelines : Fate(h) = [n \in 1 .. 0 |-> "pending"]
    BY <2>1 DEF Fate
  <2> QED BY <2>1, <2>2 DEF Channel!Init
<1>2. Sound /\ Sound' /\ Ranged /\ Ranged' /\ [Next]_vars => [Channel!Next]_(Channel!channels)
  BY ChannelStep
<1> QED BY <1>1, <1>2, AlwaysSound, AlwaysThere, PTL DEF Spec, ImplementsChannel, Channel!Spec

-----------------------------------------------------------------------------
(* What a flush covers.                                                    *)

\* The markers of a caller are numbered by its calls, and the one that it is about
\* to put is not on its way yet.
MarkOf(item, f) == item.kind = "marker" /\ item.by = f
Numbered(n, f) == n <= calls[f] /\ (fpc[f] = "mark" => n < calls[f])
MarksNumbered == \A f \in Flushers :
  /\ \A h \in Pipelines : \A i \in DOMAIN queue[h] :
       MarkOf(queue[h][i], f) => Numbered(queue[h][i].n, f)
  /\ \A w \in Writers :
       wpc[w] = "handle" /\ MarkOf(hand[w], f) => Numbered(hand[w].n, f)
  /\ \A m \in released : m[1] = f => Numbered(m[2], f)

\* Behind the marker of a caller that waits, in the queue or in the writer's hand,
\* there is no line that was there when it called.
NoneBehind(h, i, b) == \A j \in QueuedLines(h) : i < j => b < queue[h][j].n
MarksBehind == \A f \in Flushers : fpc[f] = "wait" =>
  /\ \A i \in DOMAIN queue[fon[f]] :
       MarkOf(queue[fon[f]][i], f) /\ queue[fon[f]][i].n = calls[f]
       => NoneBehind(fon[f], i, before[f])
  /\ \A w \in Writers :
       wpc[w] = "handle" /\ MarkOf(hand[w], f) /\ hand[w].n = calls[f]
       => NoneBehind(fon[f], 0, before[f])

CalledBefore == \A f \in Flushers : fpc[f] # "idle" => before[f] <= tickets[fon[f]]

Marked == MarksNumbered /\ MarksBehind /\ CalledBefore /\ FlushCovers

\* What has left the process stays out, whatever is written behind it.
DurableStays == \A h \in Pipelines : DurableTickets(h) \subseteq DurableTickets(h)'

LEMMA DurableGrows ==
  ASSUME Sound, Sound', [Next]_vars
  PROVE  DurableStays
<1>1. /\ stream \in Seq(Entry) /\ Len(stream) \in Nat /\ flushed \in 0 .. Len(stream)
      /\ flushed' \in 0 .. Len(stream')
  BY DEF Sound, TypeOK, SinkTypeOK
<1>2. ASSUME NEW h \in Pipelines, flushed' \in Nat, flushed <= flushed',
             \A k \in 1 .. Len(stream) : stream'[k] = stream[k]
      PROVE  DurableTickets(h) \subseteq DurableTickets(h)'
  <2>1. \A k \in 1 .. flushed : k \in 1 .. flushed' /\ stream'[k] = stream[k]
    BY <1>1, <1>2
  <2> QED BY <2>1 DEF DurableTickets, WrittenUpTo
<1>3. ASSUME stream' = stream, flushed' \in {flushed, Len(stream)}
      PROVE  DurableStays
  BY <1>1, <1>2, <1>3 DEF DurableStays
<1>4. ASSUME NEW w \in Writers, WriteLine(w) PROVE DurableStays
  <2>1. /\ \A k \in 1 .. Len(stream) : stream'[k] = stream[k]
        /\ Len(stream') \in {Len(stream) + 1, Len(stream) + 2}
        /\ flushed' \in {flushed, Len(stream), Len(stream')}
    BY <1>4, WritePositions DEF Sound
  <2>2. flushed <= flushed' /\ flushed' \in Nat
    BY <1>1, <2>1
  <2> QED BY <1>2, <2>1, <2>2 DEF DurableStays
<1>5. ASSUME NEW p \in Producers, Emit(p) PROVE UNCHANGED <<stream, flushed>>
  BY <1>5 DEF Emit, Dispatch, SeeStarted, StartedMeanwhile, ClaimStart, CreateWriter,
              LaunchWriter, LaunchFails, Prepare, PrepareFails, Enqueue, CheckRoom, OfferFull, CountDrop
<1>6. ASSUME NEW w \in Writers, Write(w), ~ WriteLine(w)
      PROVE  stream' = stream /\ flushed' \in {flushed, Len(stream)}
  BY <1>6 DEF Write, Take, HandleMarker, WriteFails, FlushIfEmpty, FlushFails
<1>7. ASSUME NEW f \in Flushers, Flush(f) PROVE UNCHANGED <<stream, flushed>>
  BY <1>7 DEF Flush, FlushCall, PutMarker, FlushReleased, FlushTimesOut
<1>8. CASE UNCHANGED vars
  BY <1>3, <1>8
<1> QED BY <1>3, <1>4, <1>5, <1>6, <1>7, <1>8 DEF Next, Finished

\* A caller whose marker has been set stays covered.
LEMMA StillCovered ==
  ASSUME Sound, FlushCovers, DurableStays, ~ broken, NEW f \in Flushers, fpc[f] = "wait",
         <<f, calls[f]>> \in released, before'[f] = before[f], fon'[f] = fon[f]
  PROVE  1 .. before'[f] \subseteq DurableTickets(fon[f])'
<1>1. PICK h \in Pipelines : h = fon[f]
  BY DEF Sound, Shape, FlushShape, TypeOK, StateTypeOK
<1>2. 1 .. before[f] \subseteq DurableTickets(h)
  BY <1>1 DEF FlushCovers
<1>3. DurableTickets(fon[f])' = DurableTickets(h)'
  BY <1>1 DEF DurableTickets
<1> QED BY <1>2, <1>3 DEF DurableStays

\* A step that sets no marker for a caller.
LEMMA NoneSet ==
  ASSUME Sound, FlushCovers, DurableStays, ~ broken' => ~ broken,
         \A f \in Flushers : fpc'[f] = "wait" /\ <<f, calls'[f]>> \in released' =>
           /\ fpc[f] = "wait" /\ <<f, calls[f]>> \in released
           /\ before'[f] = before[f] /\ fon'[f] = fon[f]
  PROVE  FlushCovers'
BY StillCovered DEF FlushCovers

\* A step that touches no queue, no marker and no caller.
MarkFrame ==
  /\ UNCHANGED <<queue, tickets, released, fpc, fon, calls, before>>
  /\ \A w \in Writers : wpc'[w] = "handle" => wpc[w] = "handle" /\ hand'[w] = hand[w]

LEMMA FrameKeepsMarks ==
  ASSUME Sound, Marked, MarkFrame, DurableStays, ~ broken' => ~ broken
  PROVE  Marked'
<1>1. MarksNumbered'
  BY DEF Marked, MarksNumbered, MarkFrame, Numbered
<1>2. MarksBehind'
  BY DEF Marked, MarksBehind, MarkFrame, NoneBehind, QueuedLines
<1>3. CalledBefore'
  BY DEF Marked, CalledBefore, MarkFrame
<1>4. FlushCovers'
  BY NoneSet DEF Marked, MarkFrame
<1> QED BY <1>1, <1>2, <1>3, <1>4 DEF Marked

\* put, item by item.
LEMMA EndPositions ==
  ASSUME TypeOK, NEW h \in Pipelines, NEW x \in Item,
         queue' = [queue EXCEPT ![h] = Append(queue[h], x)]
  PROVE  /\ \A g \in Pipelines : g # h => queue'[g] = queue[g]
         /\ DOMAIN queue[h] = 1 .. Len(queue[h]) /\ Len(queue[h]) \in Nat
         /\ QueuedLines(h) \subseteq 1 .. Len(queue[h])
         /\ DOMAIN queue'[h] = 1 .. Len(queue[h]) + 1
         /\ queue'[h][Len(queue[h]) + 1] = x
         /\ \A i \in 1 .. Len(queue[h]) : queue'[h][i] = queue[h][i]
         /\ \A j \in QueuedLines(h)' :
              j \in QueuedLines(h) \/ (j = Len(queue[h]) + 1 /\ x.kind = "line")
<1> DEFINE m == Len(queue[h])
<1>1. /\ DOMAIN queue[h] = 1 .. m /\ m \in Nat /\ QueuedLines(h) \subseteq 1 .. m
  BY Positions
<1>2. /\ \A g \in Pipelines : g # h => queue'[g] = queue[g]
      /\ DOMAIN queue'[h] = 1 .. Len(queue[h]) + 1
      /\ queue'[h][Len(queue[h]) + 1] = x
      /\ \A i \in 1 .. Len(queue[h]) : queue'[h][i] = queue[h][i]
      /\ QueuedLines(h)' = QueuedLines(h) \cup
              (IF x.kind = "line" THEN {Len(queue[h]) + 1} ELSE {})
  BY AppendPositions
<1> HIDE DEF m
<1>3. \A j \in QueuedLines(h)' : j \in QueuedLines(h)
                                 \/ j \in (IF x.kind = "line" THEN {m + 1} ELSE {})
  BY <1>2 DEF m
<1>4. \A j : j \in (IF x.kind = "line" THEN {m + 1} ELSE {}) => j = m + 1 /\ x.kind = "line"
  OBVIOUS
<1> QED BY <1>1, <1>2, <1>3, <1>4 DEF m

\* A line that enters the queue is newer than every flush that has been called.
LEMMA LineKeepsMarks ==
  ASSUME Sound, Marked, DurableStays, ~ broken' => ~ broken,
         NEW h \in Pipelines, NEW x \in Item, x.kind = "line", x.n = tickets[h] + 1,
         queue' = [queue EXCEPT ![h] = Append(queue[h], x)],
         tickets' = [tickets EXCEPT ![h] = @ + 1],
         \A f \in Flushers : fpc[f] # "idle" => fon[f] = h,
         UNCHANGED <<wpc, hand, released, fpc, fon, calls, before>>
  PROVE  Marked'
<1> DEFINE m == Len(queue[h])
<1>1. TypeOK /\ tickets'[h] = tickets[h] + 1 /\ tickets[h] \in Nat
  BY DEF Sound, TypeOK, PipeTypeOK
<1>3. \A f \in Flushers : fpc[f] # "idle" =>
        fon[f] = h /\ before[f] \in Nat /\ before[f] <= tickets[h]
  BY <1>1 DEF Marked, CalledBefore, TypeOK, FlushTypeOK
<1>4. /\ \A g \in Pipelines : g # h => queue'[g] = queue[g]
      /\ DOMAIN queue[h] = 1 .. m /\ m \in Nat /\ QueuedLines(h) \subseteq 1 .. m
      /\ DOMAIN queue'[h] = 1 .. m + 1 /\ queue'[h][m + 1] = x
      /\ \A i \in 1 .. m : queue'[h][i] = queue[h][i]
      /\ \A j \in QueuedLines(h)' : j \in QueuedLines(h) \/ j = m + 1
  BY <1>1, EndPositions
<1> HIDE DEF m
<1>5. \A i \in 1 .. m + 1 : i \in 1 .. m \/ i = m + 1
  BY <1>4
<1>6. MarksNumbered'
  <2>1. \A f \in Flushers : \A g \in Pipelines : \A i \in DOMAIN queue'[g] :
          MarkOf(queue'[g][i], f) => i \in DOMAIN queue[g] /\ queue'[g][i] = queue[g][i]
    BY <1>1, <1>4, <1>5 DEF MarkOf
  <2> QED BY <1>1, <2>1 DEF Marked, MarksNumbered, Numbered
<1>7. MarksBehind'
  <2>2. ASSUME NEW f \in Flushers, fpc[f] = "wait", NEW i, NoneBehind(h, i, before[f])
        PROVE  \A j \in QueuedLines(h)' : i < j => before[f] < queue'[h][j].n
    <3>1. \A j \in QueuedLines(h)' : j \in QueuedLines(h) \/ j = m + 1
      BY <1>4
    <3>2. \A j \in QueuedLines(h) : queue'[h][j] = queue[h][j]
      BY <1>4
    <3>3. before[f] < queue'[h][m + 1].n
      BY <1>1, <1>3, <1>4, <2>2
    <3> QED BY <2>2, <3>1, <3>2, <3>3 DEF NoneBehind
  <2>3. ASSUME NEW f \in Flushers, fpc[f] = "wait", NEW i \in DOMAIN queue'[h],
               MarkOf(queue'[h][i], f)
        PROVE  i \in DOMAIN queue[h] /\ queue'[h][i] = queue[h][i]
    BY <1>1, <1>4, <1>5, <2>3 DEF MarkOf
  <2>4. ASSUME NEW f \in Flushers, fpc'[f] = "wait"
        PROVE  /\ \A i \in DOMAIN queue'[h] :
                    MarkOf(queue'[h][i], f) /\ queue'[h][i].n = calls'[f]
                    => NoneBehind(h, i, before[f])'
               /\ \A w \in Writers :
                    wpc'[w] = "handle" /\ MarkOf(hand'[w], f) /\ hand'[w].n = calls'[f]
                    => NoneBehind(h, 0, before[f])'
    <3>1. fpc[f] = "wait" /\ fon[f] = h /\ before' = before /\ calls' = calls
      BY <1>1, <1>3, <2>4
    <3>2. \A i : NoneBehind(h, i, before[f]) => NoneBehind(h, i, before[f])'
      BY <2>2, <3>1 DEF NoneBehind
    <3> QED BY <1>1, <2>3, <3>1, <3>2 DEF Marked, MarksBehind
  <2>5. \A f \in Flushers : fpc'[f] = "wait" => fon'[f] = h
    BY <1>1, <1>3
  <2> QED BY <2>4, <2>5 DEF MarksBehind
<1>8. CalledBefore'
  BY <1>1, <1>3 DEF CalledBefore
<1>9. FlushCovers'
  BY <1>1, NoneSet DEF Marked
<1> QED BY <1>6, <1>7, <1>8, <1>9 DEF Marked

\* A new marker comes behind every line that was there when its caller called, and
\* nothing is known of it yet.
LEMMA MarkerKeepsMarks ==
  ASSUME Sound, Marked, DurableStays, ~ broken' => ~ broken,
         NEW g \in Flushers, fpc[g] = "mark", fpc' = [fpc EXCEPT ![g] = "wait"],
         NEW h \in Pipelines, NEW x \in Item, x.kind = "marker", x.by = g, x.n = calls[g],
         queue' = [queue EXCEPT ![h] = Append(queue[h], x)],
         \A f \in Flushers : fpc[f] # "idle" => fon[f] = h,
         UNCHANGED <<wpc, hand, released, fon, calls, before, tickets>>
  PROVE  Marked'
<1> DEFINE m == Len(queue[h])
<1>1. /\ TypeOK /\ calls \in [Flushers -> Nat]
      /\ fpc'[g] = "wait" /\ \A f \in Flushers : f # g => fpc'[f] = fpc[f]
  BY DEF Sound, TypeOK, FlushTypeOK
<1>2. /\ \A k \in Pipelines : k # h => queue'[k] = queue[k]
      /\ DOMAIN queue[h] = 1 .. m /\ m \in Nat /\ QueuedLines(h) \subseteq 1 .. m
      /\ DOMAIN queue'[h] = 1 .. m + 1 /\ queue'[h][m + 1] = x
      /\ \A i \in 1 .. m : queue'[h][i] = queue[h][i]
      /\ \A j \in QueuedLines(h)' : j \in QueuedLines(h)
  BY <1>1, EndPositions
<1> HIDE DEF m
<1>3. \A i \in 1 .. m + 1 : i \in 1 .. m \/ i = m + 1
  BY <1>2
<1>4. \A f \in Flushers : \A k \in Pipelines : \A i \in DOMAIN queue'[k] :
        MarkOf(queue'[k][i], f) =>
          \/ i \in DOMAIN queue[k] /\ queue'[k][i] = queue[k][i]
          \/ f = g /\ queue'[k][i] = x /\ i = m + 1
  BY <1>2, <1>3 DEF MarkOf
<1>5. \A f \in Flushers : \A n : Numbered(n, f) => Numbered(n, f)'
  BY <1>1 DEF Numbered
<1>6. MarksNumbered'
  <2>1. Numbered(calls[g], g)'
    BY <1>1 DEF Numbered
  <2> QED BY <1>4, <1>5, <2>1 DEF Marked, MarksNumbered
<1>7. \A n : Numbered(n, g) => n # calls[g]
  BY <1>1 DEF Numbered
<1>8. MarksBehind'
  <2>1. \A i, b : NoneBehind(h, i, b) => \A j \in QueuedLines(h)' : i < j => b < queue'[h][j].n
    BY <1>2 DEF NoneBehind
  <2>2. \A j \in QueuedLines(h)' : ~ m + 1 < j
    BY <1>2
  <2>3. ASSUME NEW f \in Flushers, fpc'[f] = "wait"
        PROVE  /\ \A i \in DOMAIN queue'[h] :
                    MarkOf(queue'[h][i], f) /\ queue'[h][i].n = calls'[f]
                    => NoneBehind(h, i, before[f])'
               /\ \A w \in Writers :
                    wpc'[w] = "handle" /\ MarkOf(hand'[w], f) /\ hand'[w].n = calls'[f]
                    => NoneBehind(h, 0, before[f])'
    <3>1. CASE f # g
      <4>1. fpc[f] = "wait" /\ fon[f] = h
        BY <1>1, <2>3, <3>1
      <4>2. ASSUME NEW i \in DOMAIN queue'[h], MarkOf(queue'[h][i], f), queue'[h][i].n = calls'[f]
            PROVE  NoneBehind(h, i, before[f])'
        <5>1. i \in DOMAIN queue[h] /\ queue'[h][i] = queue[h][i]
          BY <1>4, <3>1, <4>2
        <5>2. NoneBehind(h, i, before[f])
          BY <4>1, <4>2, <5>1 DEF Marked, MarksBehind
        <5> QED BY <2>1, <5>2 DEF NoneBehind
      <4>3. ASSUME NEW w \in Writers, wpc'[w] = "handle", MarkOf(hand'[w], f), hand'[w].n = calls'[f]
            PROVE  NoneBehind(h, 0, before[f])'
        <5>1. NoneBehind(h, 0, before[f])
          BY <4>1, <4>3 DEF Marked, MarksBehind
        <5> QED BY <2>1, <5>1 DEF NoneBehind
      <4> QED BY <4>2, <4>3
    <3>2. CASE f = g
      <4>1. ASSUME NEW i \in DOMAIN queue'[h], MarkOf(queue'[h][i], f), queue'[h][i].n = calls'[f]
            PROVE  NoneBehind(h, i, before[f])'
        <5>1. i = m + 1
          BY <1>4, <1>7, <3>2, <4>1 DEF Marked, MarksNumbered
        <5> QED BY <2>2, <5>1 DEF NoneBehind
      <4>2. \A w \in Writers : ~ (wpc'[w] = "handle" /\ MarkOf(hand'[w], f) /\ hand'[w].n = calls'[f])
        BY <1>7, <3>2 DEF Marked, MarksNumbered
      <4> QED BY <4>1, <4>2
    <3> QED BY <3>1, <3>2
  <2>4. \A f \in Flushers : fpc'[f] = "wait" => fon'[f] = h
    BY <1>1
  <2> QED BY <2>3, <2>4 DEF MarksBehind
<1>9. CalledBefore'
  BY <1>1 DEF Marked, CalledBefore
<1>10. FlushCovers'
  <2>1. <<g, calls[g]>> \notin released
    BY <1>7 DEF Marked, MarksNumbered
  <2> QED BY <1>1, <2>1, NoneSet DEF Marked
<1> QED BY <1>6, <1>8, <1>9, <1>10 DEF Marked

\* A marker that is taken carries over what holds behind it.
LEMMA TakeKeepsMarks ==
  ASSUME Sound, Marked, DurableStays, ~ broken' => ~ broken,
         NEW w \in Writers, Take(w), NEW h \in Pipelines, h = wqueue[w]
  PROVE  Marked'
<1> DEFINE m == Len(queue[h])
<1>1. /\ TypeOK /\ Shape /\ wpc[w] = "get"
      /\ UNCHANGED <<released, fpc, fon, calls, before, tickets>>
      /\ \A v \in Writers : v # w => wpc'[v] = wpc[v] /\ hand'[v] = hand[v]
  BY DEF Sound, Take, TypeOK, WriterTypeOK
<1>2. /\ \A g \in Pipelines : g # h => queue'[g] = queue[g]
      /\ m > 0 /\ m \in Nat /\ DOMAIN queue'[h] = 1 .. m - 1
      /\ \A i \in 1 .. m - 1 : queue'[h][i] = queue[h][i + 1]
      /\ Head(queue[h]) = queue[h][1] /\ DOMAIN queue[h] = 1 .. m
  BY <1>1, TakePositions, Positions
<1>3. \A j \in QueuedLines(h)' : j \in 1 .. m - 1 /\ j + 1 \in QueuedLines(h)
  BY <1>1, TakePositions
<1>4. wpc'[w] = "handle" => hand'[w] = queue[h][1]
  BY <1>1, <1>2 DEF Take, TypeOK, WriterTypeOK
<1> HIDE DEF m
<1>5. 1 \in DOMAIN queue[h] /\ \A i \in 1 .. m - 1 : i + 1 \in DOMAIN queue[h]
  BY <1>2
<1>6. MarksNumbered'
  <2>1. ASSUME NEW g \in Pipelines, NEW i \in DOMAIN queue'[g]
        PROVE  \E j \in DOMAIN queue[g] : queue'[g][i] = queue[g][j]
    <3>1. CASE g = h
      <4>1. i \in 1 .. m - 1
        BY <1>2, <3>1
      <4>2. i + 1 \in DOMAIN queue[g] /\ queue'[g][i] = queue[g][i + 1]
        BY <1>2, <1>5, <3>1, <4>1
      <4> QED BY <4>2
    <3> QED BY <1>2, <3>1
  <2>2. \A f \in Flushers : \A n : Numbered(n, f) <=> Numbered(n, f)'
    BY <1>1 DEF Numbered
  <2> QED BY <1>1, <1>4, <1>5, <2>1, <2>2 DEF Marked, MarksNumbered
<1>7. MarksBehind'
  <2>1. ASSUME NEW i \in Nat, NEW b, NoneBehind(h, i + 1, b), NEW j \in QueuedLines(h)', i < j
        PROVE  b < queue'[h][j].n
    <3>1. j \in Nat /\ j + 1 \in QueuedLines(h) /\ i + 1 < j + 1 /\ queue'[h][j] = queue[h][j + 1]
      BY <1>2, <1>3, <2>1
    <3> QED BY <2>1, <3>1 DEF NoneBehind
  <2>2. ASSUME NEW b, NoneBehind(h, 0, b), NEW j \in QueuedLines(h)', 0 < j
        PROVE  b < queue'[h][j].n
    <3>1. j \in Nat /\ j + 1 \in QueuedLines(h) /\ 0 < j + 1 /\ queue'[h][j] = queue[h][j + 1]
      BY <1>2, <1>3, <2>2
    <3> QED BY <2>2, <3>1 DEF NoneBehind
  <2>3. ASSUME NEW f \in Flushers, fpc'[f] = "wait"
        PROVE  /\ fon'[f] = h
               /\ \A i \in DOMAIN queue'[h] :
                    MarkOf(queue'[h][i], f) /\ queue'[h][i].n = calls'[f]
                    => NoneBehind(h, i, before[f])'
               /\ \A v \in Writers :
                    wpc'[v] = "handle" /\ MarkOf(hand'[v], f) /\ hand'[v].n = calls'[f]
                    => NoneBehind(h, 0, before[f])'
    <3>1. fpc[f] = "wait" /\ fon[f] = h
      BY <1>1, <2>3 DEF Shape, FlushShape, WriterShape
    <3>2. /\ \A i \in DOMAIN queue[h] :
               MarkOf(queue[h][i], f) /\ queue[h][i].n = calls[f]
               => NoneBehind(h, i, before[f])
          /\ \A v \in Writers :
               wpc[v] = "handle" /\ MarkOf(hand[v], f) /\ hand[v].n = calls[f]
               => NoneBehind(h, 0, before[f])
      BY <3>1 DEF Marked, MarksBehind
    <3>3. ASSUME NEW i \in DOMAIN queue'[h], MarkOf(queue'[h][i], f), queue'[h][i].n = calls'[f]
          PROVE  NoneBehind(h, i, before[f])'
      <4>1. i \in Nat /\ i \in 1 .. m - 1 /\ queue'[h][i] = queue[h][i + 1]
        BY <1>2
      <4>2. NoneBehind(h, i + 1, before[f])
        BY <1>1, <1>5, <3>2, <3>3, <4>1
      <4> QED BY <1>1, <2>1, <4>1, <4>2 DEF NoneBehind
    <3>4. ASSUME NEW v \in Writers, wpc'[v] = "handle", MarkOf(hand'[v], f), hand'[v].n = calls'[f]
          PROVE  NoneBehind(h, 0, before[f])'
      <4>1. CASE v # w
        BY <1>1, <2>2, <3>2, <3>4, <4>1 DEF NoneBehind
      <4>2. CASE v = w
        <5>1. NoneBehind(h, 1, before[f])
          BY <1>1, <1>4, <1>5, <3>2, <3>4, <4>2
        <5>2. NoneBehind(h, 0 + 1, before[f]) /\ 0 \in Nat
          BY <5>1
        <5> QED BY <1>1, <2>1, <5>2 DEF NoneBehind
      <4> QED BY <4>1, <4>2
    <3>5. fon'[f] = h
      BY <1>1, <3>1
    <3> QED BY <3>3, <3>4, <3>5
  <2> QED BY <2>3 DEF MarksBehind
<1>8. CalledBefore'
  BY <1>1 DEF Marked, CalledBefore
<1>9. FlushCovers'
  BY <1>1, NoneSet DEF Marked
<1> QED BY <1>6, <1>7, <1>8, <1>9 DEF Marked

\* A writer that sets a marker has written every line before it, and flushes them.
LEMMA ReleaseKeepsMarks ==
  ASSUME Sound, Marked, AllThere, DurableStays, ~ broken' => ~ broken,
         NEW w \in Writers, HandleMarker(w)
  PROVE  Marked'
<1>1. /\ TypeOK /\ Shape /\ OneHand /\ wpc[w] = "handle" /\ hand[w].kind = "marker"
      /\ released' = released \cup {<<hand[w].by, hand[w].n>>}
      /\ ~ broken' => flushed' = Len(stream)
      /\ UNCHANGED <<queue, tickets, stream, fpc, fon, calls, before>>
      /\ \A v \in Writers : wpc'[v] = "handle" => v # w /\ wpc[v] = "handle" /\ hand'[v] = hand[v]
  BY AllOneHand DEF Sound, HandleMarker, TypeOK, WriterTypeOK, SinkTypeOK
<1>2. \A f \in Flushers : \A n : Numbered(n, f) <=> Numbered(n, f)'
  BY <1>1 DEF Numbered
<1>3. MarksNumbered'
  <2>1. \A f \in Flushers : hand[w].by = f => Numbered(hand[w].n, f)
    BY <1>1 DEF Marked, MarksNumbered, MarkOf
  <2>2. \A c \in released' : c \in released \/ (c[1] = hand[w].by /\ c[2] = hand[w].n)
    BY <1>1
  <2> QED BY <1>1, <1>2, <2>1, <2>2 DEF Marked, MarksNumbered
<1>4. MarksBehind'
  BY <1>1 DEF Marked, MarksBehind, NoneBehind, QueuedLines
<1>5. CalledBefore'
  BY <1>1 DEF Marked, CalledBefore
<1>6. ASSUME ~ broken', NEW f \in Flushers, fpc[f] = "wait", hand[w].by = f, hand[w].n = calls[f]
      PROVE  1 .. before[f] \subseteq DurableTickets(fon[f])'
  <2>1. PICK h \in Pipelines : h = fon[f]
    BY <1>1, <1>6 DEF Shape, FlushShape, TypeOK, StateTypeOK
  <2>2. wqueue[w] = h /\ wpc[w] # "unmade"
    BY <1>1, <1>6, <2>1 DEF Shape, FlushShape, WriterShape
  <2>3. HeldTickets(h) = {}
    <3>1. HeldTickets(h) = {n \in {hand[w].n} : wpc[w] = "handle" /\ hand[w].kind = "line"}
      BY <1>1, <2>2 DEF OneHand
    <3> QED BY <1>1, <3>1
  <2>4. before[f] \in Nat /\ tickets[h] \in Nat /\ before[f] <= tickets[h]
    BY <1>1, <1>6, <2>1 DEF Marked, CalledBefore, TypeOK, FlushTypeOK, PipeTypeOK
  <2>5. NoneBehind(h, 0, before[f])
    BY <1>1, <1>6, <2>1 DEF Marked, MarksBehind, MarkOf
  <2>6. \A n \in QueuedTickets(h) : before[f] < n
    <3>1. \A j \in QueuedLines(h) : 0 < j
      BY <1>1, Positions
    <3> QED BY <2>5, <3>1 DEF NoneBehind, QueuedTickets
  <2>7. 1 .. tickets[h] \subseteq OnTheWay(h) \cup WrittenTickets(h)
    BY <1>6 DEF AllThere
  <2>8. 1 .. before[f] \subseteq WrittenTickets(h)
    BY <2>3, <2>4, <2>6, <2>7 DEF OnTheWay
  <2>9. DurableTickets(fon[f])' = WrittenTickets(h)
    BY <1>1, <1>6, <2>1 DEF DurableTickets, WrittenTickets, WrittenUpTo
  <2> QED BY <2>8, <2>9
<1>7. FlushCovers'
  <2>1. ASSUME ~ broken', NEW f \in Flushers, fpc[f] = "wait", <<f, calls[f]>> \in released'
        PROVE  1 .. before'[f] \subseteq DurableTickets(fon[f])'
    <3>1. <<f, calls[f]>> \in released \/ (hand[w].by = f /\ hand[w].n = calls[f])
      BY <1>1, <2>1
    <3>2. CASE <<f, calls[f]>> \in released
      BY <1>1, <2>1, <3>2, StillCovered DEF Marked
    <3> QED BY <1>1, <1>6, <2>1, <3>1, <3>2
  <2> QED BY <1>1, <2>1 DEF FlushCovers
<1> QED BY <1>3, <1>4, <1>5, <1>7 DEF Marked

\* A caller that calls again or returns.
LEMMA CallKeepsMarks ==
  ASSUME Sound, Marked, DurableStays, ~ broken' => ~ broken,
         NEW g \in Flushers, FlushCall(g) \/ FlushReleased(g) \/ FlushTimesOut(g)
  PROVE  Marked'
<1>1. /\ UNCHANGED <<queue, tickets, released, wpc, hand>>
      /\ TypeOK /\ calls \in [Flushers -> Nat]
      /\ fpc'[g] # "wait"
      /\ \A f \in Flushers : f # g => fpc'[f] = fpc[f] /\ fon'[f] = fon[f]
                                      /\ calls'[f] = calls[f] /\ before'[f] = before[f]
      /\ \/ calls'[g] = calls[g] /\ fpc'[g] = "idle"
         \/ /\ calls'[g] = calls[g] + 1
            /\ handler \in Pipelines /\ fon'[g] = handler /\ before'[g] = tickets[handler]
  BY DEF Sound, TypeOK, FlushTypeOK, FlushCall, FlushReleased, FlushTimesOut
<1>2. \A f \in Flushers : \A n \in Nat : Numbered(n, f) => Numbered(n, f)'
  BY <1>1 DEF Numbered
<1>3. MarksNumbered'
  <2>1. /\ \A h \in Pipelines : \A i \in DOMAIN queue[h] : queue[h][i].n \in Nat
        /\ \A v \in Writers : wpc[v] = "handle" => hand[v].n \in Nat
        /\ \A c \in released : c[2] \in Nat
    BY <1>1, Positions DEF Sound, Shape, WriterShape, Item, TypeOK, SinkTypeOK
  <2> QED BY <1>1, <1>2, <2>1 DEF Marked, MarksNumbered
<1>4. MarksBehind'
  BY <1>1 DEF Marked, MarksBehind, NoneBehind, QueuedLines
<1>5. CalledBefore'
  <2>1. ASSUME NEW f \in Flushers, fpc'[f] # "idle" PROVE before'[f] <= tickets'[fon'[f]]
    <3>1. CASE f # g
      BY <1>1, <2>1, <3>1 DEF Marked, CalledBefore
    <3>2. CASE f = g
      <4>1. tickets[handler] \in Nat /\ before'[f] = tickets[handler] /\ fon'[f] = handler
        BY <1>1, <2>1, <3>2 DEF TypeOK, PipeTypeOK
      <4> QED BY <1>1, <4>1
    <3> QED BY <3>1, <3>2
  <2> QED BY <2>1 DEF CalledBefore
<1>6. FlushCovers'
  <2>1. \A f \in Flushers : fpc'[f] = "wait" => f # g
    BY <1>1
  <2> QED BY <1>1, <2>1, NoneSet DEF Marked
<1> QED BY <1>3, <1>4, <1>5, <1>6 DEF Marked

LEMMA MarkedKept ==
  ASSUME Sound, Sound', AllThere, Marked, [Next]_vars
  PROVE  Marked'
<1>1. DurableStays /\ (~ broken' => ~ broken)
  BY DurableGrows, BrokenStays
<1>2. TypeOK /\ Shape
  BY DEF Sound
<1>3. ASSUME MarkFrame PROVE Marked'
  BY <1>1, <1>3, FrameKeepsMarks
<1>4. ASSUME NEW p \in Producers, Enqueue(p) PROVE Marked'
  <2>1. PICK h \in Pipelines : h = via[p] /\ h = handler
    BY <1>2, <1>4, ViaHandler DEF Enqueue
  <2>2. PICK x \in Item : x = Line(h, p)
    BY <1>2, LineIsItem
  <2>3. /\ queue' = [queue EXCEPT ![h] = Append(queue[h], x)]
        /\ tickets' = [tickets EXCEPT ![h] = @ + 1]
        /\ x.kind = "line" /\ x.n = tickets[h] + 1
        /\ UNCHANGED <<wpc, hand, released, fpc, fon, calls, before>>
    BY <1>4, <2>1, <2>2 DEF Enqueue, Line
  <2>4. \A f \in Flushers : fpc[f] # "idle" => fon[f] = h
    BY <1>2, <2>1 DEF Shape, FlushShape
  <2> QED BY <1>1, <2>3, <2>4, LineKeepsMarks
<1>5. ASSUME NEW f \in Flushers, PutMarker(f) PROVE Marked'
  <2>1. PICK h \in Pipelines : h = fon[f] /\ h = handler
    BY <1>2, <1>5 DEF PutMarker, Shape, FlushShape, TypeOK, StateTypeOK
  <2>2. PICK x \in Item : x = Marker(f)
    BY <1>2, MarkerIsItem
  <2>3. /\ queue' = [queue EXCEPT ![h] = Append(queue[h], x)]
        /\ fpc[f] = "mark" /\ fpc' = [fpc EXCEPT ![f] = "wait"]
        /\ x.kind = "marker" /\ x.by = f /\ x.n = calls[f]
        /\ UNCHANGED <<wpc, hand, released, fon, calls, before, tickets>>
    BY <1>5, <2>1, <2>2 DEF PutMarker, Marker
  <2>4. \A g \in Flushers : fpc[g] # "idle" => fon[g] = h
    BY <1>2, <2>1 DEF Shape, FlushShape
  <2> QED BY <1>1, <2>3, <2>4, MarkerKeepsMarks
<1>6. ASSUME NEW w \in Writers, Take(w) PROVE Marked'
  <2>1. PICK h \in Pipelines : h = wqueue[w]
    BY <1>2, <1>6 DEF Take, Shape, WriterShape, TypeOK, StateTypeOK
  <2> QED BY <1>1, <1>6, <2>1, TakeKeepsMarks
<1>7. ASSUME NEW w \in Writers, WriteLine(w) \/ WriteFails(w) \/ FlushIfEmpty(w) \/ FlushFails(w)
      PROVE  Marked'
  BY <1>2, <1>3, <1>7 DEF MarkFrame, WriteLine, WriteFails, FlushIfEmpty, FlushFails, TypeOK, WriterTypeOK
<1>8. ASSUME NEW p \in Producers, Emit(p), ~ Enqueue(p) PROVE Marked'
  <2>1. CASE CreateWriter(p) \/ LaunchWriter(p)
    BY <1>2, <1>3, <2>1 DEF MarkFrame, CreateWriter, LaunchWriter, TypeOK, WriterTypeOK
  <2>2. CASE ~ CreateWriter(p) /\ ~ LaunchWriter(p)
    BY <1>3, <1>8, <2>2 DEF MarkFrame, Emit, Dispatch, SeeStarted, StartedMeanwhile, ClaimStart,
                        LaunchFails, Prepare, PrepareFails, CheckRoom, OfferFull, CountDrop
  <2> QED BY <2>1, <2>2
<1>9. ASSUME NEW w \in Writers, Write(w) PROVE Marked'
  BY <1>1, <1>6, <1>7, <1>9, ReleaseKeepsMarks DEF Write
<1>10. ASSUME NEW f \in Flushers, Flush(f) PROVE Marked'
  BY <1>1, <1>5, <1>10, CallKeepsMarks DEF Flush
<1>11. CASE UNCHANGED vars
  BY <1>3, <1>11 DEF MarkFrame
<1> QED BY <1>4, <1>8, <1>9, <1>10, <1>11 DEF Next, Finished

\* flush(): whatever the number of callers, their timeouts and the faults, once the
\* marker of a caller has been set, every line that was in the queue when it called
\* has left the process, unless an operation of the stream has failed.
THEOREM FlushCovered == Spec => []FlushCovers
<1>1. Init => Marked
  <2> SUFFICES ASSUME Init PROVE Marked
    OBVIOUS
  <2>1. /\ \A h \in Pipelines : queue[h] = <<>>
        /\ \A w \in Writers : wpc[w] = "unmade"
        /\ \A f \in Flushers : fpc[f] = "idle"
        /\ released = {}
    BY DEF Init
  <2> QED BY <2>1 DEF Marked, MarksNumbered, MarksBehind, CalledBefore, FlushCovers
<1>2. Sound /\ Sound' /\ AllThere /\ Marked /\ [Next]_vars => Marked'
  BY MarkedKept
<1>3. Marked => FlushCovers
  BY DEF Marked
<1> QED BY <1>1, <1>2, <1>3, AlwaysSound, AlwaysThere, PTL DEF Spec

-----------------------------------------------------------------------------
(* What the notices of drops add up to.                                    *)

LEMMA NoticesTotal ==
  ASSUME NEW s, Len(s) \in Nat, NEW h
  PROVE  \E f : IsTotal(f, [i \in 1 .. Len(s) |-> Notice(s[i], h)], Len(s))
                /\ NoticesIn(s, h) = f[Len(s)]
<1> DEFINE v == [i \in 1 .. Len(s) |-> Notice(s[i], h)]
           total == CHOOSE f : f = [i \in 0 .. Len(s) |->
                      IF i = 0 THEN 0 ELSE f[i - 1] + Notice(s[i], h)]
<1>1. NoticesIn(s, h) = total[Len(s)]
  BY DEF NoticesIn
<1>2. \A f : IsTotal(f, v, Len(s)) <=>
        f = [i \in 0 .. Len(s) |-> IF i = 0 THEN 0 ELSE f[i - 1] + Notice(s[i], h)]
  <2>1. \A i \in 0 .. Len(s) : i # 0 => i \in 1 .. Len(s)
    OBVIOUS
  <2>2. \A i \in 1 .. Len(s) : v[i] = Notice(s[i], h)
    OBVIOUS
  <2> HIDE DEF v
  <2>3. ASSUME NEW f
        PROVE  [i \in 0 .. Len(s) |-> IF i = 0 THEN 0 ELSE f[i - 1] + v[i]]
               = [i \in 0 .. Len(s) |-> IF i = 0 THEN 0 ELSE f[i - 1] + Notice(s[i], h)]
    BY <2>1, <2>2
  <2> QED BY <2>3 DEF IsTotal
<1>3. \E f : IsTotal(f, v, Len(s))
  BY TotalExists
<1>4. IsTotal(total, v, Len(s))
  <2>1. \E f : f = [i \in 0 .. Len(s) |-> IF i = 0 THEN 0 ELSE f[i - 1] + Notice(s[i], h)]
    BY <1>2, <1>3
  <2>2. total = [i \in 0 .. Len(s) |-> IF i = 0 THEN 0 ELSE total[i - 1] + Notice(s[i], h)]
    BY <2>1
  <2> QED BY <1>2, <2>2
<1> HIDE DEF v, total
<1> QED BY <1>1, <1>4 DEF v

\* An entry that is appended adds what it says.
LEMMA NoticesAppend ==
  ASSUME NEW S, NEW s \in Seq(S), NEW e \in S, NEW h
  PROVE  NoticesIn(Append(s, e), h) = NoticesIn(s, h) + Notice(e, h)
<1> DEFINE t == Append(s, e)
           n == Len(s)
           v == [i \in 1 .. n |-> Notice(s[i], h)]
           u == [i \in 1 .. n + 1 |-> Notice(t[i], h)]
<1>1. n \in Nat /\ Len(t) = n + 1 /\ t[n + 1] = e /\ \A i \in 1 .. n : t[i] = s[i]
  OBVIOUS
<1>2. PICK f : IsTotal(f, v, n) /\ NoticesIn(s, h) = f[n]
  BY <1>1, NoticesTotal
<1> HIDE DEF t
<1>3. PICK g : IsTotal(g, u, n + 1) /\ NoticesIn(t, h) = g[n + 1]
  <2>1. \E g : IsTotal(g, [i \in 1 .. Len(t) |-> Notice(t[i], h)], Len(t))
                /\ NoticesIn(t, h) = g[Len(t)]
    <3>1. Len(t) \in Nat
      BY <1>1
    <3> QED BY <3>1, NoticesTotal, Zenon
  <2> QED BY <1>1, <2>1
<1>4. \A i \in 1 .. n : v[i] = u[i]
  BY <1>1
<1>5. u[n + 1] = Notice(e, h)
  BY <1>1
<1> HIDE DEF n, u, v
<1>6. g[n + 1] = f[n] + u[n + 1]
  BY <1>1, <1>2, <1>3, <1>4, TotalNext
<1> QED BY <1>2, <1>3, <1>5, <1>6 DEF t

LEMMA NoticesEmpty ==
  ASSUME NEW h
  PROVE  NoticesIn(<<>>, h) = 0
<1>1. Len(<<>>) = 0
  OBVIOUS
<1>2. PICK f : IsTotal(f, [i \in 1 .. Len(<<>>) |-> Notice(<<>>[i], h)], Len(<<>>))
               /\ NoticesIn(<<>>, h) = f[Len(<<>>)]
  BY <1>1, NoticesTotal
<1>3. PICK v : IsTotal(f, v, 0)
  BY <1>1, <1>2
<1>4. 0 \in 0 .. 0
  OBVIOUS
<1>5. f[0] = 0
  BY <1>3, <1>4 DEF IsTotal
<1> QED BY <1>1, <1>2, <1>5

\* While the stream works, the notices of a pipeline add up to what its writer has
\* reported, and there is none before it has a writer.
Served(h) == \E w \in Writers : wpc[w] # "unmade" /\ wqueue[w] = h
Noticed == ~ broken => \A h \in Pipelines :
  /\ \A w \in Writers : wpc[w] # "unmade" /\ wqueue[w] = h => NoticeTotal(h) = reported[w]
  /\ ~ Served(h) => NoticeTotal(h) = 0

\* A step that leaves stream and writers alone, but for where the writers are.
LEMMA StillNoticed ==
  ASSUME Noticed, ~ broken' => ~ broken, UNCHANGED <<stream, wqueue, reported>>,
         \A w \in Writers : wpc'[w] = "unmade" <=> wpc[w] = "unmade"
  PROVE  Noticed'
BY DEF Noticed, Served, NoticeTotal

\* A new writer has no predecessor on its queue.
LEMMA CreateNoticed ==
  ASSUME Sound, OneWriter', Noticed, NEW p \in Producers, CreateWriter(p)
  PROVE  Noticed'
<1>1. PICK w \in Writers :
        /\ handler \in Pipelines /\ wpc[w] = "unmade" /\ wpc'[w] = "made"
        /\ wqueue'[w] = handler /\ reported'[w] = 0
        /\ \A v \in Writers : v # w => wpc'[v] = wpc[v] /\ wqueue'[v] = wqueue[v]
                                       /\ reported'[v] = reported[v]
        /\ UNCHANGED <<stream, broken>>
  BY DEF CreateWriter, Sound, TypeOK, WriterTypeOK
<1>2. ~ Served(handler)
  BY <1>1 DEF Served, OneWriter
<1>3. ASSUME ~ broken', NEW h \in Pipelines
      PROVE  /\ \A v \in Writers : wpc'[v] # "unmade" /\ wqueue'[v] = h
                                   => NoticeTotal(h)' = reported'[v]
             /\ ~ Served(h)' => NoticeTotal(h)' = 0
  <2>1. NoticeTotal(h)' = NoticeTotal(h) /\ ~ broken
    BY <1>1, <1>3 DEF NoticeTotal
  <2>2. \A v \in Writers : wpc'[v] # "unmade" /\ wqueue'[v] = h => NoticeTotal(h) = reported'[v]
    BY <1>1, <1>2, <2>1 DEF Noticed
  <2>3. Served(h) => Served(h)'
    BY <1>1 DEF Served
  <2> QED BY <2>1, <2>2, <2>3 DEF Noticed
<1> QED BY <1>3 DEF Noticed

\* A line that is written, with the notice behind it.
LEMMA WriteNoticed ==
  ASSUME Sound, Noticed, NEW w \in Writers, WriteLine(w), ~ broken'
  PROVE  /\ ~ broken /\ wqueue[w] \in Pipelines
         /\ reported'[w] = dropped[wqueue[w]]
         /\ \A h \in Pipelines :
              NoticeTotal(h)' = IF h = wqueue[w] THEN dropped[h] ELSE NoticeTotal(h)
<1> DEFINE line == [kind |-> "line", on |-> wqueue[w], n |-> hand[w].n]
           notice == [kind |-> "note", on |-> wqueue[w], n |-> Delta(w)]
<1>1. /\ TypeOK /\ Shape /\ wpc[w] = "handle"
      /\ \/ Delta(w) # 0 /\ stream' = Append(Append(stream, line), notice)
         \/ Delta(w) = 0 /\ stream' = Append(stream, line)
      /\ ~ broken /\ reported'[w] = dropped[wqueue[w]]
  BY DEF Sound, WriteLine, TypeOK, SinkTypeOK, WriterTypeOK
<1>2. /\ wqueue[w] \in Pipelines /\ hand[w].n \in Nat
      /\ stream \in Seq(Entry) /\ reported[w] \in Nat /\ dropped[wqueue[w]] \in Nat
      /\ reported[w] <= dropped[wqueue[w]]
  BY <1>1 DEF Shape, WriterShape, TypeOK, StateTypeOK, SinkTypeOK, WriterTypeOK, PipeTypeOK, Item
<1>3. NoticeTotal(wqueue[w]) = reported[w]
  BY <1>1, <1>2 DEF Noticed
<1>4. line \in Entry /\ notice \in Entry /\ Append(stream, line) \in Seq(Entry)
  BY <1>2 DEF Entry
<1>5. ASSUME NEW h
      PROVE  Notice(line, h) = 0 /\ Notice(notice, h) = IF h = wqueue[w] THEN Delta(w) ELSE 0
  BY DEF Notice
<1> HIDE DEF line, notice
<1>6. ASSUME NEW h
      PROVE  NoticeTotal(h)' = NoticesIn(stream', h)
             /\ NoticesIn(Append(stream, line), h) = NoticeTotal(h) + Notice(line, h)
             /\ NoticesIn(Append(Append(stream, line), notice), h)
                = NoticesIn(Append(stream, line), h) + Notice(notice, h)
  BY <1>2, <1>4, NoticesAppend DEF NoticeTotal
<1>7. \A h \in Pipelines : NoticeTotal(h) \in Nat
  BY <1>1 DEF Noticed, Served, Sound, TypeOK, WriterTypeOK
<1>8. ASSUME NEW h \in Pipelines
      PROVE  NoticeTotal(h)' = IF h = wqueue[w] THEN NoticeTotal(h) + Delta(w) ELSE NoticeTotal(h)
  <2>1. CASE stream' = Append(Append(stream, line), notice)
    BY <1>2, <1>5, <1>6, <1>7, <2>1
  <2>2. CASE stream' = Append(stream, line) /\ Delta(w) = 0
    BY <1>5, <1>6, <1>7, <2>2
  <2> QED BY <1>1, <2>1, <2>2
<1>9. reported[w] + Delta(w) = dropped[wqueue[w]]
  BY <1>2
<1> QED BY <1>1, <1>2, <1>3, <1>8, <1>9

\* Only a line that is written adds to what is written.
LEMMA StillWritten ==
  ASSUME stream' = stream
  PROVE  \A h \in Pipelines : WrittenTickets(h)' = WrittenTickets(h)
BY DEF WrittenTickets, WrittenUpTo

LEMMA NoticedKept ==
  ASSUME Sound, Sound', Noticed, [Next]_vars
  PROVE  /\ Noticed'
         /\ \A h \in Pipelines : ~ broken' /\ WrittenTickets(h)' # WrittenTickets(h)
                                 => NoticeTotal(h)' = dropped[h]
<1> DEFINE Told == \A h \in Pipelines : ~ broken' /\ WrittenTickets(h)' # WrittenTickets(h)
                                        => NoticeTotal(h)' = dropped[h]
<1>1. TypeOK /\ TypeOK' /\ Shape /\ OneWriter /\ OneWriter'
  BY DEF Sound
<1>2. ~ broken' => ~ broken
  BY BrokenStays
<1>3. ASSUME NEW w \in Writers, WriteLine(w) PROVE Noticed' /\ Told
  <2> SUFFICES ASSUME ~ broken' PROVE Noticed' /\ Told
    BY DEF Noticed
  <2>1. /\ ~ broken /\ wqueue[w] \in Pipelines /\ reported'[w] = dropped[wqueue[w]]
        /\ \A h \in Pipelines :
             NoticeTotal(h)' = IF h = wqueue[w] THEN dropped[h] ELSE NoticeTotal(h)
    BY <1>3, WriteNoticed
  <2>2. /\ wpc[w] # "unmade" /\ wpc'[w] # "unmade" /\ wqueue' = wqueue
        /\ \A v \in Writers : v # w => wpc'[v] = wpc[v] /\ reported'[v] = reported[v]
    BY <1>1, <1>3 DEF WriteLine, TypeOK, WriterTypeOK
  <2>3. Told
    <3>1. \A h \in Pipelines : h # wqueue[w] => WrittenTickets(h)' = WrittenTickets(h)
      <4>1. ASSUME NEW h \in Pipelines, h # wqueue[w]
            PROVE  WrittenTickets(h)' = WrittenTickets(h)
        <5>1. WrittenTickets(h)' = WrittenTickets(h) \cup {n \in {hand[w].n} : h = wqueue[w]}
          BY <1>1, <1>3, WriteTickets
        <5>2. {n \in {hand[w].n} : h = wqueue[w]} = {}
          BY <4>1
        <5> QED BY <5>1, <5>2
      <4> QED BY <4>1
    <3> QED BY <2>1, <3>1
  <2>4. ASSUME NEW h \in Pipelines
        PROVE  /\ \A v \in Writers : wpc'[v] # "unmade" /\ wqueue'[v] = h
                                     => NoticeTotal(h)' = reported'[v]
               /\ ~ Served(h)' => NoticeTotal(h)' = 0
    <3>1. Served(h)' <=> Served(h)
      BY <2>2 DEF Served
    <3>2. \A v \in Writers : wpc[v] # "unmade" /\ wqueue[v] = h => NoticeTotal(h) = reported[v]
      BY <2>1 DEF Noticed
    <3>3. h = wqueue[w] => \A v \in Writers : wpc[v] # "unmade" /\ wqueue[v] = h => v = w
      BY <1>1, <2>2 DEF OneWriter
    <3>4. h = wqueue[w] => Served(h)
      BY <2>2 DEF Served
    <3>5. ~ Served(h) => NoticeTotal(h) = 0
      BY <2>1 DEF Noticed
    <3> QED BY <2>1, <2>2, <3>1, <3>2, <3>3, <3>4, <3>5
  <2> QED BY <2>3, <2>4 DEF Noticed
<1>4. ASSUME stream' = stream PROVE Told
  BY <1>4, StillWritten
<1>5. ASSUME NEW p \in Producers, Emit(p) PROVE Noticed' /\ Told
  <2>1. stream' = stream
    BY <1>5 DEF Emit, Dispatch, SeeStarted, StartedMeanwhile, ClaimStart, CreateWriter,
              LaunchWriter, LaunchFails, Prepare, PrepareFails, Enqueue, CheckRoom, OfferFull, CountDrop
  <2>2. CASE CreateWriter(p)
    BY <1>1, <1>4, <2>1, <2>2, CreateNoticed
  <2>3. CASE LaunchWriter(p)
    <3>1. \A w \in Writers : wpc'[w] = "unmade" <=> wpc[w] = "unmade"
      BY <1>1, <2>3 DEF LaunchWriter, TypeOK, WriterTypeOK, StateTypeOK
    <3> QED BY <1>2, <1>4, <2>3, <3>1, StillNoticed DEF LaunchWriter
  <2>4. CASE ~ CreateWriter(p) /\ ~ LaunchWriter(p)
    <3>1. UNCHANGED <<wpc, wqueue, reported, stream>>
      BY <1>5, <2>4 DEF Emit, Dispatch, SeeStarted, StartedMeanwhile, ClaimStart,
              LaunchFails, Prepare, PrepareFails, Enqueue, CheckRoom, OfferFull, CountDrop
    <3> QED BY <1>2, <1>4, <3>1, StillNoticed
  <2> QED BY <2>2, <2>3, <2>4
<1>6. ASSUME NEW w \in Writers, Write(w), ~ WriteLine(w) PROVE Noticed' /\ Told
  <2>1. /\ UNCHANGED <<stream, wqueue, reported>> /\ wpc[w] # "unmade" /\ wpc'[w] # "unmade"
        /\ \A v \in Writers : v # w => wpc'[v] = wpc[v]
    BY <1>1, <1>6 DEF Write, Take, HandleMarker, WriteFails, FlushIfEmpty, FlushFails,
                      TypeOK, WriterTypeOK
  <2> QED BY <1>2, <1>4, <2>1, StillNoticed
<1>7. ASSUME NEW f \in Flushers, Flush(f) PROVE Noticed' /\ Told
  <2>1. UNCHANGED <<stream, wqueue, reported, wpc>>
    BY <1>7 DEF Flush, FlushCall, PutMarker, FlushReleased, FlushTimesOut
  <2> QED BY <1>2, <1>4, <2>1, StillNoticed
<1>8. CASE UNCHANGED vars
  BY <1>2, <1>4, <1>8, StillNoticed
<1> QED BY <1>3, <1>5, <1>6, <1>7, <1>8 DEF Next, Finished

\* LP-007: as long as the stream works, whenever a line is written the notices of its
\* pipeline have accounted for every drop counted before, each once, whatever the
\* queue's size, the policy and the number of threads that drop.
THEOREM DropsReported == Spec => NoticesComplete
<1>1. Init => Noticed
  <2> SUFFICES ASSUME Init PROVE Noticed
    OBVIOUS
  <2>1. stream = <<>> /\ \A w \in Writers : wpc[w] = "unmade"
    BY DEF Init
  <2>2. \A h : NoticeTotal(h) = 0
    BY <2>1, NoticesEmpty DEF NoticeTotal
  <2> QED BY <2>1, <2>2 DEF Noticed, Served
<1>2. Sound /\ Sound' /\ Noticed /\ [Next]_vars
      => Noticed' /\ [\A h \in Pipelines : ~ broken' /\ WrittenTickets(h)' # WrittenTickets(h)
                                           => NoticeTotal(h)' = dropped[h]]_vars
  BY NoticedKept
<1> QED BY <1>1, <1>2, AlwaysSound, PTL DEF Spec, NoticesComplete
=============================================================================
