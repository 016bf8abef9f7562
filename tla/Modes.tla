------------------------------- MODULE Modes -------------------------------
(***************************************************************************)
(* The execution modes of semlog (src/src/semlog/_modes.py) and the part   *)
(* of configure() that switches them (_config.py:119-192) while threads    *)
(* log: which handlers a record reaches on its way through Logger._log,    *)
(* Logger.callHandlers and the handlers of its logger and of root.         *)
(*                                                                         *)
(* A handler may log in its turn (an observer, or the formatter with its   *)
(* catalog diagnostic), so every thread has a stack of records in          *)
(* dispatch; a record is known by its place on the stack.  Every record    *)
(* passes the levels of loggers and handlers.  What a pipeline does with a *)
(* record is the business of Transport.                                    *)
(***************************************************************************)
EXTENDS Integers, Sequences, FiniteSets, SequencesExt

CONSTANTS
  Threads,     \* threads that log
  Streams,     \* the application's StreamHandlers
  Observers,   \* the application's other handlers
  Queued,      \* SemlogQueueHandlers that configure() may make
  Direct,      \* synchronous handlers it may make (queue=False): StreamHandlers
  LastResort,  \* logging.lastResort, a StreamHandler
  None,        \* the Python value None
  RootHas,     \* the application's handlers on root, a sequence
  LibHas,      \* those of a library's logger, which does not propagate
  Calls,       \* bound: records each thread logs of its own accord
  Depth,       \* bound: records in dispatch in one thread
  Configs      \* bound: calls of configure()

Pipelines == Queued \cup Direct
Handlers  == Streams \cup Observers \cup Pipelines \cup {LastResort}
Rendering == Streams \cup Direct \cup {LastResort}   \* StreamHandler instances
Loggers   == {"lib", "root"}

\* Logger.addHandler does not add a handler that the logger has.
ASSUME ModesAssumption ==
  /\ RootHas \in Seq(Streams \cup Observers)
  /\ LibHas \in Seq(Streams \cup Observers)
  /\ \A has \in {RootHas, LibHas} :
       \A i, j \in DOMAIN has : has[i] = has[j] => i = j
  /\ LET kinds == <<Streams, Observers, Queued, Direct, {LastResort}>> IN
       \A i, j \in 1 .. 5 : i # j => kinds[i] \cap kinds[j] = {}
  /\ None \notin Handlers
  /\ Calls \in Nat /\ Depth \in Nat /\ Configs \in Nat

VARIABLES
  mode,        \* _modes.state.mode
  marking,     \* _modes.state.marking
  armed,       \* _routing_armed: are callHandlers and StreamHandler.handle wrapped?
  current,     \* _transport._state.handler
  attached,    \* [Loggers -> Seq(Handlers)]: logger.handlers
  propagates,  \* lib.propagate
  stack,       \* [Threads -> Seq(Dispatch)]: records in dispatch, the innermost last
  hidden,      \* [Threads -> 0..Depth]: _dispatching.record, 0 for None
  issued,      \* [Threads -> records logged so far]
  cpc,         \* where configure() is
  target,      \* the mode it has resolved
  capture,     \* capture_loggers names lib
  fresh,       \* the handler it has installed
  left,        \* calls of configure() still to come
  torn         \* history: has the latest configure() raised half way?

registry   == <<attached, propagates>>
switches   == <<mode, marking, armed, current>>
logVars    == <<stack, hidden, issued>>
configVars == <<cpc, target, capture, fresh, left, torn>>
vars == <<switches, registry, logVars, configVars>>

-----------------------------------------------------------------------------
(* A record in dispatch.                                                   *)

Nobody == [h \in Handlers |-> 0]

Dispatch == [semlog : BOOLEAN, marker : BOOLEAN, logger : Loggers, on : Loggers,
             pos : Nat, at : {"route", "deliver", "hide", "walk", "done"},
             via : Pipelines \cup {None}, saved : Nat, found : BOOLEAN,
             got : [Handlers -> Nat], calm : BOOLEAN]

Top(t) == stack[t][Len(stack[t])]
Tops(t, there) == stack[t] # <<>> /\ Top(t).at = there
WithTop(t, d) == [stack EXCEPT ![t][Len(stack[t])] = d]

\* Logger._log: the marker is attached when marking is armed.
NewDispatch(semlog, l) ==
  [semlog |-> semlog, marker |-> semlog /\ marking, logger |-> l, on |-> l,
   pos |-> 1, at |-> "route", via |-> None, saved |-> 0, found |-> FALSE, got |-> Nobody,
   calm |-> cpc = "idle" /\ ~ torn]

\* Thread t goes on with d, and the handler that has it may have logged a record.
Proceed(t, d) ==
  \/ stack' = WithTop(t, d)
  \/ /\ Len(stack[t]) < Depth
     /\ \E semlog \in BOOLEAN, l \in Loggers :
          stack' = [stack EXCEPT ![t] = Append([@ EXCEPT ![Len(@)] = d],
                                               NewDispatch(semlog, l))]

\* A configure() that begins takes the calm from every record in dispatch.
Stir == stack' = [t \in Threads |->
                    [i \in DOMAIN stack[t] |-> [stack[t][i] EXCEPT !.calm = FALSE]]]

-----------------------------------------------------------------------------
Init ==
  /\ mode = "full"
  /\ marking = FALSE
  /\ armed = FALSE
  /\ current = None
  /\ attached = [l \in Loggers |-> IF l = "root" THEN RootHas ELSE LibHas]
  /\ propagates = FALSE
  /\ stack = [t \in Threads |-> <<>>]
  /\ hidden = [t \in Threads |-> 0]
  /\ issued = [t \in Threads |-> 0]
  /\ cpc = "idle"
  /\ target = "full"
  /\ capture = FALSE
  /\ fresh = None
  /\ left = Configs
  /\ torn = FALSE

-----------------------------------------------------------------------------
(* Logging, by thread t.                                                   *)

Call(t) ==
  /\ stack[t] = <<>>
  /\ issued[t] < Calls
  /\ issued' = [issued EXCEPT ![t] = @ + 1]
  /\ \E semlog \in BOOLEAN, l \in Loggers :
       stack' = [stack EXCEPT ![t] = <<NewDispatch(semlog, l)>>]
  /\ UNCHANGED <<switches, registry, hidden, configVars>>

\* callHandlers, wrapped or not.  The wrapper takes the marker off.
Route(t) ==
  LET d == Top(t) IN
  /\ Tops(t, "route")
  /\ IF armed /\ current # None
     THEN stack' = WithTop(t, [d EXCEPT !.marker = FALSE,
                                 !.at = IF d.marker THEN "deliver" ELSE "walk",
                                 !.via = IF d.marker THEN current ELSE None])
     ELSE stack' = WithTop(t, [d EXCEPT !.at = "walk"])
  /\ UNCHANGED <<switches, registry, hidden, issued, configVars>>

\* handler.handle(record): the direct delivery.
Deliver(t) ==
  LET d == Top(t) IN
  /\ Tops(t, "deliver")
  /\ Proceed(t, [d EXCEPT !.got[d.via] = @ + 1, !.at = "hide"])
  /\ UNCHANGED <<switches, registry, hidden, issued, configVars>>

\* _dispatching.record = record, and what it was is kept.
Hide(t) ==
  /\ Tops(t, "hide")
  /\ stack' = WithTop(t, [Top(t) EXCEPT !.saved = hidden[t], !.at = "walk"])
  /\ hidden' = [hidden EXCEPT ![t] = Len(stack[t])]
  /\ UNCHANGED <<switches, registry, issued, configVars>>

\* StreamHandler.handle, wrapped: hidden from this record?
WrongConcealed(t, h) == hidden[t] # 0 /\ h \in Streams
Concealed(t, h) == hidden[t] = Len(stack[t]) /\ h \in Rendering

\* The next handler of the list: the loop's iterator looks at the list as it is now.
Handle(t) ==
  LET d == Top(t)
      h == attached[d.on][d.pos]
      next == [d EXCEPT !.pos = @ + 1, !.found = TRUE]
  IN
  /\ Tops(t, "walk")
  /\ d.pos <= Len(attached[d.on])
  /\ \/ Concealed(t, h) /\ stack' = WithTop(t, next)
     \/ ~ Concealed(t, h) /\ Proceed(t, [next EXCEPT !.got[h] = @ + 1])
  /\ UNCHANGED <<switches, registry, hidden, issued, configVars>>

\* The list is at its end: on to root, or to the end of the walk, where
\* lastResort has the record if no handler was found.
Ascend(t) ==
  LET d == Top(t) IN
  /\ Tops(t, "walk")
  /\ d.pos > Len(attached[d.on])
  /\ IF d.on = "lib" /\ propagates
     THEN stack' = WithTop(t, [d EXCEPT !.on = "root", !.pos = 1])
     ELSE stack' = WithTop(t,
            IF d.found \/ Concealed(t, LastResort) THEN [d EXCEPT !.at = "done"]
            ELSE [d EXCEPT !.at = "done", !.got[LastResort] = @ + 1])
  /\ UNCHANGED <<switches, registry, hidden, issued, configVars>>

\* The wrapper's finally restores what was hidden.
WrongRestored(t) == 0
WrongRestoredOuter(t) == Top(t).saved - 1
WrongRestoredByReturn(t) == IF Tops(t, "done") THEN Top(t).saved ELSE hidden[t]
Restored(t) == Top(t).saved

\* The dispatch of the innermost record is over.
Dropped(t) == [stack EXCEPT ![t] = SubSeq(@, 1, Len(@) - 1)]

\* The original callHandlers is left, by return or by an exception: the finally.
Leave(t) ==
  /\ hidden' = IF Top(t).via # None THEN [hidden EXCEPT ![t] = Restored(t)] ELSE hidden
  /\ stack' = Dropped(t)
  /\ UNCHANGED <<switches, registry, issued, configVars>>

Return(t) == Tops(t, "done") /\ Leave(t)

\* A handler that has had the record raises.  The exception goes up to the caller: the
\* application, or a handler that was logging, which takes it or raises in its turn.
Raise(t) ==
  /\ Tops(t, "walk")
  /\ \E h \in Handlers \ {Top(t).via} : Top(t).got[h] > 0
  /\ Leave(t)

\* handler.handle(record) itself raises: the record is not hidden yet.
DeliverRaises(t) ==
  /\ Tops(t, "hide")
  /\ stack' = Dropped(t)
  /\ UNCHANGED <<switches, registry, hidden, issued, configVars>>

Log(t) == \/ Call(t) \/ Route(t) \/ Deliver(t) \/ Hide(t) \/ Handle(t)
          \/ Ascend(t) \/ Return(t) \/ Raise(t) \/ DeliverRaises(t)

-----------------------------------------------------------------------------
(* configure(), past its validation (a call that validation rejects changes *)
(* nothing), one call at a time.                                           *)

\* "off" does two assignments and returns.
ConfigureOff ==
  /\ cpc = "idle"
  /\ left > 0
  /\ left' = left - 1
  /\ mode' = "off"
  /\ marking' = FALSE
  /\ torn' = FALSE
  /\ Stir
  /\ UNCHANGED <<armed, current, registry, hidden, issued, cpc, target, capture, fresh>>

\* The other two go on to install(), which makes a handler.
Configure ==
  /\ cpc = "idle"
  /\ left > 0
  /\ left' = left - 1
  /\ target' \in {"full", "hybrid"}
  /\ capture' \in (IF target' = "full" THEN BOOLEAN ELSE {FALSE})
  /\ cpc' = "install"
  /\ Stir
  /\ UNCHANGED <<switches, registry, hidden, issued, fresh, torn>>

Used == {current} \cup {attached["root"][i] : i \in DOMAIN attached["root"]}
             \cup UNION {{stack[t][i].via : i \in DOMAIN stack[t]} : t \in Threads}

InstallHandler ==
  /\ cpc = "install"
  /\ fresh' \in Pipelines \ Used
  /\ current' = fresh'
  /\ cpc' = "detach"
  /\ UNCHANGED <<mode, marking, armed, registry, logVars, target, capture, left, torn>>

\* attach_root(replace_all=True) removes everything but the new handler; hybrid
\* removes what semlog itself has attached (_semlog_root), in both cases one by one.
WrongRemovable(h) == target = "full"
WrongRemovableForeign(h) == target = "full" /\ h \notin Pipelines
Removable(h) == target = "full" \/ h \in Pipelines

Detach ==
  /\ cpc = "detach"
  /\ \E i \in DOMAIN attached["root"] :
       /\ Removable(attached["root"][i])
       /\ \A j \in 1 .. i - 1 : ~ Removable(attached["root"][j])
       /\ attached' = [attached EXCEPT !["root"] = RemoveAt(@, i)]
  /\ UNCHANGED <<switches, propagates, logVars, configVars>>

Detached == \A i \in DOMAIN attached["root"] : ~ Removable(attached["root"][i])

AttachRoot ==
  /\ cpc = "detach" /\ target = "full"
  /\ Detached
  /\ attached' = [attached EXCEPT !["root"] = Append(@, fresh)]
  /\ cpc' = IF capture THEN "capture" ELSE "finish"
  /\ UNCHANGED <<switches, propagates, logVars, target, capture, fresh, left,
                 torn>>

\* arm_routing, once per process.
WrongArm == armed
Arm == TRUE

ArmRouting ==
  /\ cpc = "detach" /\ target = "hybrid"
  /\ Detached
  /\ armed' = Arm
  /\ cpc' = "finish"
  /\ UNCHANGED <<mode, marking, current, registry, logVars, target, capture, fresh, left,
                 torn>>

\* capture_loggers: lib loses its handlers, then its records go on to root.
CaptureHandler ==
  /\ cpc = "capture"
  /\ attached["lib"] # <<>>
  /\ attached' = [attached EXCEPT !["lib"] = Tail(@)]
  /\ UNCHANGED <<switches, propagates, logVars, configVars>>

CapturePropagate ==
  /\ cpc = "capture"
  /\ attached["lib"] = <<>>
  /\ propagates' = TRUE
  /\ cpc' = "finish"
  /\ UNCHANGED <<switches, attached, logVars, target, capture, fresh, left,
                 torn>>

\* getLogger() refuses a name that is no string: configure() raises here.
CaptureRaises ==
  /\ cpc = "capture"
  /\ cpc' = "idle"
  /\ torn' = TRUE
  /\ UNCHANGED <<switches, registry, logVars, target, capture, fresh, left>>

\* The very last assignments.
Finish ==
  /\ cpc = "finish"
  /\ mode' = target
  /\ marking' = (target = "hybrid")
  /\ cpc' = "idle"
  /\ torn' = FALSE
  /\ UNCHANGED <<armed, current, registry, logVars, target, capture, fresh, left>>

Switch == \/ ConfigureOff \/ Configure \/ InstallHandler \/ Detach \/ AttachRoot
          \/ ArmRouting \/ CaptureHandler \/ CapturePropagate \/ CaptureRaises
          \/ Finish

Finished ==
  /\ cpc = "idle"
  /\ \A t \in Threads : stack[t] = <<>>
  /\ UNCHANGED vars

Next == Switch \/ Finished \/ \E t \in Threads : Log(t)

Spec == Init /\ [][Next]_vars
-----------------------------------------------------------------------------
(* What the properties talk about: a record whose walk is over.            *)

Over(d) == d.at = "done"
Routed(d) == d.via # None
OneLine(d) == \E h \in Pipelines : d.got[h] = 1 /\ \A g \in Pipelines \ {h} : d.got[g] = 0
NoLine(d) == \A h \in Pipelines : d.got[h] = 0
Chain(l) == {attached[l][i] : i \in DOMAIN attached[l]} \cup
            (IF l = "lib" /\ propagates
             THEN {attached["root"][i] : i \in DOMAIN attached["root"]} ELSE {})

\* Every variable has its type.
TypeOK ==
  /\ mode \in {"full", "hybrid", "off"} /\ marking \in BOOLEAN /\ armed \in BOOLEAN
  /\ current \in Pipelines \cup {None}
  /\ attached \in [Loggers -> Seq(Handlers)] /\ propagates \in BOOLEAN
  /\ stack \in [Threads -> Seq(Dispatch)]
  /\ hidden \in [Threads -> Nat] /\ issued \in [Threads -> Nat]
  /\ cpc \in {"idle", "install", "detach", "capture", "finish"}
  /\ target \in {"full", "hybrid"} /\ capture \in BOOLEAN
  /\ fresh \in Pipelines \cup {None} /\ left \in Nat /\ torn \in BOOLEAN

\* LM-003 and the guide's word on "full" and "off": a record that no configure()
\* overlaps and that ends its walk is one JSON line where it should be and none
\* elsewhere, whatever modes the process has been in before and whatever logs while
\* it logs.  In hybrid these are the marked records, in full those that get to root.
\* "off" installs nothing and takes nothing down: marked or not, a record is JSON only
\* if a "full" before it has left its pipeline on the record's way (README.md:445).
\* (A configure() that raises half way spoils this until the next one succeeds.)
JsonOnce ==
  \A t \in Threads : \A i \in DOMAIN stack[t] :
    LET d == stack[t][i] IN
    Over(d) /\ d.calm =>
      /\ mode = "hybrid" => IF d.semlog THEN OneLine(d) ELSE NoLine(d)
      /\ mode = "full" /\ current # None =>
           IF d.logger = "root" \/ propagates THEN OneLine(d) ELSE NoLine(d)
      /\ mode = "off" =>
           /\ ~ Routed(d)
           /\ IF current \in Chain(d.logger) THEN OneLine(d) ELSE NoLine(d)

\* LM-003: in hybrid mode each of the application's handlers gets each record once,
\* but for StreamHandlers and marked records, also when one record is logged in
\* the middle of another one's dispatch.
LegacyUnchanged ==
  \A t \in Threads : \A i \in DOMAIN stack[t] :
    LET d == stack[t][i]
        shown(h) == IF d.semlog /\ h \in Rendering THEN 0 ELSE 1
    IN
    Over(d) /\ d.calm /\ mode = "hybrid" =>
      /\ \A h \in Chain(d.logger) : d.got[h] = shown(h)
      /\ Chain(d.logger) = {} => d.got[LastResort] = shown(LastResort)

\* LM-003: a record that went to JSON directly is rendered by no StreamHandler,
\* lastResort included, even when configure() rearranges root under it.
MarkedHidden ==
  \A t \in Threads : \A i \in DOMAIN stack[t] :
    LET d == stack[t][i] IN
    Over(d) /\ Routed(d) => \A h \in Rendering \ {d.via} : d.got[h] = 0

\* LM-002: no handler ever sees the marker: marking is armed after the wrapper that
\* takes it off, and neither is taken back.
MarkerGone ==
  \A t \in Threads : \A i \in DOMAIN stack[t] :
    stack[t][i].at \notin {"route"} => ~ stack[t][i].marker

\* The identity in _dispatching is that of the innermost record that is being
\* hidden, and none when there is none: nothing leaks out of a nested dispatch,
\* however it ends.
BeingHidden(d) == Routed(d) /\ d.at \in {"walk", "done"}
HiddenInnermost ==
  \A t \in Threads :
    /\ hidden[t] # 0 => hidden[t] \in DOMAIN stack[t] /\ BeingHidden(stack[t][hidden[t]])
    /\ \A i \in DOMAIN stack[t] : i > hidden[t] => ~ BeingHidden(stack[t][i])

\* While configure() removes and adds handlers, the walk of a record that is not
\* routed may miss a handler but meets none twice, and at most one pipeline.
OnceEach ==
  \A t \in Threads : \A i \in DOMAIN stack[t] :
    LET d == stack[t][i] IN
    ~ Routed(d) => /\ NoLine(d) \/ OneLine(d)
                   /\ \A h \in Handlers : d.got[h] <= 1

=============================================================================
