------------------------------ MODULE Celery ------------------------------
(***************************************************************************)
(* src/semlog/_celery.py: the signals around the publication and the       *)
(* execution of tasks.  A task runs on a thread of the worker, or eagerly  *)
(* in the middle of the code that calls it.                                *)
(***************************************************************************)
EXTENDS Context

CONSTANTS Tasks,       \* task executions, operations of their own
          Ids          \* values of id(), which a later object may have again

ASSUME CeleryAssumption == Tasks \subseteq Operations /\ None \notin Ids

VARIABLES
  tpc,      \* where the task is
  header,   \* the traceparent of its message
  idOf,     \* id(task.request) while it runs
  scopes,   \* _scopes
  origin    \* history: the trace of the code that published or called it

celeryVars == <<tpc, header, idOf, scopes, origin>>

CeleryInit ==
  /\ tpc = [t \in Tasks |-> "new"]
  /\ header = [t \in Tasks |-> None]
  /\ idOf = [t \in Tasks |-> None]
  /\ scopes = [i \in Ids |-> None]
  /\ origin = [t \in Tasks |-> None]

TraceOf(c) == IF off \/ bound[c] = None THEN None ELSE bound[c].trace

\* apply_async in context c: before_task_publish.
WrongPublishHeader(c) == None
PublishHeader(c) == IF off THEN None ELSE Injected(None, c)

Publish(t, c) ==
  /\ tpc[t] = "new" /\ CodeRuns(c)
  /\ header' = [header EXCEPT ![t] = PublishHeader(c)]
  /\ origin' = [origin EXCEPT ![t] = TraceOf(c)]
  /\ tpc' = [tpc EXCEPT ![t] = "sent"]
  /\ UNCHANGED <<contextVars, idOf, scopes>>

\* _carrier: the headers of the request where they have a traceparent.
Carrier(t) == header[t]

\* The key of a task in _scopes: by id(request), not by anything tasks may share.
WrongKey(i) == CHOOSE j \in Ids : TRUE
Key(i) == i

\* task_prerun, where the receiver may fail and bind nothing.  No two requests that
\* exist at the same time have one id.
Free(i) == \A t \in Tasks : tpc[t] = "running" => idOf[t] # i

Prerun(t, c, i) ==
  /\ Free(i)
  /\ \/ off /\ UNCHANGED scopes
     \/ ~ off /\ scopes' = [scopes EXCEPT ![Key(i)] = t]
  /\ EnterOperation(t, c, Carrier(t))
  /\ idOf' = [idOf EXCEPT ![t] = i]
  /\ tpc' = [tpc EXCEPT ![t] = "running"]
  /\ UNCHANGED <<off, header>>

PrerunFails(t, c, i) ==
  /\ Free(i)
  /\ Starts(c, t)
  /\ idOf' = [idOf EXCEPT ![t] = i]
  /\ tpc' = [tpc EXCEPT ![t] = "running"]
  /\ UNCHANGED <<off, bound, token, header, scopes>>

Run(t, c, i) == Prerun(t, c, i) \/ PrerunFails(t, c, i)

\* On a thread of the worker that runs nothing, or eagerly, with no headers.
RunSent(t, c) ==
  /\ tpc[t] = "sent"
  /\ c \in Threads /\ open[c] = <<>>
  /\ \E i \in Ids : Run(t, c, i)
  /\ UNCHANGED origin

RunEagerly(t, c) ==
  /\ tpc[t] = "new" /\ CodeRuns(c)
  /\ \E i \in Ids : Run(t, c, i)
  /\ origin' = [origin EXCEPT ![t] = TraceOf(c)]

\* task_postrun, whatever the mode is by now.  An error in it is swallowed.
Postrun(t) ==
  /\ tpc[t] = "running"
  /\ \E c \in Contexts :
       /\ Innermost(c, t)
       /\ Ends(c)
       /\ IF scopes[Key(idOf[t])] = None THEN UNCHANGED <<bound, token>>
                                    ELSE Pop(c, scopes[Key(idOf[t])])
  /\ scopes' = [scopes EXCEPT ![Key(idOf[t])] = None]
  /\ idOf' = [idOf EXCEPT ![t] = None]
  /\ tpc' = [tpc EXCEPT ![t] = "done"]
  /\ UNCHANGED <<off, header, origin>>

TaskStep(t) ==
  \/ \E c \in Contexts : Publish(t, c) \/ RunSent(t, c) \/ RunEagerly(t, c)
  \/ Postrun(t)
-----------------------------------------------------------------------------
\* CEL-005: what runs as a task belongs to the trace of the code that published or
\* called it, from one process to the other and down a chain of tasks, whenever
\* nothing was "off" on the way.
TraceContinues ==
  \A t \in Tasks, c \in Contexts :
    Innermost(c, t) /\ token[t] # None /\ origin[t] # None =>
      bound[c].trace = origin[t]
=============================================================================
