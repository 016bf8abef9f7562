------------------------------ MODULE Requests ------------------------------
(***************************************************************************)
(* src/semlog/_middleware.py: the four middlewares around an application.  *)
(* A request is one call of a middleware and the body of its response,     *)
(* which the server takes later, in turns with other bodies (WSGI) or in   *)
(* one go (Django), or closes without having taken anything of it.         *)
(***************************************************************************)
EXTENDS Context

CONSTANT Logged        \* the requests whose middleware has log_requests=True

ASSUME LoggedAssumption == Logged \subseteq Requests

Kinds == {"wsgi", "asgi", "django", "aiohttp"}

VARIABLES
  kind,     \* the middleware
  home,     \* the thread or task that calls it, later the one that takes the body
  rpc,      \* where the request is
  stashed,  \* request._semlog_exc_info, then on_complete's exc_info
  events,   \* its http.server.request events
  outcome,  \* history: how the application's code ended
  dark      \* history: the requests in progress while the mode was "off"

requestVars == <<kind, home, rpc, stashed, events, outcome, dark>>

RequestsInit ==
  /\ kind = [r \in Requests |-> "wsgi"]
  /\ home = [r \in Requests |-> None]
  /\ rpc = [r \in Requests |-> "new"]
  /\ stashed = [r \in Requests |-> FALSE]
  /\ events = [r \in Requests |-> <<>>]
  /\ outcome = [r \in Requests |-> "none"]
  /\ dark = {}

\* WSGI runs everything in a Context made for the request, the others in the caller's.
WrongPlace(k, r, t) == t
Place(k, r, t) == IF k = "wsgi" THEN r ELSE t
Where(r) == Place(kind[r], r, home[r])

\* A thread is in one application at a time, and takes a Django body in one go.
Idle(t) ==
  /\ Operations \cap ToSet(open[t]) = {}
  /\ \A r \in Requests : home[r] = t =>
       rpc[r] # "inside" /\ ~ (rpc[r] = "streaming" /\ kind[r] = "django")

InProgress(r) == rpc[r] \notin {"new", "done"}
Inside(r)     == rpc[r] = "inside" /\ Innermost(Where(r), r)

\* _emit_request_event, which looks at the mode, and at the context it is called in.
Emit(r, level) ==
  events' = IF off \/ r \notin Logged THEN events
            ELSE [events EXCEPT ![r] = Append(@, [level    |-> level,
                                                  snapshot |-> bound[Where(r)]])]

\* The scope is over: its token is used, its code has returned.
Close(r) == Pop(Where(r), r) /\ Ends(Where(r))
Finish(r, how) ==
  /\ rpc' = [rpc EXCEPT ![r] = "done"]
  /\ home' = [home EXCEPT ![r] = None]
  /\ outcome' = [outcome EXCEPT ![r] = how]

\* __call__ up to the call of the application.  Off: nothing is bound.
Begin(r, k, t) ==
  LET c == Place(k, r, t) IN
  /\ rpc[r] = "new" /\ Idle(t)
  /\ kind' = [kind EXCEPT ![r] = k]
  /\ home' = [home EXCEPT ![r] = t]
  /\ rpc' = [rpc EXCEPT ![r] = "inside"]
  /\ IF off THEN UNCHANGED <<bound, token>> ELSE Push(c, r, Fresh(r, r))
  /\ Starts(c, r)
  /\ dark' = IF off THEN dark \cup {r} ELSE dark
  /\ UNCHANGED <<off, stashed, events, outcome>>

\* Off at the call: the application's result or exception is passed on.
Pass(r) ==
  /\ Inside(r) /\ ~ Scoped(r)
  /\ Ends(Where(r))
  /\ Finish(r, "answered")
  /\ UNCHANGED <<off, bound, token, kind, stashed, events, dark>>

\* process_exception, unless another middleware's comes first or the mode is "off".
\* Django makes a response of the exception, with which Answer goes on.
ViewRaises(r) ==
  /\ Inside(r) /\ kind[r] = "django"
  /\ ~ off /\ ~ stashed[r]
  /\ stashed' = [stashed EXCEPT ![r] = TRUE]
  /\ UNCHANGED <<contextVars, kind, home, rpc, events, outcome, dark>>

\* The application returns: what is not streamed is reported inside the scope, which
\* is over with it.  (A FileResponse counts as not streamed.)
Level(r) == IF stashed[r] THEN "ERROR" ELSE "INFO"

WrongAnswer(r) ==
  /\ Inside(r) /\ Scoped(r) /\ kind[r] # "wsgi"
  /\ events' = IF off \/ r \notin Logged THEN events
               ELSE [events EXCEPT ![r] = Append(@, [level    |-> Level(r),
                                                     snapshot |-> token[r].old])]
  /\ Close(r)
  /\ Finish(r, "answered")
  /\ UNCHANGED <<off, kind, stashed, dark>>
Answer(r) ==
  /\ Inside(r) /\ Scoped(r) /\ kind[r] # "wsgi"
  /\ Emit(r, Level(r))
  /\ Close(r)
  /\ Finish(r, "answered")
  /\ UNCHANGED <<off, kind, stashed, dark>>

\* A streamed body: Django takes the scope down until it is started, WSGI, for which
\* every body is one, keeps it.
AnswerStream(r) ==
  /\ Inside(r) /\ Scoped(r) /\ kind[r] \in {"wsgi", "django"}
  /\ IF kind[r] = "wsgi" THEN UNCHANGED <<bound, open, token>> ELSE Close(r)
  /\ rpc' = [rpc EXCEPT ![r] = "body"]
  /\ UNCHANGED <<off, kind, home, stashed, events, outcome, dark>>

\* What is said of an exception that leaves the application.  Django lets through only
\* what is no Exception; for aiohttp an HTTPException is a response and a cancellation
\* no event.
EmitFailure(r, how) ==
  \/ how = "raised" /\ kind[r] # "django" /\ Emit(r, "ERROR")
  \/ how = "response" /\ kind[r] = "aiohttp" /\ Emit(r, "INFO")
  \/ how = "quit" /\ kind[r] \in {"django", "aiohttp"} /\ UNCHANGED events

Raise(r, how) ==
  /\ Inside(r) /\ Scoped(r)
  /\ EmitFailure(r, how)
  /\ Close(r)
  /\ Finish(r, how)
  /\ UNCHANGED <<off, kind, stashed, dark>>

\* The first next() of the body, for Django on any thread that is free.  What it
\* pushes again is the snapshot of the beginning, whatever the mode.
Start(r, t) ==
  /\ rpc[r] = "body"
  /\ kind[r] = "wsgi" => t = home[r]
  /\ Idle(t)
  /\ home' = [home EXCEPT ![r] = t]
  /\ rpc' = [rpc EXCEPT ![r] = "streaming"]
  /\ IF kind[r] = "wsgi" THEN UNCHANGED <<bound, open, token>>
     ELSE Push(t, r, Fresh(r, r)) /\ Starts(t, r)
  /\ UNCHANGED <<off, kind, stashed, events, outcome, dark>>

\* The body is exhausted or closed, or has raised: finally.  A WSGI body's own
\* close() may raise, and nothing after it is done.
End(r, how) ==
  /\ rpc[r] = "streaming" /\ Innermost(Where(r), r)
  /\ how = "close" => kind[r] = "wsgi"
  /\ IF how = "close"
     THEN UNCHANGED <<bound, token, events>> /\ Ends(Where(r))
     ELSE Emit(r, Level(r)) /\ Close(r)
  /\ Finish(r, how)
  /\ UNCHANGED <<off, kind, stashed, dark>>

\* Closed before its first chunk, a generator runs nothing.
Drop(r) ==
  /\ rpc[r] = "body"
  /\ Finish(r, "unread")
  /\ UNCHANGED <<contextVars, kind, stashed, events, dark>>

RequestStep(r) ==
  \/ \E t \in Threads : Start(r, t) \/ \E k \in Kinds : Begin(r, k, t)
  \/ Pass(r) \/ ViewRaises(r) \/ Answer(r) \/ AnswerStream(r) \/ Drop(r)
  \/ \E how \in {"raised", "response", "quit"} : Raise(r, how)
  \/ \E how \in {"answered", "body", "close"} : End(r, how)

\* The mode changes under the requests in progress.
Flip ==
  /\ Switch
  /\ dark' = dark \cup {r \in Requests : InProgress(r)}
  /\ UNCHANGED <<kind, home, rpc, stashed, events, outcome>>

-----------------------------------------------------------------------------
\* A context that code may run in belongs to the innermost scope there: its code sees
\* its own snapshot, with attributes that it or a scope around it has bound, and a
\* thread that has left all scopes sees none.  (HTM-003, 004, 006, 013, 014, TCP-005)
InScope ==
  \A c \in Contexts :
    LET scoping == Scoping(c) IN
    /\ scoping = <<>> /\ c \in Threads => bound[c] = None
    /\ scoping # <<>> =>
         /\ bound[c] # None
         /\ bound[c].span = Last(scoping)
         /\ bound[c].attributes \subseteq ToSet(scoping)
    /\ ToSet(open[c]) \cap (Requests \ dark) \subseteq ToSet(scoping)

\* HTM-007, 011, 015: a request that has answered, or let an exception through, has
\* exactly one event, made in its own scope, and an ERROR exactly if an exception of
\* the application was seen.  A cancelled one, one whose body nobody started and one
\* whose close() raised have none, nor has one that began while the mode was "off".
\* (The ERROR is missing for an exception in a body: see the README, section 6.)
OneEvent ==
  \A r \in Requests :
    /\ Len(events[r]) <= 1
    /\ \A i \in DOMAIN events[r] :
         /\ events[r][i].snapshot # None /\ events[r][i].snapshot.span = r
         /\ events[r][i].level = "ERROR" <=> outcome[r] = "raised" \/ stashed[r]
    /\ rpc[r] = "done" /\ r \in Logged \ dark =>
         events[r] = <<>> <=> outcome[r] \in {"quit", "unread", "close"}
=============================================================================
