------------------------------ MODULE Context ------------------------------
(***************************************************************************)
(* src/semlog/_context.py: a ContextVar that holds one immutable Snapshot  *)
(* per context.  A scope (a request, an operation) pushes a snapshot, keeps *)
(* the token, and pops with it.  Whose code runs in a context, and inside  *)
(* whose, is "open", the stack of calls the program itself makes.          *)
(***************************************************************************)
EXTENDS Integers, Sequences, FiniteSets, SequencesExt

CONSTANTS Threads,     \* threads, and tasks of an event loop, each with a context
          Requests,    \* HTTP requests; each may have a context of its own as well
          Operations,  \* with operation(): blocks and executions of Celery tasks
          None

Contexts == Threads \cup Requests
Scopes   == Requests \cup Operations

\* The trace is named for the scope that began it, the span for the one that bound
\* it; attributes are named for the scopes whose code has bound some.
Snapshot == [trace : Scopes, span : Scopes, attributes : SUBSET Scopes]
Token    == [at : Contexts, old : Snapshot \cup {None}]

ASSUME ContextAssumption ==
  /\ Threads \cap Requests = {} /\ Threads \cap Operations = {}
  /\ Requests \cap Operations = {}
  /\ None \notin Threads \cup Requests \cup Operations \cup Snapshot \cup Token

VARIABLES
  off,      \* _modes.is_off()
  bound,    \* _current, in each context
  open,     \* the scopes whose code is being run in a context, the innermost last
  token     \* what push returned to a scope; None if it pushed nothing

contextVars == <<off, bound, open, token>>

ContextInit ==
  /\ off \in BOOLEAN
  /\ bound = [c \in Contexts |-> None]
  /\ open = [c \in Contexts |-> <<>>]
  /\ token = [s \in Scopes |-> None]

Fresh(trace, s) == [trace |-> trace, span |-> s, attributes |-> {}]

\* The snapshot operation() makes: of the headers, or a child, or a new trace.
WrongOpening(s, carrier, parent) ==
  IF parent # None THEN [parent EXCEPT !.span = s] ELSE Fresh(carrier, s)
Opening(s, carrier, parent) ==
  CASE carrier # None                  -> Fresh(carrier, s)
    [] carrier = None /\ parent # None -> [parent EXCEPT !.span = s]
    [] OTHER                           -> Fresh(s, s)

\* push: ContextVar.set
Push(c, s, snapshot) ==
  /\ token' = [token EXCEPT ![s] = [at |-> c, old |-> bound[c]]]
  /\ bound' = [bound EXCEPT ![c] = snapshot]

\* pop: ContextVar.reset, which raises in another context than the token's.
Pop(c, s) ==
  /\ bound' = IF token[s].at = c THEN [bound EXCEPT ![c] = token[s].old] ELSE bound
  /\ token' = [token EXCEPT ![s] = None]

\* Those of a sequence that are in S, in their order.  (Most are empty, and TLC asks
\* often: the empty one has a case of its own.)
Among(seq, S) ==
  LET upTo[n \in 0 .. Len(seq)] ==
        IF n = 0 THEN <<>>
        ELSE IF seq[n] \in S THEN Append(upTo[n - 1], seq[n]) ELSE upTo[n - 1]
  IN IF seq = <<>> THEN <<>> ELSE upTo[Len(seq)]

Innermost(c, s) == open[c] # <<>> /\ Last(open[c]) = s
Starts(c, s)    == open' = [open EXCEPT ![c] = Append(@, s)]
Ends(c)         == open' = [open EXCEPT ![c] = Front(@)]   \* the innermost
Unused(o)       == token[o] = None /\ \A c \in Contexts : o \notin ToSet(open[c])
Scoped(s)       == token[s] # None
Scoping(c)      == Among(open[c], {s \in Scopes : Scoped(s)})
CodeRuns(c)     == c \in Threads \/ open[c] # <<>>

\* operation(headers).__enter__ in context c.  Off: the code runs, nothing is bound.
EnterOperation(o, c, carrier) ==
  /\ IF off THEN UNCHANGED <<bound, token>>
            ELSE Push(c, o, Opening(o, carrier, bound[c]))
  /\ Starts(c, o)

\* __exit__, whether the block returned or raised.
ExitOperation(o, c) ==
  /\ IF token[o] = None THEN UNCHANGED <<bound, token>> ELSE Pop(c, o)
  /\ Ends(c)

\* with operation(): its blocks nest.
With(o, c) ==
  /\ CodeRuns(c) /\ Unused(o)
  /\ EnterOperation(o, c, None)
  /\ UNCHANGED off

EndWith(o, c) ==
  /\ Innermost(c, o)
  /\ ExitOperation(o, c)
  /\ UNCHANGED off

\* bind() keeps no token: the pop of its scope takes its attributes back.  Outside a
\* scope it changes nothing.
Bind(c) ==
  /\ Scoping(c) # <<>>
  /\ bound[c] # None
  /\ bound' = [bound EXCEPT ![c].attributes = @ \cup {Last(Scoping(c))}]
  /\ UNCHANGED <<off, open, token>>

\* configure() switches to "off" or back, at any moment.
Switch ==
  /\ off' = ~ off
  /\ UNCHANGED <<bound, open, token>>

\* inject(headers) adds a traceparent if there is none and something is bound.
Injected(header, c) == IF bound[c] = None \/ header # None THEN header ELSE bound[c].trace

=============================================================================
