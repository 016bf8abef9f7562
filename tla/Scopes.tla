------------------------------- MODULE Scopes -------------------------------
(***************************************************************************)
(* Everything that binds a scope, in one process: HTTP requests, blocks of *)
(* operation() in their code or outside, tasks that are published, run on  *)
(* other threads, or run eagerly in the middle of a request.               *)
(***************************************************************************)
EXTENDS Requests, Celery

CONSTANTS Budget,      \* bound on the requests and tasks begun and the blocks that are open
          Flips        \* bound on the changes of mode

ASSUME ScopesAssumption == Budget \in Nat /\ Flips \in Nat

VARIABLE flips

vars == <<contextVars, requestVars, celeryVars, flips>>

Init == ContextInit /\ RequestsInit /\ CeleryInit /\ flips = 0

Begun == Cardinality({r \in Requests : rpc[r] # "new"})
           + Cardinality({t \in Tasks : tpc[t] # "new"})
           + Cardinality({o \in Operations \ Tasks : ~ Unused(o)})

\* with operation() and bind(), in any code.
CodeStep(c) == Bind(c) \/ \E o \in Operations \ Tasks : With(o, c) \/ EndWith(o, c)

Next ==
  \/ /\ \E c \in Contexts : CodeStep(c)
     /\ UNCHANGED <<requestVars, celeryVars, flips>>
     /\ Begun' <= Budget
  \/ /\ \E r \in Requests : RequestStep(r)
     /\ UNCHANGED <<celeryVars, flips>>
     /\ Begun' <= Budget
  \/ /\ \E t \in Tasks : TaskStep(t)
     /\ UNCHANGED <<requestVars, flips>>
     /\ Begun' <= Budget
  \/ /\ Flip
     /\ flips < Flips /\ flips' = flips + 1
     /\ UNCHANGED celeryVars

Spec == Init /\ [][Next]_vars
-----------------------------------------------------------------------------
ScopesTypeOK ==
  /\ off \in BOOLEAN /\ flips \in 0 .. Flips
  /\ bound \in [Contexts -> Snapshot \cup {None}]
  /\ open \in [Contexts -> Seq(Scopes)]
  /\ token \in [Scopes -> Token \cup {None}]
  /\ kind \in [Requests -> Kinds] /\ home \in [Requests -> Threads \cup {None}]
  /\ rpc \in [Requests -> {"new", "inside", "body", "streaming", "done"}]
  /\ stashed \in [Requests -> BOOLEAN] /\ dark \subseteq Requests
  /\ events \in [Requests -> Seq([level : {"INFO", "ERROR"}, snapshot : Snapshot \cup {None}])]
  /\ outcome \in [Requests -> {"none", "answered", "raised", "response", "quit", "unread",
                               "body", "close"}]
  /\ tpc \in [Tasks -> {"new", "sent", "running", "done"}]
  /\ header \in [Tasks -> Scopes \cup {None}] /\ origin \in [Tasks -> Scopes \cup {None}]
  /\ idOf \in [Tasks -> Ids \cup {None}] /\ scopes \in [Ids -> Tasks \cup {None}]

\* The stack of a context, as ContextVar and tokens keep it: what is bound, and below
\* it what each scope will put back.
Layers(s, top, tok) == [i \in DOMAIN s |-> IF i = Len(s) THEN top ELSE tok[s[i + 1]].old]
StackOf(c) == Layers(Scoping(c), bound[c], token)

Stacks == INSTANCE ScopeStack WITH stack <- [c \in Contexts |-> StackOf(c)]

\* TCP-005: tokens implement the stacks, through middlewares, operations, tasks,
\* exceptions, streamed bodies and changes of mode.
ImplementsStacks == Stacks!Spec
=============================================================================
