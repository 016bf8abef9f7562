----------------------------- MODULE ScopeStack -----------------------------
(***************************************************************************)
(* The promise of bind, operation() and the middlewares, without tokens:   *)
(* each context has a stack of snapshots.  A scope is opened on top, its   *)
(* code adds attributes to the top alone, and it takes the top away with   *)
(* it.  A step of the program does one of these, in one context.           *)
(***************************************************************************)
EXTENDS Sequences, SequencesExt

CONSTANTS Contexts, Snapshot
VARIABLE stack

Init == stack = [c \in Contexts |-> <<>>]

\* What context c changes to is s; no other context changes.
Becomes(c, s) == stack' = [stack EXCEPT ![c] = s]

Open(c) ==
  LET x == Last(stack'[c]) IN
  /\ stack'[c] # <<>>
  /\ x \in Snapshot
  /\ stack[c] # <<>> => x.attributes \in {{}, Last(stack[c]).attributes}
  /\ Becomes(c, Append(stack[c], x))

Merge(c) ==
  LET x == Last(stack[c])
      y == Last(stack'[c])
  IN
  /\ stack[c] # <<>> /\ stack'[c] # <<>>
  /\ y \in Snapshot
  /\ y.trace = x.trace /\ y.span = x.span /\ x.attributes \subseteq y.attributes
  /\ Becomes(c, Append(Front(stack[c]), y))

Close(c) ==
  /\ stack[c] # <<>>
  /\ Becomes(c, Front(stack[c]))

Next == \E c \in Contexts :
  /\ stack'[c] # stack[c]
  /\ Open(c) \/ Merge(c) \/ Close(c)

Spec == Init /\ [][Next]_stack
=============================================================================
