----------------------------- MODULE LogChannel -----------------------------
(***************************************************************************)
(* What the pipelines of semlog promise the threads that log (STANDARDS.md,*)
(* LP-006 to LP-009), with no thread, lock, queue or marker in sight: each *)
(* is a bounded channel that takes finished lines one at a time and hands  *)
(* every one of them to the stream once, in the order in which it took     *)
(* them, or, when the stream fails, gives it up.  Transport implements it. *)
(***************************************************************************)
EXTENDS Integers, FiniteSets

CONSTANTS
  Channels,
  Capacity,    \* lines a channel holds
  Lossy        \* may the stream fail?

VARIABLES
  accepted,    \* [Channels -> how many lines it has taken]
  fate         \* [Channels -> [1..accepted -> what became of the line]]

channels == <<accepted, fate>>

Pending(c) == {n \in 1 .. accepted[c] : fate[c][n] = "pending"}

Init ==
  /\ accepted = [c \in Channels |-> 0]
  /\ fate = [c \in Channels |-> [n \in 1 .. 0 |-> "pending"]]

\* A call site hands over a line; it must wait while the channel is full.
Accept(c) ==
  LET next == accepted[c] + 1 IN
  /\ Cardinality(Pending(c)) < Capacity
  /\ accepted' = [accepted EXCEPT ![c] = next]
  /\ fate' = [fate EXCEPT ![c] =
                [n \in 1 .. next |-> IF n = next THEN "pending" ELSE fate[c][n]]]

\* The oldest line that is still pending leaves the channel.
Settle(c, outcome) ==
  \E n \in Pending(c) :
    /\ \A m \in Pending(c) : n <= m
    /\ fate' = [fate EXCEPT ![c][n] = outcome]
    /\ UNCHANGED accepted

Deliver(c) == Settle(c, "written")
GiveUp(c)  == Lossy /\ Settle(c, "lost")

Next == \E c \in Channels : Accept(c) \/ Deliver(c) \/ GiveUp(c)

Spec == Init /\ [][Next]_channels

\* A stream that is served: what a channel has taken is settled in the end.
FairSpec == Spec /\ \A c \in Channels : WF_channels(Deliver(c) \/ GiveUp(c))
=============================================================================
