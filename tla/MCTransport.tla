---------------------------- MODULE MCTransport ----------------------------
\* Instances of Transport for TLC: the values are in the .cfg files.
EXTENDS Transport, TLC

CONSTANTS p1, p2

\* Where severity plays no part every record is at INFO ...
AllLow == [p \in Producers |-> {"low"}]

\* ... and where it does, one thread logs at WARNING too.
Mixed == [p \in Producers |-> IF p = p1 THEN {"low"} ELSE {"low", "high"}]

\* Threads that log are alike, so are those that flush, and so are Writer objects
\* before one is made.  Not for the runs that check liveness.
Symmetry ==
  Permutations(Producers) \cup Permutations(Flushers) \cup Permutations(Writers)

\* What decides the steps of the threads and of the queue.  No guard reads what is
\* left out (tickets, counters, the stream), so two states with the same view have
\* the same future as far as the queue's contents go.
ControlView ==
  <<ppc, level, left, started, startLock, wpc,
    [h \in Pipelines |-> [i \in DOMAIN queue[h] |-> queue[h][i].level]]>>
=============================================================================
