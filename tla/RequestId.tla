----------------------------- MODULE RequestId -----------------------------
(***************************************************************************)
(* src/semlog/_uuid7_fallback.py: request ids of a timestamp that never    *)
(* goes back and a counter that starts anywhere and wraps.  The 32 random  *)
(* bits below them are left out: what is shown here does not rest on luck. *)
(***************************************************************************)
EXTENDS Integers, Sequences

CONSTANTS Callers,     \* threads that generate ids
          CounterMax,  \* _COUNTER_MAX
          Moments,     \* what the clock can say, in milliseconds
          Calls        \* bound on the calls of a run

ASSUME RequestIdAssumption ==
  CounterMax \in Nat /\ Moments \subseteq Nat /\ Calls \in Nat

Counters == 0 .. CounterMax

VARIABLES
  clock,    \* time.time_ns() // 1_000_000
  lock,     \* _lock is held
  ts,       \* _state["ts_ms"]
  counter,  \* _state["counter"]
  cpc,      \* where a caller is
  now,      \* now_ms of a caller
  issued,   \* history: timestamp and counter of all ids
  wraps     \* history: the timestamps in which the counter has wrapped

vars == <<clock, lock, ts, counter, cpc, now, issued, wraps>>

Init ==
  /\ clock \in Moments
  /\ lock = FALSE
  /\ ts = -1
  /\ counter = 0
  /\ cpc = [c \in Callers |-> "idle"]
  /\ now = [c \in Callers |-> 0]
  /\ issued = <<>>
  /\ wraps = {}

\* The system's clock goes on, or is set, also back.
SetClock ==
  /\ clock' \in Moments
  /\ UNCHANGED <<lock, ts, counter, cpc, now, issued, wraps>>

Goes(c, from, to) == cpc[c] = from /\ cpc' = [cpc EXCEPT ![c] = to]

\* with _lock: and the clock, read inside.
WrongLockFree == TRUE
LockFree == ~ lock

Acquire(c) ==
  /\ LockFree
  /\ Len(issued) < Calls
  /\ lock' = TRUE
  /\ now' = [now EXCEPT ![c] = clock]
  /\ Goes(c, "idle", "advance")
  /\ UNCHANGED <<clock, ts, counter, issued, wraps>>

\* A later millisecond starts a new count; the same one, or an earlier one, goes on.
WrongNewer(c) == now[c] # ts
Newer(c) == now[c] > ts
WrongIncrement == counter + 1
Increment == (counter + 1) % (CounterMax + 1)

Renew(c) ==
  /\ Newer(c)
  /\ Goes(c, "advance", "release")
  /\ ts' = now[c]
  /\ counter' \in Counters
  /\ UNCHANGED <<clock, lock, now, issued, wraps>>

Count(c) ==
  /\ ~ Newer(c)
  /\ Goes(c, "advance", "release")
  /\ counter' = Increment
  /\ wraps' = IF counter' = 0 THEN wraps \cup {ts} ELSE wraps
  /\ UNCHANGED <<clock, lock, ts, now, issued>>

\* The two numbers are read and the lock is left; generate_request_id puts them into
\* the string, the timestamp and the counter's high bits first.
Release(c) ==
  /\ Goes(c, "release", "idle")
  /\ issued' = Append(issued, <<ts, counter>>)
  /\ lock' = FALSE
  /\ UNCHANGED <<clock, ts, counter, now, wraps>>

Next == SetClock \/ \E c \in Callers : Acquire(c) \/ Renew(c) \/ Count(c) \/ Release(c)

Spec == Init /\ [][Next]_vars
-----------------------------------------------------------------------------
TypeOK ==
  /\ clock \in Moments /\ lock \in BOOLEAN
  /\ ts \in Moments \cup {-1} /\ counter \in Counters
  /\ cpc \in [Callers -> {"idle", "advance", "release"}]
  /\ now \in [Callers -> Moments \cup {0}]
  /\ issued \in Seq(Moments \X Counters)
  /\ wraps \subseteq Moments

Earlier(a, b) == \/ a[1] < b[1]
                 \/ a[1] = b[1] /\ a[2] < b[2]

\* TCP-010: of two ids, whoever asked for them and wherever the clock went, the one given
\* out later is the later value, unless the counter has wrapped in the millisecond of
\* both.  (That it may wrap at once is in the README, section 6.)
TimeOrdered ==
  \A i, j \in DOMAIN issued : i < j =>
    \/ Earlier(issued[i], issued[j])
    \/ issued[i][1] = issued[j][1] /\ issued[i][1] \in wraps

\* Timestamp and counter repeat only after all values of the counter, so that two ids
\* that are closer differ whatever their random bits are.
NoNearTwin ==
  \A i, j \in DOMAIN issued : i < j /\ issued[i] = issued[j] => j - i > CounterMax
=============================================================================
