--------------------------- MODULE RequestIdProofs ---------------------------
(***************************************************************************)
(* What holds of RequestId for every number of threads, every width of the *)
(* counter and whatever the clock does.                                    *)
(***************************************************************************)
EXTENDS RequestId, TLAPS

Releasing == \E c \in Callers : cpc[c] = "release"

\* One caller at a time is between the two ends of the lock, with a moment the clock has
\* shown, and what it releases has a timestamp.
Exclusive ==
  /\ \A c \in Callers : cpc[c] # "idle" => lock
  /\ \A c, d \in Callers : cpc[c] # "idle" /\ cpc[d] # "idle" => c = d
  /\ \A c \in Callers : cpc[c] = "advance" => now[c] \in Moments
  /\ \A c \in Callers : cpc[c] = "release" => ts \in Moments

\* How the state of the generator relates to an id given out: it is not earlier, and
\* later once a caller has advanced it.
Follows(id) ==
  \/ Earlier(id, <<ts, counter>>)
  \/ id[1] = ts /\ ts \in wraps
  \/ id = <<ts, counter>> /\ ~ Releasing

\* The counter is as far from that of an id of the same millisecond as there are ids
\* since, once round at most, or there are more than it has values.
Position == IF Releasing THEN Len(issued) + 1 ELSE Len(issued)
Apart(i) ==
  issued[i][1] = ts =>
    \/ Position - i > CounterMax
    \/ counter = issued[i][2] + (Position - i)
    \/ counter = issued[i][2] + (Position - i) - (CounterMax + 1)

Monotone == \A i \in DOMAIN issued : Follows(issued[i])
Spread   == \A i \in DOMAIN issued : Apart(i)

IdInv == TypeOK /\ Exclusive /\ Monotone /\ Spread /\ TimeOrdered /\ NoNearTwin

-----------------------------------------------------------------------------
\* The increment goes up by one or round to zero.
LEMMA Increments ==
  ASSUME counter \in Counters
  PROVE  \/ counter = CounterMax /\ Increment = 0
         \/ counter < CounterMax /\ Increment = counter + 1
<1> USE RequestIdAssumption DEF Counters, Increment
<1>1. CASE counter = CounterMax
  BY <1>1
<1>2. CASE counter < CounterMax
  BY <1>2
<1> QED BY <1>1, <1>2

\* Counting up to m and round keeps the distance to an earlier count.
LEMMA OneFurther ==
  ASSUME NEW m \in Nat, NEW a \in 0 .. m, NEW k \in 0 .. m, NEW l \in Nat, NEW n \in 0 .. m,
         \/ k = m /\ n = 0
         \/ k < m /\ n = k + 1,
         l > m \/ k = a + l \/ k = a + l - (m + 1)
  PROVE  l + 1 > m \/ n = a + (l + 1) \/ n = a + (l + 1) - (m + 1)
OBVIOUS

\* An id given out is two numbers.
LEMMA Numbers ==
  ASSUME NEW id \in Moments \X Counters
  PROVE  /\ id[1] \in Moments /\ id[1] \in Nat
         /\ id[2] \in 0 .. CounterMax
<1>1. id[1] \in Moments /\ id[2] \in Counters
  OBVIOUS
<1> QED BY <1>1, RequestIdAssumption DEF Counters

LEMMA InitHolds == Init => IdInv
<1> SUFFICES ASSUME Init PROVE IdInv
  OBVIOUS
<1> USE RequestIdAssumption DEF Init
<1>1. TypeOK
  <2>1. lock \in BOOLEAN
    BY Zenon
  <2>2. issued \in Seq(Moments \X Counters) /\ counter \in Counters /\ wraps \subseteq Moments
    BY DEF Counters
  <2>3. cpc \in [Callers -> {"idle", "advance", "release"}] /\ now \in [Callers -> Moments \cup {0}]
    OBVIOUS
  <2> QED BY <2>1, <2>2, <2>3, Zenon DEF TypeOK
<1>2. Exclusive
  BY DEF Exclusive
<1>3. DOMAIN issued = {}
  OBVIOUS
<1>4. Monotone /\ Spread /\ TimeOrdered /\ NoNearTwin
  BY <1>3 DEF Monotone, Spread, TimeOrdered, NoNearTwin
<1> QED BY <1>1, <1>2, <1>4 DEF IdInv

\* The clock is nobody's state.
LEMMA ClockKeeps ==
  ASSUME IdInv, SetClock
  PROVE  IdInv'
<1> USE DEF IdInv, SetClock
<1>1. TypeOK'
  BY DEF TypeOK
<1>2. Exclusive'
  BY DEF Exclusive
<1>3. Monotone'
  BY DEF Monotone, Follows, Earlier, Releasing
<1>4. Spread'
  BY DEF Spread, Apart, Position, Releasing
<1>5. TimeOrdered' /\ NoNearTwin'
  BY DEF TimeOrdered, Earlier, NoNearTwin
<1> QED BY <1>1, <1>2, <1>3, <1>4, <1>5

LEMMA AcquireKeeps ==
  ASSUME IdInv, NEW c \in Callers, Acquire(c)
  PROVE  IdInv'
<1> USE DEF IdInv, Acquire, Goes, LockFree
<1>1. TypeOK'
  BY DEF TypeOK
<1>2. Exclusive'
  BY DEF Exclusive, TypeOK
<1>3. Releasing' = Releasing
  BY DEF Releasing, Exclusive, TypeOK
<1>4. Monotone'
  BY <1>3 DEF Monotone, Follows, Earlier
<1>5. Spread'
  BY <1>3 DEF Spread, Apart, Position
<1>6. TimeOrdered' /\ NoNearTwin'
  BY DEF TimeOrdered, Earlier, NoNearTwin
<1> QED BY <1>1, <1>2, <1>4, <1>5, <1>6

\* A caller between advance and release is alone, so that nobody was releasing and it
\* is now.
LEMMA Alone ==
  ASSUME IdInv, NEW c \in Callers, Goes(c, "advance", "release")
  PROVE  ~ Releasing /\ Releasing'
BY DEF IdInv, Exclusive, Goes, Releasing, TypeOK

\* A later millisecond: all ids are of earlier ones.
LEMMA RenewKeeps ==
  ASSUME IdInv, NEW c \in Callers, Renew(c)
  PROVE  IdInv'
<1> USE RequestIdAssumption DEF IdInv, Renew, Newer
<1>1. TypeOK'
  <2>1. lock' \in BOOLEAN
    BY Zenon DEF TypeOK
  <2>2. ts' \in Moments /\ counter' \in Counters
    BY DEF TypeOK, Goes, Exclusive
  <2>3. cpc' \in [Callers -> {"idle", "advance", "release"}]
    BY DEF TypeOK, Goes
  <2> QED BY <2>1, <2>2, <2>3, Zenon DEF TypeOK
<1>2. Exclusive'
  BY DEF Exclusive, TypeOK, Goes
<1>3. ASSUME NEW i \in DOMAIN issued
      PROVE  issued[i] \in Moments \X Counters /\ issued[i][1] < ts'
  <2>1. issued[i] \in Moments \X Counters
    BY DEF TypeOK
  <2>2. issued[i][1] \in Nat
    BY <2>1, Numbers
  <2>3. ts \in Int
    BY DEF TypeOK
  <2>4. now[c] \in Nat
    <3>1. now[c] \in Moments
      BY DEF Goes, Exclusive
    <3> QED BY <3>1
  <2>5. Follows(issued[i])
    BY DEF Monotone
  <2>6. issued[i][1] < ts \/ issued[i][1] = ts
    BY <2>5 DEF Follows, Earlier
  <2> QED BY <2>1, <2>2, <2>6, <2>3, <2>4
<1>4. Monotone'
  BY <1>3 DEF Monotone, Follows, Earlier
<1>5. Spread'
  <2> SUFFICES ASSUME NEW i \in DOMAIN issued' PROVE Apart(i)'
    BY DEF Spread
  <2>1. issued[i] \in Moments \X Counters /\ issued[i][1] < ts' /\ issued' = issued
    BY <1>3
  <2>2. issued[i][1] # ts' /\ issued'[i] = issued[i]
    <3>1. issued[i][1] \in Nat
      BY <2>1, Numbers
    <3> QED BY <2>1, <3>1
  <2> QED BY <2>2 DEF Apart
<1>6. TimeOrdered' /\ NoNearTwin'
  BY DEF TimeOrdered, Earlier, NoNearTwin
<1> QED BY <1>1, <1>2, <1>4, <1>5, <1>6

\* The same millisecond: the counter goes one up, or round, which wraps remembers.
LEMMA CountKeeps ==
  ASSUME IdInv, NEW c \in Callers, Count(c)
  PROVE  IdInv'
<1> USE RequestIdAssumption DEF IdInv, Count, Newer
<1>1. ts \in Moments /\ counter \in Counters
  <2>1. now[c] \in Moments
    BY DEF Goes, Exclusive
  <2>2. now[c] \in Nat
    BY <2>1
  <2>3. ts # -1
    BY <2>2
  <2> QED BY <2>3 DEF TypeOK
<1>2. \/ counter = CounterMax /\ counter' = 0 /\ ts \in wraps'
      \/ counter < CounterMax /\ counter' = counter + 1
  BY <1>1, Increments
<1>3. ~ Releasing /\ Releasing'
  BY Alone
<1>4. TypeOK'
  <2>1. counter' \in Counters
    BY <1>1, <1>2 DEF Counters
  <2>2. lock' \in BOOLEAN
    BY Zenon DEF TypeOK
  <2>3. wraps' \subseteq Moments
    BY <1>1 DEF TypeOK
  <2>4. cpc' \in [Callers -> {"idle", "advance", "release"}]
    BY DEF TypeOK, Goes
  <2> QED BY <2>1, <2>2, <2>3, <2>4, Zenon DEF TypeOK
<1>5. Exclusive'
  BY <1>1 DEF Exclusive, TypeOK, Goes
<1>6. ASSUME NEW i \in DOMAIN issued
      PROVE  Follows(issued[i])' /\ Apart(i)'
  <2>1. issued[i] \in Moments \X Counters /\ i \in 1 .. Len(issued)
    BY DEF TypeOK
  <2>2. Follows(issued[i]) /\ Apart(i)
    BY DEF Monotone, Spread
  <2>3. Follows(issued[i])'
    BY <1>1, <1>2, <2>1, <2>2 DEF Follows, Earlier, Counters, TypeOK
  <2>4. Position' = Position + 1 /\ Position = Len(issued)
    BY <1>3 DEF Position
  <2>5. Apart(i)'
    <3>1. issued' = issued /\ ts' = ts /\ Len(issued) \in Nat /\ i \in Nat /\ i <= Len(issued)
      BY <2>1 DEF TypeOK
    <3>2. issued[i][2] \in 0 .. CounterMax /\ counter \in 0 .. CounterMax
      BY <1>1, <2>1, Numbers DEF Counters
    <3>3. Position - i \in Nat /\ Position' - i = (Position - i) + 1
      BY <2>4, <3>1
    <3>4. counter' \in 0 .. CounterMax
      BY <1>4 DEF TypeOK, Counters
    <3>5. SUFFICES ASSUME issued[i][1] = ts
                   PROVE  \/ (Position - i) + 1 > CounterMax
                          \/ counter' = issued[i][2] + ((Position - i) + 1)
                          \/ counter' = issued[i][2] + ((Position - i) + 1) - (CounterMax + 1)
      BY <3>1, <3>3 DEF Apart
    <3>6. \/ Position - i > CounterMax
          \/ counter = issued[i][2] + (Position - i)
          \/ counter = issued[i][2] + (Position - i) - (CounterMax + 1)
      BY <2>2, <3>5 DEF Apart
    <3>7. \/ counter = CounterMax /\ counter' = 0
          \/ counter < CounterMax /\ counter' = counter + 1
      BY <1>2
    <3> QED BY <3>2, <3>3, <3>4, <3>6, <3>7, OneFurther
  <2> QED BY <2>3, <2>5
<1>7. Monotone' /\ Spread'
  BY <1>6 DEF Monotone, Spread
<1>8. TimeOrdered' /\ NoNearTwin'
  BY DEF TimeOrdered, Earlier, NoNearTwin
<1> QED BY <1>4, <1>5, <1>7, <1>8

\* The id that is given out is the state as it was released.
LEMMA ReleaseKeeps ==
  ASSUME IdInv, NEW c \in Callers, Release(c)
  PROVE  IdInv'
<1> USE RequestIdAssumption DEF IdInv, Release
<1> DEFINE new == Len(issued) + 1
<1>1. ts \in Moments /\ counter \in Counters
  BY DEF TypeOK, Goes, Exclusive
<1>2. Releasing /\ ~ Releasing'
  BY DEF Releasing, Goes, Exclusive, TypeOK
<1>3. TypeOK'
  <2>1. lock' \in BOOLEAN
    BY Zenon
  <2>2. issued' \in Seq(Moments \X Counters)
    BY <1>1 DEF TypeOK
  <2>3. cpc' \in [Callers -> {"idle", "advance", "release"}]
    BY DEF TypeOK, Goes
  <2> QED BY <2>1, <2>2, <2>3, Zenon DEF TypeOK
<1>4. Exclusive'
  BY DEF Exclusive, TypeOK, Goes
<1>5. /\ issued \in Seq(Moments \X Counters)
      /\ DOMAIN issued' = DOMAIN issued \cup {new} /\ DOMAIN issued = 1 .. Len(issued)
      /\ issued'[new] = <<ts, counter>>
      /\ \A i \in DOMAIN issued : issued'[i] = issued[i] /\ i < new
      /\ Len(issued') = Len(issued) + 1 /\ Len(issued) \in Nat
  BY DEF TypeOK
<1>6. Position = new /\ Position' = new
  BY <1>2, <1>5 DEF Position
<1>7. ASSUME NEW i \in DOMAIN issued
      PROVE  /\ issued[i] \in Moments \X Counters
             /\ \/ Earlier(issued[i], <<ts, counter>>)
                \/ issued[i][1] = ts /\ ts \in wraps
             /\ Apart(i)
  <2>1. issued[i] \in Moments \X Counters
    BY <1>5
  <2>2. Follows(issued[i]) /\ Apart(i)
    BY DEF Monotone, Spread
  <2> QED BY <2>1, <2>2, <1>2, Zenon DEF Follows
<1>8. Monotone'
  <2> SUFFICES ASSUME NEW i \in DOMAIN issued' PROVE Follows(issued[i])'
    BY DEF Monotone
  <2>1. CASE i = new
    BY <2>1, <1>2, <1>5 DEF Follows
  <2>2. CASE i \in DOMAIN issued
    BY <2>2, <1>5, <1>7 DEF Follows, Earlier
  <2> QED BY <2>1, <2>2, <1>5
<1>9. Spread'
  <2> SUFFICES ASSUME NEW i \in DOMAIN issued' PROVE Apart(i)'
    BY DEF Spread
  <2>1. CASE i = new
    BY <2>1, <1>1, <1>5, <1>6 DEF Apart, Counters
  <2>2. CASE i \in DOMAIN issued
    BY <2>2, <1>5, <1>6, <1>7 DEF Apart
  <2> QED BY <2>1, <2>2, <1>5
<1>10. TimeOrdered'
  <2> SUFFICES ASSUME NEW i \in DOMAIN issued', NEW j \in DOMAIN issued', i < j
               PROVE  \/ Earlier(issued[i], issued[j])'
                      \/ (issued[i][1] = issued[j][1] /\ issued[i][1] \in wraps)'
    BY DEF TimeOrdered
  <2>1. i \in DOMAIN issued
    BY <1>5
  <2>2. CASE j = new
    BY <2>1, <2>2, <1>5, <1>7 DEF Earlier
  <2>3. CASE j \in DOMAIN issued
    BY <2>1, <2>3, <1>5 DEF TimeOrdered, Earlier
  <2> QED BY <2>2, <2>3, <1>5
<1>11. NoNearTwin'
  <2> SUFFICES ASSUME NEW i \in DOMAIN issued', NEW j \in DOMAIN issued',
                      i < j, issued'[i] = issued'[j]
               PROVE  j - i > CounterMax
    BY DEF NoNearTwin
  <2>1. i \in DOMAIN issued
    BY <1>5
  <2>2. CASE j = new
    <3>1. issued[i][1] = ts /\ issued[i][2] = counter
      BY <2>1, <2>2, <1>5
    <3>2. Apart(i)
      BY <2>1, <1>7
    <3>3. issued[i][2] \in 0 .. CounterMax /\ i \in Nat /\ i < new /\ new \in Nat
      BY <2>1, <1>5, <1>7, Numbers
    <3> QED BY <2>2, <3>1, <3>2, <3>3, <1>6 DEF Apart
  <2>3. CASE j \in DOMAIN issued
    BY <2>1, <2>3, <1>5 DEF NoNearTwin
  <2> QED BY <2>2, <2>3, <1>5
<1> QED BY <1>3, <1>4, <1>8, <1>9, <1>10, <1>11

LEMMA Stutters == IdInv /\ UNCHANGED vars => IdInv'
<1> SUFFICES ASSUME IdInv, UNCHANGED vars PROVE IdInv'
  OBVIOUS
<1> USE DEF vars, IdInv
<1>1. TypeOK' /\ Exclusive'
  BY DEF TypeOK, Exclusive
<1>2. Monotone' /\ Spread'
  BY DEF Monotone, Follows, Earlier, Releasing, Spread, Apart, Position
<1>3. TimeOrdered' /\ NoNearTwin'
  BY DEF TimeOrdered, Earlier, NoNearTwin
<1> QED BY <1>1, <1>2, <1>3

-----------------------------------------------------------------------------
LEMMA Invariance == Spec => []IdInv
<1>1. IdInv /\ [Next]_vars => IdInv'
  BY ClockKeeps, AcquireKeeps, RenewKeeps, CountKeeps, ReleaseKeeps, Stutters DEF Next
<1> QED BY <1>1, InitHolds, PTL DEF Spec

\* Every variable of the generator keeps its type: the counter its width, an id a
\* timestamp that the clock has shown.
THEOREM TypeCorrect == Spec => []TypeOK
BY Invariance, PTL DEF IdInv

\* TCP-010: ids come in the order of their values, for any number of threads and however
\* the clock is set, but for the milliseconds in which the counter has wrapped.
THEOREM InTimeOrder == Spec => []TimeOrdered
BY Invariance, PTL DEF IdInv

\* Two ids with the same timestamp and counter have all values of the counter between
\* them.
THEOREM TwinsFarApart == Spec => []NoNearTwin
BY Invariance, PTL DEF IdInv
=============================================================================
