---------------------------- MODULE ModesProofs ----------------------------
(***************************************************************************)
(* What holds of Modes for any handlers, any number of threads and calls   *)
(* of configure(), and records logged inside one another to any depth.     *)
(***************************************************************************)
EXTENDS Modes, SequenceTheorems, TLAPS

(* The invariant: how the records of one thread are nested, what each of   *)
(* them has been through, and how far configure() has come.                *)

\* k is the innermost record of s that is being hidden, and each such record
\* knows the next one out.
Nested(s, k) ==
  /\ k \in 0 .. Len(s)
  /\ k # 0 => BeingHidden(s[k])
  /\ \A i \in 1 .. Len(s) : i > k => ~ BeingHidden(s[i])
  /\ \A i \in 1 .. Len(s) : BeingHidden(s[i]) =>
       /\ s[i].saved \in 0 .. i - 1
       /\ s[i].saved # 0 => BeingHidden(s[s[i].saved])
       /\ \A j \in 1 .. i - 1 : j > s[i].saved => ~ BeingHidden(s[j])

\* A record has no pipeline of its own before it is routed, carries the marker
\* no longer than that, and is shown to no StreamHandler once it has been.
Sound(d) ==
  /\ d.at = "route" => d.via = None /\ d.got = Nobody
  /\ d.at \in {"deliver", "hide"} => d.via # None
  /\ d.marker => d.at = "route"
  /\ d.via # None => \A h \in Rendering \ {d.via} : d.got[h] = 0

Records == \A t \in Threads :
  /\ Nested(stack[t], hidden[t])
  /\ \A i \in 1 .. Len(stack[t]) :
       Sound(stack[t][i]) /\ (stack[t][i].marker => armed /\ current # None)

\* A marker is attached only when the wrapper is there to take it off.
Switches ==
  /\ marking => armed /\ current # None
  /\ cpc \in {"detach", "capture", "finish"} => current # None /\ fresh # None
  /\ cpc = "capture" => target = "full"
  /\ cpc = "finish" /\ target = "hybrid" => armed

-----------------------------------------------------------------------------
(* Sequences of records, whatever they are.                                *)

LEMMA Replaced ==
  ASSUME NEW S, NEW s \in Seq(S), s # <<>>, NEW e \in S
  PROVE  LET r == [s EXCEPT ![Len(s)] = e] IN
         r \in Seq(S) /\ Len(r) = Len(s) /\ \A i \in 1 .. Len(s) : r[i] = e \/ r[i] = s[i]
BY ExceptSeq, Len(s) \in 1 .. Len(s)

\* The record on top goes on and stays as hidden, or as visible, as it was.
LEMMA NestedReplace ==
  ASSUME NEW s \in Seq(Dispatch), s # <<>>, NEW k, Nested(s, k), NEW d \in Dispatch,
         BeingHidden(d) <=> BeingHidden(s[Len(s)]), d.saved = s[Len(s)].saved
  PROVE  Nested([s EXCEPT ![Len(s)] = d], k)
<1> DEFINE n == Len(s)
           r == [s EXCEPT ![Len(s)] = d]
<1>1. n \in Nat /\ n > 0 /\ Len(r) = n /\ r[n] = d /\ \A i \in 1 .. n : i # n => r[i] = s[i]
  OBVIOUS
<1>2. \A i \in 1 .. n : (BeingHidden(r[i]) <=> BeingHidden(s[i])) /\ r[i].saved = s[i].saved
  BY <1>1
<1> HIDE DEF r
<1>3. Nested(r, k)
  BY <1>1, <1>2 DEF Nested
<1> QED BY <1>3 DEF r

\* A record that has not been routed comes on top.
LEMMA NestedAppend ==
  ASSUME NEW s \in Seq(Dispatch), NEW k, Nested(s, k), NEW d \in Dispatch,
         ~ BeingHidden(d)
  PROVE  Nested(Append(s, d), k)
<1> DEFINE n == Len(s)
           r == Append(s, d)
<1>1. n \in Nat /\ Len(r) = n + 1 /\ r[n + 1] = d /\ \A i \in 1 .. n : r[i] = s[i]
  OBVIOUS
<1> HIDE DEF r
<1>2. k \in 0 .. n /\ \A i \in 1 .. n + 1 : i # n + 1 => i \in 1 .. n
  BY <1>1 DEF Nested
<1>3. \A i \in 1 .. n + 1 : BeingHidden(r[i]) => i \in 1 .. n /\ BeingHidden(s[i])
  BY <1>1, <1>2
<1>4. k # 0 => BeingHidden(r[k])
  BY <1>1, <1>2 DEF Nested
<1>5. \A i \in 1 .. n + 1 : i > k => ~ BeingHidden(r[i])
  BY <1>1, <1>3 DEF Nested
<1>6. ASSUME NEW i \in 1 .. n + 1, BeingHidden(r[i])
      PROVE  /\ r[i].saved \in 0 .. i - 1
             /\ r[i].saved # 0 => BeingHidden(r[r[i].saved])
             /\ \A j \in 1 .. i - 1 : j > r[i].saved => ~ BeingHidden(r[j])
  <2>1. i \in 1 .. n /\ r[i] = s[i] /\ BeingHidden(s[i])
    BY <1>1, <1>3, <1>6
  <2>2. /\ s[i].saved \in 0 .. i - 1
        /\ s[i].saved # 0 => BeingHidden(s[s[i].saved])
        /\ \A j \in 1 .. i - 1 : j > s[i].saved => ~ BeingHidden(s[j])
    BY <2>1 DEF Nested
  <2>3. \A j \in 1 .. i - 1 : r[j] = s[j]
    BY <1>1, <2>1
  <2>4. s[i].saved # 0 => s[i].saved \in 1 .. i - 1
    BY <2>1, <2>2
  <2> QED BY <2>1, <2>2, <2>3, <2>4
<1>7. Nested(r, k)
  BY <1>1, <1>2, <1>4, <1>5, <1>6 DEF Nested
<1> QED BY <1>7 DEF r

\* The record on top begins to be hidden and keeps what was hidden before.
LEMMA NestedHide ==
  ASSUME NEW s \in Seq(Dispatch), s # <<>>, NEW k, Nested(s, k), NEW d \in Dispatch,
         ~ BeingHidden(s[Len(s)]), BeingHidden(d), d.saved = k
  PROVE  Nested([s EXCEPT ![Len(s)] = d], Len(s))
<1> DEFINE n == Len(s)
           r == [s EXCEPT ![Len(s)] = d]
<1>1. n \in Nat /\ n > 0 /\ Len(r) = n /\ r[n] = d /\ \A i \in 1 .. n : i # n => r[i] = s[i]
  OBVIOUS
<1> HIDE DEF r
<1>2. k \in 0 .. n - 1
  BY <1>1 DEF Nested
<1>3. ASSUME NEW i \in 1 .. n, BeingHidden(r[i])
      PROVE  /\ r[i].saved \in 0 .. i - 1
             /\ r[i].saved # 0 => BeingHidden(r[r[i].saved])
             /\ \A j \in 1 .. i - 1 : j > r[i].saved => ~ BeingHidden(r[j])
  <2>1. CASE i = n
    BY <1>1, <1>2, <2>1 DEF Nested
  <2>2. CASE i # n
    <3>1. r[i] = s[i] /\ BeingHidden(s[i])
      BY <1>1, <1>3, <2>2
    <3>2. /\ s[i].saved \in 0 .. i - 1
          /\ s[i].saved # 0 => BeingHidden(s[s[i].saved])
          /\ \A j \in 1 .. i - 1 : j > s[i].saved => ~ BeingHidden(s[j])
      BY <3>1 DEF Nested
    <3>3. \A j \in 1 .. i - 1 : r[j] = s[j]
      BY <1>1, <2>2
    <3>4. s[i].saved # 0 => s[i].saved \in 1 .. i - 1
      BY <3>2
    <3> QED BY <3>1, <3>2, <3>3, <3>4
  <2> QED BY <2>1, <2>2
<1>4. Nested(r, n)
  BY <1>1, <1>3 DEF Nested
<1> QED BY <1>4 DEF r

\* The record on top leaves, and what it had hidden is hidden again.
LEMMA NestedReturn ==
  ASSUME NEW s \in Seq(Dispatch), s # <<>>, NEW k, Nested(s, k)
  PROVE  Nested(SubSeq(s, 1, Len(s) - 1),
                IF BeingHidden(s[Len(s)]) THEN s[Len(s)].saved ELSE k)
<1> DEFINE n == Len(s)
           r == SubSeq(s, 1, Len(s) - 1)
           m == IF BeingHidden(s[Len(s)]) THEN s[Len(s)].saved ELSE k
<1>1. n \in Nat /\ n > 0 /\ Len(r) = n - 1 /\ \A i \in 1 .. n - 1 : r[i] = s[i]
  <2>1. n \in Nat /\ n > 0 /\ 1 \in Int /\ n - 1 \in Int
        /\ \A i \in 1 .. n - 1 : s[i] \in Dispatch
    OBVIOUS
  <2>2. /\ Len(r) = IF 1 <= n - 1 THEN (n - 1) - 1 + 1 ELSE 0
        /\ \A i \in 1 .. (n - 1) - 1 + 1 : r[i] = s[1 + i - 1]
    BY <2>1, SubSeqProperties
  <2> HIDE DEF r, n
  <2>3. Len(r) = n - 1
    BY <2>1, <2>2
  <2>4. ASSUME NEW i \in 1 .. n - 1 PROVE r[i] = s[i]
    <3>1. i \in 1 .. (n - 1) - 1 + 1 /\ 1 + i - 1 = i
      BY <2>1
    <3> QED BY <2>2, <3>1
  <2> QED BY <2>1, <2>3, <2>4
<1> HIDE DEF r
<1>2. /\ m \in 0 .. n - 1
      /\ m # 0 => BeingHidden(s[m])
      /\ \A i \in 1 .. n - 1 : i > m => ~ BeingHidden(s[i])
  <2>1. CASE BeingHidden(s[n])
    BY <1>1, <2>1 DEF Nested
  <2>2. CASE ~ BeingHidden(s[n])
    BY <1>1, <2>2 DEF Nested
  <2> QED BY <2>1, <2>2
<1> HIDE DEF m
<1>3. ASSUME NEW i \in 1 .. n - 1, BeingHidden(r[i])
      PROVE  /\ r[i].saved \in 0 .. i - 1
             /\ r[i].saved # 0 => BeingHidden(r[r[i].saved])
             /\ \A j \in 1 .. i - 1 : j > r[i].saved => ~ BeingHidden(r[j])
  <2>1. r[i] = s[i] /\ BeingHidden(s[i]) /\ i \in 1 .. n
    BY <1>1, <1>3
  <2>2. /\ s[i].saved \in 0 .. i - 1
        /\ s[i].saved # 0 => BeingHidden(s[s[i].saved])
        /\ \A j \in 1 .. i - 1 : j > s[i].saved => ~ BeingHidden(s[j])
    BY <2>1 DEF Nested
  <2>3. \A j \in 1 .. i - 1 : r[j] = s[j]
    BY <1>1, <2>1
  <2>4. s[i].saved # 0 => s[i].saved \in 1 .. i - 1
    BY <2>1, <2>2
  <2> QED BY <2>1, <2>2, <2>3, <2>4
<1>4. Nested(r, m)
  BY <1>1, <1>2, <1>3 DEF Nested
<1> QED BY <1>4 DEF r, m

-----------------------------------------------------------------------------
(* Steps of a thread, as changes of its own stack.                         *)

Placed(d) == Sound(d) /\ (d.marker => armed /\ current # None)

\* What holds of the stack of each thread holds of all of them, also after a step
\* of one thread.
LEMMA OneThread ==
  ASSUME TypeOK, Records, NEW t \in Threads, NEW s \in Seq(Dispatch), NEW k \in Nat,
         stack' = [stack EXCEPT ![t] = s], hidden' = [hidden EXCEPT ![t] = k],
         Nested(s, k), \A i \in 1 .. Len(s) : Placed(s[i]), UNCHANGED <<armed, current>>
  PROVE  Records' /\ stack' \in [Threads -> Seq(Dispatch)] /\ hidden' \in [Threads -> Nat]
<1>1. stack \in [Threads -> Seq(Dispatch)] /\ hidden \in [Threads -> Nat]
  BY DEF TypeOK
<1>2. stack' \in [Threads -> Seq(Dispatch)] /\ hidden' \in [Threads -> Nat]
  BY <1>1
<1>3. ASSUME NEW u \in Threads
      PROVE  /\ Nested(stack'[u], hidden'[u])
             /\ \A i \in 1 .. Len(stack'[u]) :
                  Sound(stack'[u][i]) /\ (stack'[u][i].marker => armed' /\ current' # None)
  <2>1. CASE u = t
    BY <1>1, <2>1 DEF Placed
  <2>2. CASE u # t
    BY <1>1, <2>2 DEF Records
  <2> QED BY <2>1, <2>2
<1> QED BY <1>2, <1>3 DEF Records

LEMMA OneStack ==
  ASSUME TypeOK, Records, NEW t \in Threads, NEW s \in Seq(Dispatch),
         stack' = [stack EXCEPT ![t] = s], Nested(s, hidden[t]),
         \A i \in 1 .. Len(s) : Placed(s[i]), UNCHANGED <<hidden, armed, current>>
  PROVE  Records' /\ stack' \in [Threads -> Seq(Dispatch)] /\ hidden' \in [Threads -> Nat]
<1> DEFINE k == hidden[t]
<1>1. k \in Nat /\ hidden' = [hidden EXCEPT ![t] = k] /\ UNCHANGED <<armed, current>>
  BY DEF TypeOK
<1>2. Nested(s, k)
  OBVIOUS
<1> HIDE DEF k
<1> QED BY <1>1, <1>2, OneThread

\* A record that is new has not been routed, and its marker will be taken off.
LEMMA NewIsPlaced ==
  ASSUME TypeOK, Switches, NEW semlog \in BOOLEAN, NEW l \in Loggers
  PROVE  /\ NewDispatch(semlog, l) \in Dispatch
         /\ Placed(NewDispatch(semlog, l))
         /\ ~ BeingHidden(NewDispatch(semlog, l))
<1> DEFINE d == NewDispatch(semlog, l)
<1>1. /\ d.at = "route" /\ d.via = None /\ d.got = Nobody
      /\ d.marker = (semlog /\ marking)
  BY DEF NewDispatch
<1>2. d.calm \in BOOLEAN /\ d.marker \in BOOLEAN
  BY Zenon DEF NewDispatch
<1>3. Nobody \in [Handlers -> Nat]
  BY DEF Nobody
<1>4. d = [semlog |-> semlog, marker |-> d.marker, logger |-> l, on |-> l,
           pos |-> 1, at |-> "route", via |-> None, saved |-> 0, found |-> FALSE,
           got |-> Nobody, calm |-> d.calm]
  BY DEF NewDispatch
<1>5. d \in Dispatch
  <2>1. ASSUME NEW m \in BOOLEAN, NEW c \in BOOLEAN, NEW f \in BOOLEAN
        PROVE  [semlog |-> semlog, marker |-> m, logger |-> l, on |-> l,
                pos |-> 1, at |-> "route", via |-> None, saved |-> 0, found |-> f,
                got |-> Nobody, calm |-> c] \in Dispatch
    BY <1>3 DEF Dispatch
  <2>2. FALSE \in BOOLEAN
    OBVIOUS
  <2> HIDE DEF d
  <2> QED BY <1>2, <1>4, <2>1, <2>2, Zenon
<1>6. d.marker => marking
  BY <1>1
<1> QED BY <1>1, <1>5, <1>6 DEF Placed, Sound, Switches, BeingHidden

\* The record on top goes on to d, and perhaps its handler logs.
LEMMA ProceedKeeps ==
  ASSUME TypeOK, Records, Switches, NEW t \in Threads, stack[t] # <<>>,
         NEW d \in Dispatch, Sound(d), ~ d.marker, d.saved = Top(t).saved,
         BeingHidden(d) <=> BeingHidden(Top(t)),
         stack' = WithTop(t, d) \/ Proceed(t, d),
         UNCHANGED <<hidden, armed, current>>
  PROVE  Records' /\ stack' \in [Threads -> Seq(Dispatch)] /\ hidden' \in [Threads -> Nat]
<1> DEFINE s == stack[t]
           k == hidden[t]
           r == [s EXCEPT ![Len(s)] = d]
<1>1. s \in Seq(Dispatch) /\ k \in Nat /\ Nested(s, k) /\ s # <<>>
      /\ \A i \in 1 .. Len(s) : Placed(s[i])
  BY DEF TypeOK, Records, Placed
<1>2. Nested(r, k)
  BY <1>1, NestedReplace DEF Top
<1>3. r \in Seq(Dispatch) /\ Len(r) = Len(s) /\ \A i \in 1 .. Len(r) : Placed(r[i])
  <2>1. r \in Seq(Dispatch) /\ Len(r) = Len(s)
        /\ \A i \in 1 .. Len(s) : r[i] = d \/ r[i] = s[i]
    BY <1>1
  <2>2. Placed(d)
    BY DEF Placed
  <2> HIDE DEF r, s
  <2> QED BY <1>1, <2>1, <2>2
<1>4. CASE stack' = WithTop(t, d)
  <2>1. stack' = [stack EXCEPT ![t] = r]
    BY <1>4 DEF WithTop, TypeOK
  <2> HIDE DEF r
  <2> QED BY <1>2, <1>3, <2>1, OneStack
<1>5. CASE \E semlog \in BOOLEAN, l \in Loggers :
             stack' = [stack EXCEPT ![t] = Append(r, NewDispatch(semlog, l))]
  <2>1. PICK semlog \in BOOLEAN, l \in Loggers :
               stack' = [stack EXCEPT ![t] = Append(r, NewDispatch(semlog, l))]
    BY <1>5
  <2> DEFINE e == NewDispatch(semlog, l)
             q == Append(r, e)
  <2>2. e \in Dispatch /\ Placed(e) /\ ~ BeingHidden(e)
    BY NewIsPlaced
  <2> HIDE DEF e, r
  <2>3. Nested(q, k)
    BY <1>2, <1>3, <2>2, NestedAppend
  <2>4. q \in Seq(Dispatch) /\ Len(q) = Len(r) + 1 /\ Len(r) \in Nat
        /\ \A i \in 1 .. Len(r) + 1 : q[i] = IF i = Len(r) + 1 THEN e ELSE r[i]
    BY <1>3, <2>2
  <2>5. stack' = [stack EXCEPT ![t] = q]
    BY <2>1 DEF e
  <2> HIDE DEF q
  <2>6. \A i \in 1 .. Len(q) : Placed(q[i])
    BY <1>3, <2>2, <2>4
  <2> QED BY <2>3, <2>4, <2>5, <2>6, OneStack
<1>6. Proceed(t, d) =>
        \/ stack' = WithTop(t, d)
        \/ \E semlog \in BOOLEAN, l \in Loggers :
             stack' = [stack EXCEPT ![t] = Append(r, NewDispatch(semlog, l))]
  BY DEF Proceed
<1> QED BY <1>4, <1>5, <1>6

\* A record of its own accord.
LEMMA CallKeeps ==
  ASSUME TypeOK, Records, Switches, NEW t \in Threads, Call(t)
  PROVE  Records' /\ stack' \in [Threads -> Seq(Dispatch)] /\ hidden' \in [Threads -> Nat]
<1>1. PICK semlog \in BOOLEAN, l \in Loggers :
             stack' = [stack EXCEPT ![t] = <<NewDispatch(semlog, l)>>]
  BY DEF Call
<1> DEFINE e == NewDispatch(semlog, l)
           k == hidden[t]
<1>2. e \in Dispatch /\ Placed(e) /\ ~ BeingHidden(e)
  BY NewIsPlaced
<1>3. stack[t] = <<>> /\ Nested(stack[t], k) /\ k \in Nat
      /\ hidden' = [hidden EXCEPT ![t] = k] /\ UNCHANGED <<armed, current>>
  BY DEF Call, Records, TypeOK, switches
<1>4. stack' = [stack EXCEPT ![t] = <<e>>]
  BY <1>1
<1> HIDE DEF e, k
<1>5. <<e>> = Append(<<>>, e) /\ <<>> \in Seq(Dispatch) /\ <<e>> \in Seq(Dispatch)
      /\ \A i \in 1 .. Len(<<e>>) : <<e>>[i] = e
  BY <1>2
<1>6. Nested(<<>>, k)
  BY <1>3
<1>7. Nested(Append(<<>>, e), k)
  BY <1>2, <1>5, <1>6, NestedAppend
<1>8. Nested(<<e>>, k) /\ \A i \in 1 .. Len(<<e>>) : Placed(<<e>>[i])
  BY <1>2, <1>5, <1>7
<1> QED BY <1>3, <1>4, <1>5, <1>8, OneThread

\* The record on top, and what is hidden when it is.
LEMMA TopPlaced ==
  ASSUME TypeOK, Records, NEW t \in Threads, stack[t] # <<>>
  PROVE  /\ Top(t) \in Dispatch
         /\ Sound(Top(t))
         /\ Top(t).marker => armed /\ current # None
         /\ BeingHidden(Top(t)) <=> hidden[t] = Len(stack[t])
<1>1. stack[t] \in Seq(Dispatch) /\ Len(stack[t]) \in 1 .. Len(stack[t])
  BY DEF TypeOK
<1>2. Nested(stack[t], hidden[t])
  BY DEF Records
<1> QED BY <1>1, <1>2 DEF Top, Records, Nested

\* A handler counts the record it has; nothing else about the record changes.
LEMMA Counted ==
  ASSUME NEW d \in Dispatch, NEW h
  PROVE  LET e == [d EXCEPT !.got[h] = @ + 1] IN
         /\ e \in Dispatch
         /\ e.marker = d.marker /\ e.saved = d.saved /\ e.via = d.via /\ e.at = d.at
         /\ \A g \in Handlers : g # h => e.got[g] = d.got[g]
<1> DEFINE f == d.got
           e == [d EXCEPT !.got = [f EXCEPT ![h] = f[h] + 1]]
<1>1. f \in [Handlers -> Nat]
  BY DEF Dispatch
<1>2. [f EXCEPT ![h] = f[h] + 1] \in [Handlers -> Nat]
  <2> HIDE DEF f
  <2>1. CASE h \in Handlers
    BY <1>1, <2>1
  <2>2. CASE h \notin Handlers
    <3>1. [f EXCEPT ![h] = f[h] + 1] = f
      BY <1>1, <2>2
    <3> QED BY <1>1, <3>1
  <2> QED BY <2>1, <2>2
<1>3. \A g \in Handlers : g # h => [f EXCEPT ![h] = f[h] + 1][g] = f[g]
  BY <1>1
<1>4. e \in Dispatch /\ e.got = [f EXCEPT ![h] = f[h] + 1]
      /\ e.marker = d.marker /\ e.saved = d.saved /\ e.via = d.via /\ e.at = d.at
  <2> DEFINE c == [f EXCEPT ![h] = f[h] + 1]
  <2> HIDE DEF c
  <2>1. c \in [Handlers -> Nat]
    BY <1>2 DEF c
  <2>2. [d EXCEPT !.got = c] \in Dispatch /\ [d EXCEPT !.got = c].got = c
        /\ [d EXCEPT !.got = c].marker = d.marker /\ [d EXCEPT !.got = c].saved = d.saved
        /\ [d EXCEPT !.got = c].via = d.via /\ [d EXCEPT !.got = c].at = d.at
    BY <2>1 DEF Dispatch
  <2> QED BY <2>2 DEF c
<1>5. [d EXCEPT !.got[h] = @ + 1] = e
  OBVIOUS
<1> QED BY <1>3, <1>4, <1>5

LEMMA RouteKeeps ==
  ASSUME TypeOK, Records, Switches, NEW t \in Threads, Route(t)
  PROVE  Records' /\ stack' \in [Threads -> Seq(Dispatch)] /\ hidden' \in [Threads -> Nat]
<1> DEFINE d == Top(t)
<1>1. stack[t] # <<>> /\ d.at = "route" /\ UNCHANGED <<hidden, armed, current>>
  BY DEF Route, Tops, switches
<1>2. d \in Dispatch /\ Sound(d) /\ ~ BeingHidden(d) /\ (d.marker => armed /\ current # None)
      /\ current \in Pipelines \cup {None}
  BY <1>1, TopPlaced DEF BeingHidden, TypeOK
<1>3. CASE armed /\ current # None
  <2> DEFINE e == [d EXCEPT !.marker = FALSE,
                            !.at = IF d.marker THEN "deliver" ELSE "walk",
                            !.via = IF d.marker THEN current ELSE None]
  <2>1. e \in Dispatch
    <3>1. FALSE \in BOOLEAN
      OBVIOUS
    <3> QED BY <1>2, <3>1 DEF Dispatch
  <2>2. /\ e.marker = FALSE /\ e.saved = d.saved /\ e.got = d.got
        /\ e.at = IF d.marker THEN "deliver" ELSE "walk"
        /\ e.via = IF d.marker THEN current ELSE None
    BY <1>2 DEF Dispatch
  <2>3. Sound(e) /\ ~ BeingHidden(e)
    <3> HIDE DEF e
    <3>1. Nobody = [h \in Handlers |-> 0] /\ Rendering \subseteq Handlers
      BY DEF Nobody, Rendering, Handlers, Pipelines
    <3> QED BY <1>1, <1>2, <1>3, <2>2, <3>1 DEF Sound, BeingHidden, Routed
  <2>4. stack' = WithTop(t, e)
    BY <1>3 DEF Route
  <2> HIDE DEF e
  <2> QED BY <1>1, <1>2, <2>1, <2>2, <2>3, <2>4, ProceedKeeps
<1>4. CASE ~ (armed /\ current # None)
  <2> DEFINE e == [d EXCEPT !.at = "walk"]
  <2>1. e \in Dispatch /\ e.marker = d.marker /\ e.saved = d.saved /\ e.got = d.got
        /\ e.via = d.via /\ e.at = "walk"
    BY <1>2 DEF Dispatch
  <2> HIDE DEF e
  <2>2. ~ e.marker /\ Sound(e) /\ ~ BeingHidden(e)
    BY <1>1, <1>2, <1>4, <2>1 DEF Sound, BeingHidden, Routed
  <2>3. stack' = WithTop(t, e)
    BY <1>4 DEF Route, e
  <2> QED BY <1>1, <1>2, <2>1, <2>2, <2>3, ProceedKeeps
<1> QED BY <1>3, <1>4

LEMMA DeliverKeeps ==
  ASSUME TypeOK, Records, Switches, NEW t \in Threads, Deliver(t)
  PROVE  Records' /\ stack' \in [Threads -> Seq(Dispatch)] /\ hidden' \in [Threads -> Nat]
<1> DEFINE d == Top(t)
           e == [d EXCEPT !.got[d.via] = @ + 1, !.at = "hide"]
<1>1. stack[t] # <<>> /\ d.at = "deliver" /\ UNCHANGED <<hidden, armed, current>>
      /\ Proceed(t, e)
  BY DEF Deliver, Tops, switches
<1>2. d \in Dispatch /\ Sound(d) /\ ~ BeingHidden(d) /\ ~ d.marker
  BY <1>1, TopPlaced DEF BeingHidden, Sound
<1>3. e \in Dispatch /\ e.marker = d.marker /\ e.saved = d.saved /\ e.via = d.via
      /\ e.at = "hide" /\ \A h \in Handlers : h # d.via => e.got[h] = d.got[h]
  <2> DEFINE c == [d EXCEPT !.got[d.via] = @ + 1]
  <2>1. /\ c \in Dispatch /\ c.marker = d.marker /\ c.saved = d.saved /\ c.via = d.via
        /\ \A h \in Handlers : h # d.via => c.got[h] = d.got[h]
    BY <1>2, Counted
  <2>2. e = [c EXCEPT !.at = "hide"]
    OBVIOUS
  <2> HIDE DEF c
  <2> QED BY <2>1, <2>2 DEF Dispatch
<1> HIDE DEF e
<1>4. Sound(e) /\ ~ BeingHidden(e)
  <2>1. Rendering \subseteq Handlers
    BY DEF Rendering, Handlers, Pipelines
  <2> QED BY <1>1, <1>2, <1>3, <2>1 DEF Sound, BeingHidden
<1> QED BY <1>1, <1>2, <1>3, <1>4, ProceedKeeps

LEMMA HandleKeeps ==
  ASSUME TypeOK, Records, Switches, NEW t \in Threads, Handle(t)
  PROVE  Records' /\ stack' \in [Threads -> Seq(Dispatch)] /\ hidden' \in [Threads -> Nat]
<1> DEFINE d == Top(t)
           h == attached[d.on][d.pos]
           next == [d EXCEPT !.pos = @ + 1, !.found = TRUE]
           e == [next EXCEPT !.got[h] = @ + 1]
<1>1. stack[t] # <<>> /\ d.at = "walk" /\ UNCHANGED <<hidden, armed, current>>
      /\ \/ Concealed(t, h) /\ stack' = WithTop(t, next)
         \/ ~ Concealed(t, h) /\ Proceed(t, e)
  BY DEF Handle, Tops, switches
<1>2. d \in Dispatch /\ Sound(d) /\ ~ d.marker
      /\ (BeingHidden(d) <=> hidden[t] = Len(stack[t]))
  BY <1>1, TopPlaced DEF Sound
<1>3. next \in Dispatch /\ next.marker = d.marker /\ next.saved = d.saved
      /\ next.via = d.via /\ next.at = d.at /\ next.got = d.got
  <2>1. d.pos + 1 \in Nat
    BY <1>2 DEF Dispatch
  <2>2. ASSUME NEW n \in Nat, NEW b \in BOOLEAN
        PROVE  LET c == [d EXCEPT !.pos = n, !.found = b] IN
               c \in Dispatch /\ c.marker = d.marker /\ c.saved = d.saved
               /\ c.via = d.via /\ c.at = d.at /\ c.got = d.got
    BY <1>2 DEF Dispatch
  <2>3. TRUE \in BOOLEAN /\ next = [d EXCEPT !.pos = d.pos + 1, !.found = TRUE]
    OBVIOUS
  <2> HIDE DEF next, d
  <2> QED BY <2>1, <2>2, <2>3, Zenon
<1>4. CASE Concealed(t, h) /\ stack' = WithTop(t, next)
  <2> HIDE DEF next
  <2>1. Sound(next) /\ (BeingHidden(next) <=> BeingHidden(d))
    BY <1>1, <1>2, <1>3 DEF Sound, BeingHidden, Routed
  <2> QED BY <1>1, <1>2, <1>3, <1>4, <2>1, ProceedKeeps
<1>5. CASE ~ Concealed(t, h) /\ Proceed(t, e)
  <2> HIDE DEF h
  <2>1. e \in Dispatch /\ e.marker = d.marker /\ e.saved = d.saved /\ e.via = d.via
        /\ e.at = d.at /\ \A g \in Handlers : g # h => e.got[g] = d.got[g]
    <3> HIDE DEF next
    <3> QED BY <1>3, Counted
  <2> HIDE DEF e, next
  <2>2. BeingHidden(e) <=> BeingHidden(d)
    BY <2>1 DEF BeingHidden, Routed
  <2>3. Sound(e)
    <3>1. Rendering \subseteq Handlers
      BY DEF Rendering, Handlers, Pipelines
    <3>2. CASE d.via = None
      BY <1>1, <1>2, <2>1, <3>2 DEF Sound
    <3>3. CASE d.via # None
      <4>1. h \notin Rendering
        BY <1>1, <1>2, <1>5, <3>3 DEF Concealed, BeingHidden, Routed
      <4> QED BY <1>1, <1>2, <2>1, <3>1, <4>1 DEF Sound
    <3> QED BY <3>2, <3>3
  <2> QED BY <1>1, <1>2, <1>5, <2>1, <2>2, <2>3, ProceedKeeps
<1> QED BY <1>1, <1>4, <1>5

LEMMA AscendKeeps ==
  ASSUME TypeOK, Records, Switches, NEW t \in Threads, Ascend(t)
  PROVE  Records' /\ stack' \in [Threads -> Seq(Dispatch)] /\ hidden' \in [Threads -> Nat]
<1> DEFINE d == Top(t)
           up == [d EXCEPT !.on = "root", !.pos = 1]
           done == [d EXCEPT !.at = "done"]
           last == [d EXCEPT !.at = "done", !.got[LastResort] = @ + 1]
<1>1. stack[t] # <<>> /\ d.at = "walk" /\ UNCHANGED <<hidden, armed, current>>
      /\ \/ stack' = WithTop(t, up)
         \/ stack' = WithTop(t, done)
         \/ ~ Concealed(t, LastResort) /\ stack' = WithTop(t, last)
  BY DEF Ascend, Tops, switches
<1>2. d \in Dispatch /\ Sound(d) /\ ~ d.marker
      /\ (BeingHidden(d) <=> hidden[t] = Len(stack[t]))
  BY <1>1, TopPlaced DEF Sound
<1>3. CASE stack' = WithTop(t, up)
  <2>1. up \in Dispatch /\ up.marker = d.marker /\ up.saved = d.saved
        /\ up.via = d.via /\ up.at = d.at /\ up.got = d.got
    BY <1>2 DEF Dispatch, Loggers
  <2> HIDE DEF up
  <2>2. Sound(up) /\ (BeingHidden(up) <=> BeingHidden(d))
    BY <1>1, <1>2, <2>1 DEF Sound, BeingHidden, Routed
  <2> QED BY <1>1, <1>2, <1>3, <2>1, <2>2, ProceedKeeps
<1>4. done \in Dispatch /\ done.marker = d.marker /\ done.saved = d.saved
      /\ done.via = d.via /\ done.at = "done" /\ done.got = d.got
  BY <1>2 DEF Dispatch
<1>5. Sound(done) /\ (BeingHidden(done) <=> BeingHidden(d))
  <2> HIDE DEF done
  <2> QED BY <1>1, <1>2, <1>4 DEF Sound, BeingHidden, Routed
<1>6. CASE stack' = WithTop(t, done)
  <2> HIDE DEF done
  <2> QED BY <1>1, <1>2, <1>4, <1>5, <1>6, ProceedKeeps
<1>7. CASE ~ Concealed(t, LastResort) /\ stack' = WithTop(t, last)
  <2> DEFINE c == [done EXCEPT !.got[LastResort] = @ + 1]
  <2>1. /\ c \in Dispatch /\ c.marker = done.marker /\ c.saved = done.saved
        /\ c.via = done.via /\ c.at = done.at
        /\ \A g \in Handlers : g # LastResort => c.got[g] = done.got[g]
    <3> HIDE DEF done
    <3> QED BY <1>4, Counted
  <2>6. last = c
    OBVIOUS
  <2> HIDE DEF done, last, c
  <2>2. last \in Dispatch /\ last.marker = d.marker /\ last.saved = d.saved
        /\ last.via = d.via /\ last.at = "done"
        /\ \A g \in Handlers : g # LastResort => last.got[g] = d.got[g]
    <3> HIDE DEF d
    <3> QED BY <1>4, <2>1, <2>6
  <2>3. BeingHidden(last) <=> BeingHidden(d)
    BY <1>4, <1>5, <2>2 DEF BeingHidden, Routed
  <2>4. ~ BeingHidden(d)
    BY <1>2, <1>7 DEF Concealed, Rendering
  <2>5. Sound(last)
    BY <1>1, <1>2, <2>2, <2>4 DEF Sound, BeingHidden, Routed
  <2> QED BY <1>1, <1>2, <1>7, <2>2, <2>3, <2>5, ProceedKeeps
<1> QED BY <1>1, <1>3, <1>6, <1>7

LEMMA HideKeeps ==
  ASSUME TypeOK, Records, NEW t \in Threads, Hide(t)
  PROVE  Records' /\ stack' \in [Threads -> Seq(Dispatch)] /\ hidden' \in [Threads -> Nat]
<1> DEFINE d == Top(t)
           s == stack[t]
           n == Len(s)
           e == [d EXCEPT !.saved = hidden[t], !.at = "walk"]
           r == [s EXCEPT ![n] = e]
<1>1. s # <<>> /\ d.at = "hide" /\ stack' = WithTop(t, e)
      /\ hidden' = [hidden EXCEPT ![t] = n] /\ UNCHANGED <<armed, current>>
  BY DEF Hide, Tops, switches
<1>2. s \in Seq(Dispatch) /\ n \in Nat /\ hidden[t] \in Nat
      /\ Nested(s, hidden[t]) /\ \A i \in 1 .. n : Placed(s[i])
  BY DEF TypeOK, Records, Placed
<1>3. d \in Dispatch /\ Sound(d) /\ ~ BeingHidden(d) /\ d.via # None /\ ~ d.marker
  BY <1>1, TopPlaced DEF Sound, BeingHidden
<1>4. e \in Dispatch /\ e.saved = hidden[t] /\ e.at = "walk" /\ e.via = d.via
      /\ e.got = d.got /\ e.marker = d.marker
  <2> HIDE DEF d
  <2> QED BY <1>2, <1>3 DEF Dispatch
<1>5. Placed(e) /\ BeingHidden(e)
  <2> HIDE DEF e, d
  <2> QED BY <1>3, <1>4 DEF Placed, Sound, BeingHidden, Routed
<1>6. stack' = [stack EXCEPT ![t] = r]
  BY <1>1 DEF WithTop, TypeOK
<1>7. ~ BeingHidden(s[n])
  BY <1>3 DEF Top
<1> HIDE DEF e, d
<1>8. Nested(r, n)
  BY <1>1, <1>2, <1>4, <1>5, <1>7, NestedHide
<1>9. r \in Seq(Dispatch) /\ Len(r) = n /\ \A i \in 1 .. n : r[i] = e \/ r[i] = s[i]
  BY <1>1, <1>2, <1>4, Replaced
<1> HIDE DEF r
<1>10. \A i \in 1 .. Len(r) : Placed(r[i])
  BY <1>2, <1>5, <1>9
<1> HIDE DEF n, s
<1> QED BY <1>1, <1>2, <1>6, <1>8, <1>9, <1>10, OneThread

LEMMA LeaveKeeps ==
  ASSUME TypeOK, Records, NEW t \in Threads, stack[t] # <<>>, Top(t).at \in {"walk", "done"},
         Leave(t)
  PROVE  Records' /\ stack' \in [Threads -> Seq(Dispatch)] /\ hidden' \in [Threads -> Nat]
<1> DEFINE d == Top(t)
           s == stack[t]
           n == Len(s)
           r == SubSeq(s, 1, n - 1)
           k == IF d.via # None THEN d.saved ELSE hidden[t]
<1>1. s # <<>> /\ d.at \in {"walk", "done"} /\ UNCHANGED <<armed, current>>
      /\ hidden' = (IF d.via # None THEN [hidden EXCEPT ![t] = d.saved] ELSE hidden)
  BY DEF Leave, Restored, switches
<1>2. s \in Seq(Dispatch) /\ n \in Nat /\ hidden[t] \in Nat
      /\ Nested(s, hidden[t]) /\ \A i \in 1 .. n : Placed(s[i])
  BY DEF TypeOK, Records, Placed
<1>3. d \in Dispatch /\ d = s[n] /\ (BeingHidden(d) <=> d.via # None)
  BY <1>1, TopPlaced DEF BeingHidden, Routed, Top
<1>4. k \in Nat /\ hidden' = [hidden EXCEPT ![t] = k]
  <2>1. d.saved \in Nat
    BY <1>3 DEF Dispatch
  <2> QED BY <1>1, <1>2, <2>1 DEF TypeOK
<1>5. Nested(r, k)
  BY <1>1, <1>2, <1>3, NestedReturn
<1>6. stack' = [stack EXCEPT ![t] = r]
  BY DEF Leave, Dropped
<1>7. r \in Seq(Dispatch) /\ \A i \in 1 .. Len(r) : i \in 1 .. n /\ r[i] = s[i]
  BY <1>1, <1>2
<1> HIDE DEF r, k
<1>8. \A i \in 1 .. Len(r) : Placed(r[i])
  BY <1>2, <1>7
<1> HIDE DEF n, s
<1> QED BY <1>1, <1>4, <1>5, <1>6, <1>7, <1>8, OneThread

\* The direct delivery raises: what the thread was hiding it still hides.
LEMMA DeliverRaisesKeeps ==
  ASSUME TypeOK, Records, NEW t \in Threads, DeliverRaises(t)
  PROVE  Records' /\ stack' \in [Threads -> Seq(Dispatch)] /\ hidden' \in [Threads -> Nat]
<1> DEFINE s == stack[t]
           n == Len(s)
           r == SubSeq(s, 1, n - 1)
<1>1. s # <<>> /\ s[n].at = "hide" /\ UNCHANGED <<hidden, armed, current>>
      /\ stack' = [stack EXCEPT ![t] = r]
  BY DEF DeliverRaises, Dropped, Tops, Top, switches
<1>2. s \in Seq(Dispatch) /\ n \in Nat /\ hidden[t] \in Nat
      /\ Nested(s, hidden[t]) /\ \A i \in 1 .. n : Placed(s[i])
  BY DEF TypeOK, Records, Placed
<1>3. ~ BeingHidden(s[n])
  BY <1>1 DEF BeingHidden
<1>4. Nested(r, hidden[t])
  BY <1>1, <1>2, <1>3, NestedReturn
<1>5. r \in Seq(Dispatch) /\ \A i \in 1 .. Len(r) : i \in 1 .. n /\ r[i] = s[i]
  BY <1>1, <1>2
<1> HIDE DEF r
<1>6. \A i \in 1 .. Len(r) : Placed(r[i])
  BY <1>2, <1>5
<1> HIDE DEF n, s
<1>7. hidden' = [hidden EXCEPT ![t] = hidden[t]]
  BY <1>1 DEF TypeOK
<1> QED BY <1>1, <1>2, <1>4, <1>5, <1>6, <1>7, OneThread

-----------------------------------------------------------------------------
(* Steps of configure().                                                   *)

\* Every record stays as it is but for its calm.
LEMMA StirKeeps ==
  ASSUME TypeOK, Records, Stir, UNCHANGED <<hidden, armed, current>>
  PROVE  Records' /\ stack' \in [Threads -> Seq(Dispatch)] /\ hidden' \in [Threads -> Nat]
<1> DEFINE Stirred(s) == [i \in DOMAIN s |-> [s[i] EXCEPT !.calm = FALSE]]
<1>1. \A t \in Threads : stack'[t] = Stirred(stack[t])
  BY DEF Stir
<1>2. ASSUME NEW d \in Dispatch
      PROVE  LET e == [d EXCEPT !.calm = FALSE] IN
             /\ e \in Dispatch /\ (Sound(d) => Sound(e)) /\ e.marker = d.marker
             /\ e.saved = d.saved /\ (BeingHidden(e) <=> BeingHidden(d))
  <2>1. ASSUME NEW b \in BOOLEAN
        PROVE  LET e == [d EXCEPT !.calm = b] IN
               e \in Dispatch /\ e.at = d.at /\ e.via = d.via /\ e.got = d.got
               /\ e.marker = d.marker /\ e.saved = d.saved
    BY DEF Dispatch
  <2> DEFINE e == [d EXCEPT !.calm = FALSE]
  <2>2. e \in Dispatch /\ e.at = d.at /\ e.via = d.via /\ e.got = d.got
        /\ e.marker = d.marker /\ e.saved = d.saved
    <3>1. FALSE \in BOOLEAN
      OBVIOUS
    <3> QED BY <2>1, <3>1, Zenon
  <2> HIDE DEF e
  <2>3. (Sound(d) => Sound(e)) /\ (BeingHidden(e) <=> BeingHidden(d))
    BY <2>2 DEF Sound, BeingHidden, Routed
  <2> QED BY <2>2, <2>3 DEF e
<1>3. ASSUME NEW s \in Seq(Dispatch)
      PROVE  /\ Stirred(s) \in Seq(Dispatch) /\ Len(Stirred(s)) = Len(s)
             /\ \A i \in 1 .. Len(s) :
                  /\ Stirred(s)[i].marker = s[i].marker /\ Stirred(s)[i].saved = s[i].saved
                  /\ Sound(s[i]) => Sound(Stirred(s)[i])
                  /\ BeingHidden(Stirred(s)[i]) <=> BeingHidden(s[i])
  <2> DEFINE n == Len(s)
             r == Stirred(s)
             E(d) == [d EXCEPT !.calm = FALSE]
  <2>1. n \in Nat /\ DOMAIN s = 1 .. n /\ \A i \in 1 .. n : s[i] \in Dispatch
    OBVIOUS
  <2>2. DOMAIN r = 1 .. n /\ r = [i \in 1 .. n |-> E(s[i])]
        /\ \A i \in 1 .. n : r[i] = E(s[i])
    BY <2>1
  <2>3. \A d \in Dispatch : E(d) \in Dispatch /\ (Sound(d) => Sound(E(d)))
          /\ E(d).marker = d.marker
          /\ E(d).saved = d.saved /\ (BeingHidden(E(d)) <=> BeingHidden(d))
    BY <1>2
  <2> HIDE DEF E, r, n
  <2>4. r \in [1 .. n -> Dispatch]
    BY <2>1, <2>2, <2>3
  <2>5. r \in Seq(Dispatch) /\ Len(r) = n
    BY <2>1, <2>2, <2>4, SeqDef
  <2>6. \A i \in 1 .. n :
          /\ r[i].marker = s[i].marker /\ r[i].saved = s[i].saved
          /\ Sound(s[i]) => Sound(r[i])
          /\ BeingHidden(r[i]) <=> BeingHidden(s[i])
    BY <2>1, <2>2, <2>3
  <2> QED BY <2>5, <2>6 DEF r, n
<1> HIDE DEF Stirred
<1>4. stack' \in [Threads -> Seq(Dispatch)] /\ hidden' \in [Threads -> Nat]
  <2>1. stack' = [t \in Threads |-> Stirred(stack[t])]
    BY DEF Stir, Stirred
  <2> QED BY <1>3, <2>1 DEF TypeOK
<1>5. ASSUME NEW t \in Threads
      PROVE  /\ Nested(stack'[t], hidden'[t])
             /\ \A i \in 1 .. Len(stack'[t]) :
                  Sound(stack'[t][i]) /\ (stack'[t][i].marker => armed' /\ current' # None)
  <2> DEFINE s == stack[t]
             r == stack'[t]
  <2>1. s \in Seq(Dispatch) /\ r = Stirred(s) /\ Nested(s, hidden[t])
        /\ \A i \in 1 .. Len(s) : Sound(s[i]) /\ (s[i].marker => armed /\ current # None)
    BY <1>1 DEF Records, TypeOK
  <2>2. Len(r) = Len(s) /\ \A i \in 1 .. Len(s) :
          /\ r[i].marker = s[i].marker /\ r[i].saved = s[i].saved
          /\ Sound(s[i]) => Sound(r[i])
          /\ BeingHidden(r[i]) <=> BeingHidden(s[i])
    BY <1>3, <2>1
  <2> HIDE DEF r, s
  <2>3. Nested(r, hidden[t])
    <3>1. ASSUME NEW i \in 1 .. Len(r), BeingHidden(r[i])
          PROVE  /\ r[i].saved \in 0 .. i - 1
                 /\ r[i].saved # 0 => BeingHidden(r[r[i].saved])
                 /\ \A j \in 1 .. i - 1 : j > r[i].saved => ~ BeingHidden(r[j])
      <4>1. i \in 1 .. Len(s) /\ r[i].saved = s[i].saved /\ BeingHidden(s[i])
        BY <2>2, <3>1
      <4>2. /\ s[i].saved \in 0 .. i - 1
            /\ s[i].saved # 0 => BeingHidden(s[s[i].saved])
            /\ \A j \in 1 .. i - 1 : j > s[i].saved => ~ BeingHidden(s[j])
        BY <2>1, <4>1 DEF Nested
      <4>3. \A j \in 1 .. i - 1 : j \in 1 .. Len(s)
        BY <4>1
      <4> QED BY <2>2, <4>1, <4>2, <4>3
    <3>2. /\ hidden[t] \in 0 .. Len(r)
          /\ hidden[t] # 0 => BeingHidden(r[hidden[t]])
          /\ \A i \in 1 .. Len(r) : i > hidden[t] => ~ BeingHidden(r[i])
      BY <2>1, <2>2 DEF Nested
    <3> QED BY <3>1, <3>2 DEF Nested
  <2> QED BY <2>1, <2>2, <2>3 DEF r
<1> QED BY <1>4, <1>5 DEF Records

\* configure() does not touch the records in dispatch, and what it does to the
\* switches a marker relies on it does in the right order.
LEMMA SwitchKeeps ==
  ASSUME TypeOK, Records, Switches, Switch
  PROVE  TypeOK' /\ Records' /\ Switches'
<1> USE DEF TypeOK, Switches, switches, registry, logVars, configVars, Records
<1>a. None \notin Pipelines /\ Pipelines \subseteq Handlers
  BY ModesAssumption DEF Handlers
<1>b. "root" \in Loggers /\ "lib" \in Loggers
  BY DEF Loggers
<1>1. CASE ConfigureOff
  <2>1. /\ stack' \in [Threads -> Seq(Dispatch)] /\ hidden' \in [Threads -> Nat] /\ Records'
    BY <1>1, StirKeeps DEF ConfigureOff
  <2>2. marking' \in BOOLEAN /\ torn' \in BOOLEAN /\ armed' \in BOOLEAN
        /\ propagates' \in BOOLEAN /\ capture' \in BOOLEAN
    BY <1>1, Zenon DEF ConfigureOff
  <2>3. Switches'
    BY <1>1 DEF ConfigureOff
  <2>4. TypeOK'
    BY <1>1, <2>1, <2>2 DEF ConfigureOff
  <2> QED BY <2>1, <2>3, <2>4
<1>2. CASE Configure
  <2>1. /\ stack' \in [Threads -> Seq(Dispatch)] /\ hidden' \in [Threads -> Nat] /\ Records'
    BY <1>2, StirKeeps DEF Configure
  <2>2. capture' \in BOOLEAN
    <3>1. capture' \in BOOLEAN \/ capture' \in {FALSE}
      BY <1>2 DEF Configure
    <3> QED BY <3>1
  <2>3. Switches'
    BY <1>2 DEF Configure
  <2>4. TypeOK'
    BY <1>2, <2>1, <2>2 DEF Configure
  <2> QED BY <2>1, <2>3, <2>4
<1>3. CASE InstallHandler
  <2>1. fresh' \in Pipelines /\ fresh' # None /\ current' = fresh'
    BY <1>3, <1>a DEF InstallHandler
  <2>2. TypeOK'
    BY <1>3, <2>1 DEF InstallHandler
  <2>3. Records' /\ Switches'
    BY <1>3, <2>1 DEF InstallHandler
  <2> QED BY <2>2, <2>3
<1>4. CASE Detach
  <2>1. PICK i \in DOMAIN attached["root"] :
               attached' = [attached EXCEPT !["root"] = RemoveAt(attached["root"], i)]
    BY <1>4 DEF Detach
  <2>2. attached["root"] \in Seq(Handlers) /\ i \in 1 .. Len(attached["root"])
    BY <1>b, <2>1
  <2>3. RemoveAt(attached["root"], i) \in Seq(Handlers)
    BY <2>2 DEF RemoveAt
  <2>4. attached' \in [Loggers -> Seq(Handlers)]
    BY <2>1, <2>3
  <2> QED BY <1>4, <2>4 DEF Detach
<1>5. CASE AttachRoot
  <2>1. fresh \in Handlers
    BY <1>5, <1>a DEF AttachRoot
  <2>2. attached' \in [Loggers -> Seq(Handlers)]
    BY <1>5, <1>b, <2>1 DEF AttachRoot
  <2>3. TypeOK'
    BY <1>5, <2>2 DEF AttachRoot
  <2>4. Records' /\ Switches'
    BY <1>5 DEF AttachRoot
  <2> QED BY <2>3, <2>4
<1>6. CASE ArmRouting
  <2>1. armed' = TRUE /\ armed' \in BOOLEAN
    BY <1>6 DEF ArmRouting, Arm
  <2>2. TypeOK'
    BY <1>6, <2>1 DEF ArmRouting
  <2>3. Records' /\ Switches'
    BY <1>6, <2>1 DEF ArmRouting
  <2> QED BY <2>2, <2>3
<1>7. CASE CaptureHandler
  <2>1. attached["lib"] \in Seq(Handlers) /\ attached["lib"] # <<>>
    BY <1>7, <1>b DEF CaptureHandler
  <2>2. Tail(attached["lib"]) \in Seq(Handlers)
    BY <2>1
  <2>3. attached' \in [Loggers -> Seq(Handlers)]
    BY <1>7, <2>2 DEF CaptureHandler
  <2> QED BY <1>7, <2>3 DEF CaptureHandler
<1>8. CASE CapturePropagate
  <2>1. propagates' \in BOOLEAN
    BY <1>8 DEF CapturePropagate
  <2>2. TypeOK'
    BY <1>8, <2>1 DEF CapturePropagate
  <2>3. Records' /\ Switches'
    BY <1>8 DEF CapturePropagate
  <2> QED BY <2>2, <2>3
<1>9. CASE CaptureRaises
  <2>1. torn' \in BOOLEAN
    BY <1>9 DEF CaptureRaises
  <2>2. TypeOK'
    BY <1>9, <2>1 DEF CaptureRaises
  <2>3. Records' /\ Switches'
    BY <1>9 DEF CaptureRaises
  <2> QED BY <2>2, <2>3
<1>10. CASE Finish
  <2>1. marking' \in BOOLEAN /\ torn' \in BOOLEAN
    BY <1>10, Zenon DEF Finish
  <2>2. TypeOK'
    BY <1>10, <2>1 DEF Finish
  <2>3. Records' /\ Switches'
    BY <1>10 DEF Finish
  <2> QED BY <2>2, <2>3
<1> QED
  BY <1>1, <1>2, <1>3, <1>4, <1>5, <1>6, <1>7, <1>8, <1>9, <1>10 DEF Switch

-----------------------------------------------------------------------------
(* The invariant, and what follows from it.                                *)

LEMMA InitHolds == Init => TypeOK /\ Records /\ Switches
<1> SUFFICES ASSUME Init PROVE TypeOK /\ Records /\ Switches
  OBVIOUS
<1>1. attached \in [Loggers -> Seq(Handlers)]
  <2>1. Streams \cup Observers \subseteq Handlers
    BY DEF Handlers
  <2>2. RootHas \in Seq(Handlers) /\ LibHas \in Seq(Handlers)
    BY <2>1, ModesAssumption, SeqMonotonic
  <2> QED BY <2>2 DEF Init
<1>2. /\ marking = FALSE /\ armed = FALSE /\ propagates = FALSE /\ capture = FALSE
      /\ torn = FALSE
  BY DEF Init
<1>3. /\ marking \in BOOLEAN /\ armed \in BOOLEAN /\ propagates \in BOOLEAN
      /\ capture \in BOOLEAN /\ torn \in BOOLEAN
  BY <1>2, Zenon
<1>4. \A t \in Threads : stack[t] = <<>> /\ hidden[t] = 0
  BY DEF Init
<1>5. stack \in [Threads -> Seq(Dispatch)]
  <2>1. <<>> \in Seq(Dispatch)
    OBVIOUS
  <2> QED BY <2>1 DEF Init
<1>6. TypeOK
  BY <1>1, <1>3, <1>5, ModesAssumption DEF Init, TypeOK
<1>7. Records
  BY <1>4 DEF Records, Nested
<1>8. Switches
  BY <1>2 DEF Init, Switches
<1> QED BY <1>6, <1>7, <1>8

LEMMA LogKeeps ==
  ASSUME TypeOK, Records, Switches, NEW t \in Threads, Log(t)
  PROVE  TypeOK' /\ Records' /\ Switches'
<1>1. Records' /\ stack' \in [Threads -> Seq(Dispatch)] /\ hidden' \in [Threads -> Nat]
  <2>1. CASE Return(t) \/ Raise(t)
    BY <2>1, LeaveKeeps DEF Return, Raise, Tops
  <2> QED BY <2>1, CallKeeps, RouteKeeps, DeliverKeeps, HideKeeps, HandleKeeps, AscendKeeps,
             DeliverRaisesKeeps DEF Log
<1>2. issued' \in [Threads -> Nat]
  <2>1. CASE Call(t)
    BY <2>1 DEF Call, TypeOK
  <2>2. CASE ~ Call(t)
    <3>1. issued' = issued
      BY <2>2 DEF Log, Route, Deliver, Hide, Handle, Ascend, Return, Raise, Leave,
                   DeliverRaises
    <3> QED BY <3>1 DEF TypeOK
  <2> QED BY <2>1, <2>2
<1>3. UNCHANGED <<switches, registry, configVars>>
  BY DEF Log, Call, Route, Deliver, Hide, Handle, Ascend, Return, Raise, Leave,
         DeliverRaises
<1>4. TypeOK'
  BY <1>1, <1>2, <1>3 DEF TypeOK, switches, registry, configVars
<1>5. Switches'
  BY <1>3 DEF Switches, switches, configVars
<1> QED BY <1>1, <1>4, <1>5

LEMMA NextKeeps ==
  ASSUME TypeOK, Records, Switches, [Next]_vars
  PROVE  TypeOK' /\ Records' /\ Switches'
<1>1. CASE UNCHANGED vars
  BY <1>1 DEF vars, switches, registry, logVars, configVars, TypeOK, Records, Switches
<1> QED BY <1>1, SwitchKeeps, LogKeeps DEF Next, Finished

\* Any records, in any threads and however nested, through any calls of
\* configure(): they keep to the types and to the invariant above.
THEOREM Invariant == Spec => [](TypeOK /\ Records /\ Switches)
<1>1. Init => TypeOK /\ Records /\ Switches
  BY InitHolds
<1>2. (TypeOK /\ Records /\ Switches) /\ [Next]_vars => (TypeOK /\ Records /\ Switches)'
  BY NextKeeps
<1> QED BY <1>1, <1>2, PTL DEF Spec

\* The types of the variables, for any handlers and threads.
THEOREM TypeCorrect == Spec => []TypeOK
BY Invariant, PTL

\* LM-002: no handler ever sees the marker, whatever configure() is doing.
THEOREM MarkerNeverSeen == Spec => []MarkerGone
<1>1. TypeOK /\ Records => MarkerGone
  <2> SUFFICES ASSUME TypeOK, Records, NEW t \in Threads, NEW i \in DOMAIN stack[t]
               PROVE  stack[t][i].at \notin {"route"} => ~ stack[t][i].marker
    BY DEF MarkerGone
  <2>1. i \in 1 .. Len(stack[t])
    BY DEF TypeOK
  <2> QED BY <2>1 DEF Records, Sound
<1> QED BY <1>1, Invariant, PTL

\* What a thread hides is the innermost record that went to JSON directly, to
\* any depth of records logged in the middle of others.
THEOREM InnermostHidden == Spec => []HiddenInnermost
<1>1. TypeOK /\ Records => HiddenInnermost
  <2> SUFFICES ASSUME TypeOK, Records, NEW t \in Threads
               PROVE  /\ hidden[t] # 0 => /\ hidden[t] \in DOMAIN stack[t]
                                          /\ BeingHidden(stack[t][hidden[t]])
                      /\ \A i \in DOMAIN stack[t] : i > hidden[t] => ~ BeingHidden(stack[t][i])
    BY DEF HiddenInnermost
  <2>1. stack[t] \in Seq(Dispatch) /\ DOMAIN stack[t] = 1 .. Len(stack[t])
    BY DEF TypeOK
  <2> QED BY <2>1 DEF Records, Nested
<1> QED BY <1>1, Invariant, PTL

\* LM-003: no StreamHandler renders a record that went to JSON directly.
THEOREM NeverShownTwice == Spec => []MarkedHidden
<1>1. TypeOK /\ Records => MarkedHidden
  <2> SUFFICES ASSUME TypeOK, Records, NEW t \in Threads, NEW i \in DOMAIN stack[t],
                      Routed(stack[t][i]), NEW h \in Rendering \ {stack[t][i].via}
               PROVE  stack[t][i].got[h] = 0
    BY DEF MarkedHidden
  <2>1. i \in 1 .. Len(stack[t])
    BY DEF TypeOK
  <2> QED BY <2>1 DEF Records, Sound, Routed
<1> QED BY <1>1, Invariant, PTL

-----------------------------------------------------------------------------
(* Where a record goes.  The lists of handlers, the switches and the       *)
(* records in dispatch are parameters of the following, so that a step of  *)
(* a thread and a step of configure() can each be looked at by itself.     *)

Foreign == Streams \cup Observers
Distinct(s) == \A i, j \in 1 .. Len(s) : s[i] = s[j] => i = j
Has(s, H) == \A i \in 1 .. Len(s) : s[i] \in H

\* No handler is in a list twice, root is the application's or has one pipeline alone,
\* a captured logger is empty, and what it passes on to is semlog's.
Orderly(a, p) ==
  /\ Distinct(a["root"]) /\ Distinct(a["lib"])
  /\ Has(a["lib"], Foreign)
  /\ \/ Has(a["root"], Foreign)
     \/ Len(a["root"]) = 1 /\ Has(a["root"], Pipelines)
  /\ p => Has(a["root"], Pipelines) /\ a["lib"] = <<>>

Lists ==
  /\ Orderly(attached, propagates)
  /\ cpc = "idle" => Has(attached["root"], Foreign) \/ attached["root"] = <<current>>
  /\ cpc = "capture" => Has(attached["root"], Pipelines)
  /\ cpc \in {"detach", "capture", "finish"} => fresh = current
  /\ cpc \in {"capture", "finish"} /\ target = "full" => attached["root"] = <<current>>
  /\ cpc = "finish" /\ target = "hybrid" => Has(attached["root"], Foreign)

\* What configure() leaves behind when it returns.
Quiet == cpc = "idle" /\ ~ torn
Settled ==
  Quiet =>
    /\ mode = "hybrid" => /\ marking /\ armed /\ current # None
                          /\ Has(attached["root"], Foreign)
    /\ mode # "hybrid" => ~ marking
    /\ mode = "full" /\ current # None => attached["root"] = <<current>>

\* A record that is not routed, on its way along the lists of a: no handler ahead
\* of it has had it, and at most one pipeline.
OnItsWay(d, a) ==
  d.via = None =>
    /\ \A h \in Handlers : d.got[h] <= 1
    /\ d.at # "done" => d.got[LastResort] = 0
    /\ NoLine(d) \/ OneLine(d)
    /\ d.on = "lib" \/ d.pos = 1 => NoLine(d)
    /\ \A i \in 1 .. Len(a[d.on]) : i >= d.pos => d.got[a[d.on][i]] = 0

\* Has handler h had record d, of which no configure() has been in the way?
Served(d, h, a) ==
  \/ h = d.via /\ d.at # "deliver"
  \/ /\ \E i \in 1 .. d.pos - 1 : i <= Len(a[d.on]) /\ a[d.on][i] = h
     /\ ~ (d.via # None /\ h \in Rendering)
  \/ d.at = "done" /\ h = LastResort /\ d.pos = 1 /\ d.via = None

\* What such a record has been through, as far as it has come.
Undisturbed(d, a, p, m, c) ==
  /\ d.via = IF d.at # "route" /\ m /\ d.semlog THEN c ELSE None
  /\ d.at = "route" => (d.marker <=> m /\ d.semlog)
  /\ d.at \in {"route", "deliver", "hide"} => d.on = d.logger /\ d.pos = 1
  /\ d.on # d.logger => d.on = "root" /\ p
  /\ d.pos \in 1 .. Len(a[d.on]) + 1
  /\ d.found <=> d.pos > 1
  /\ d.at = "done" => d.pos > Len(a[d.on]) /\ (d.on = "lib" => ~ p)
  /\ \A h \in Handlers : d.got[h] = IF Served(d, h, a) THEN 1 ELSE 0

Good(d, a, p, m, c, q) ==
  /\ d.pos >= 1
  /\ OnItsWay(d, a)
  /\ d.calm => q /\ Undisturbed(d, a, p, m, c)

Dispatches ==
  \A t \in Threads : \A i \in 1 .. Len(stack[t]) :
    Good(stack[t][i], attached, propagates, marking, current, Quiet)

-----------------------------------------------------------------------------
(* Steps of a thread, as changes of the record on top.                     *)

LEMMA Apart ==
  /\ Foreign \cap Pipelines = {} /\ LastResort \notin Foreign \cup Pipelines
  /\ None \notin Handlers /\ LastResort \in Rendering
  /\ Foreign \subseteq Handlers /\ Pipelines \subseteq Handlers /\ Rendering \subseteq Handlers
  /\ LastResort \in Handlers
<1> DEFINE kinds == <<Streams, Observers, Queued, Direct, {LastResort}>>
<1>1. kinds[1] = Streams /\ kinds[2] = Observers /\ kinds[3] = Queued /\ kinds[4] = Direct
      /\ kinds[5] = {LastResort}
  OBVIOUS
<1>2. \A i, j \in 1 .. 5 : i # j => kinds[i] \cap kinds[j] = {}
  BY ModesAssumption
<1> HIDE DEF kinds
<1>3. /\ Streams \cap Queued = {} /\ Streams \cap Direct = {}
      /\ Observers \cap Queued = {} /\ Observers \cap Direct = {}
  BY <1>1, <1>2
<1>4. /\ Streams \cap {LastResort} = {} /\ Observers \cap {LastResort} = {}
      /\ Queued \cap {LastResort} = {} /\ Direct \cap {LastResort} = {}
  BY <1>1, <1>2
<1> QED BY <1>3, <1>4, ModesAssumption DEF Foreign, Pipelines, Handlers, Rendering

\* What a step that only moves the record leaves alone.
SameRecord(e, d) == e.semlog = d.semlog /\ e.logger = d.logger /\ e.calm = d.calm

LEMMA RouteGood ==
  ASSUME NEW a, NEW p \in BOOLEAN, NEW m \in BOOLEAN, NEW c \in Pipelines \cup {None},
         NEW q \in BOOLEAN,
         NEW d \in Dispatch, NEW e \in Dispatch, Good(d, a, p, m, c, q), Sound(d),
         d.at = "route", SameRecord(e, d), e.on = d.on, e.pos = d.pos, e.got = d.got,
         e.found = d.found,
         e.at = IF d.marker THEN "deliver" ELSE "walk",
         e.via = IF d.marker THEN c ELSE None
  PROVE  Good(e, a, p, m, c, q)
<1>1. d.via = None /\ (\A h \in Handlers : d.got[h] = 0) /\ None \notin Handlers
  BY Apart DEF Sound, Nobody
<1>2. OnItsWay(e, a)
  BY DEF Good, OnItsWay, Sound, NoLine, OneLine
<1>3. ASSUME d.calm PROVE Undisturbed(e, a, p, m, c)
  <2>1. Undisturbed(d, a, p, m, c)
    BY <1>3 DEF Good
  <2>2. \A h \in Handlers : e.got[h] = IF Served(e, h, a) THEN 1 ELSE 0
    <3> SUFFICES ASSUME NEW h \in Handlers PROVE ~ Served(e, h, a)
      BY <1>1
    <3> QED BY <1>1, <2>1 DEF Undisturbed, Served
  <2> QED BY <2>1, <2>2 DEF Undisturbed, SameRecord
<1> QED BY <1>2, <1>3 DEF Good, SameRecord

LEMMA DeliverGood ==
  ASSUME NEW a, NEW p \in BOOLEAN, NEW m \in BOOLEAN, NEW c \in Pipelines \cup {None},
         NEW q \in BOOLEAN,
         NEW d \in Dispatch, NEW e \in Dispatch, Good(d, a, p, m, c, q), Sound(d),
         d.at = "deliver", SameRecord(e, d), e.on = d.on, e.pos = d.pos, e.found = d.found,
         e.at = "hide", e.via = d.via,
         e.got[d.via] = d.got[d.via] + 1,
         \A h \in Handlers : h # d.via => e.got[h] = d.got[h]
  PROVE  Good(e, a, p, m, c, q)
<1>1. d.via # None /\ d.via \in Handlers
  BY Apart DEF Sound, Dispatch
<1>2. OnItsWay(e, a)
  BY <1>1 DEF OnItsWay
<1>3. ASSUME d.calm PROVE Undisturbed(e, a, p, m, c)
  <2>1. Undisturbed(d, a, p, m, c)
    BY <1>3 DEF Good
  <2>2. ASSUME NEW h \in Handlers
        PROVE  e.got[h] = IF Served(e, h, a) THEN 1 ELSE 0
    <3>1. d.pos = 1 /\ ~ Served(d, h, a)
      BY <2>1 DEF Undisturbed, Served
    <3>2. d.got[h] = 0
      BY <2>1, <3>1 DEF Undisturbed
    <3>3. Served(e, h, a) <=> h = d.via
      BY <3>1 DEF Served
    <3> QED BY <3>2, <3>3
  <2> QED BY <2>1, <2>2 DEF Undisturbed, SameRecord
<1> QED BY <1>2, <1>3 DEF Good, SameRecord

LEMMA HideGood ==
  ASSUME NEW a, NEW p \in BOOLEAN, NEW m \in BOOLEAN, NEW c \in Pipelines \cup {None},
         NEW q \in BOOLEAN,
         NEW d \in Dispatch, NEW e \in Dispatch, Good(d, a, p, m, c, q), Sound(d),
         d.at = "hide", SameRecord(e, d), e.on = d.on, e.pos = d.pos, e.found = d.found,
         e.at = "walk", e.via = d.via, e.got = d.got
  PROVE  Good(e, a, p, m, c, q)
<1>1. d.via # None
  BY DEF Sound
<1>2. OnItsWay(e, a)
  BY <1>1 DEF OnItsWay
<1>3. ASSUME d.calm PROVE Undisturbed(e, a, p, m, c)
  <2>1. Undisturbed(d, a, p, m, c)
    BY <1>3 DEF Good
  <2>2. \A h \in Handlers : Served(e, h, a) <=> Served(d, h, a)
    BY DEF Served
  <2> QED BY <2>1, <2>2 DEF Undisturbed, SameRecord
<1> QED BY <1>2, <1>3 DEF Good, SameRecord

\* One pipeline more, or another handler.
LEMMA Line ==
  ASSUME NEW d \in Dispatch, NEW e \in Dispatch, NEW h \in Handlers,
         d.got[h] = 0, e.got[h] = 1, \A g \in Handlers : g # h => e.got[g] = d.got[g]
  PROVE  /\ h \notin Pipelines => (NoLine(e) <=> NoLine(d)) /\ (OneLine(e) <=> OneLine(d))
         /\ h \in Pipelines /\ NoLine(d) => OneLine(e)
<1>1. Pipelines \subseteq Handlers
  BY Apart
<1>2. ASSUME h \notin Pipelines PROVE \A g \in Pipelines : e.got[g] = d.got[g]
  BY <1>1, <1>2
<1>3. ASSUME h \in Pipelines, NoLine(d) PROVE OneLine(e)
  <2>1. e.got[h] = 1 /\ \A g \in Pipelines \ {h} : e.got[g] = 0
    BY <1>1, <1>3 DEF NoLine
  <2> QED BY <1>3, <2>1 DEF OneLine
<1>4. ASSUME h \notin Pipelines
      PROVE  (NoLine(e) <=> NoLine(d)) /\ (OneLine(e) <=> OneLine(d))
  BY <1>2, <1>4 DEF NoLine, OneLine
<1> QED BY <1>3, <1>4

\* The next handler has the record, unless it is concealed from it.
Handed(e, d, h) ==
  /\ SameRecord(e, d) /\ e.on = d.on /\ e.at = "walk" /\ e.via = d.via
  /\ e.pos = d.pos + 1 /\ e.found
  /\ IF d.via # None /\ h \in Rendering THEN e.got = d.got
     ELSE e.got[h] = d.got[h] + 1 /\ \A g \in Handlers : g # h => e.got[g] = d.got[g]

LEMMA HandleGood ==
  ASSUME NEW a \in [Loggers -> Seq(Handlers)], NEW p \in BOOLEAN, NEW m \in BOOLEAN,
         NEW c \in Pipelines \cup {None}, NEW q \in BOOLEAN, Orderly(a, p),
         m /\ q => Has(a["root"], Foreign),
         NEW d \in Dispatch, NEW e \in Dispatch, Good(d, a, p, m, c, q), Sound(d),
         d.at = "walk", d.pos <= Len(a[d.on]),
         NEW h, h = a[d.on][d.pos], Handed(e, d, h)
  PROVE  Good(e, a, p, m, c, q)
<1> USE DEF Handed
<1> DEFINE s == a[d.on]
<1>1. s \in Seq(Handlers) /\ Len(s) \in Nat /\ Distinct(s) /\ d.on \in {"lib", "root"}
      /\ d.pos \in Nat /\ d.got \in [Handlers -> Nat] /\ e.got \in [Handlers -> Nat]
  BY DEF Orderly, Dispatch, Loggers
<1>2. Good(d, a, p, m, c, q) /\ (d.calm => Undisturbed(d, a, p, m, c)) /\ OnItsWay(d, a)
  BY DEF Good
<1>3. ASSUME d.via = None PROVE OnItsWay(e, a)
  <2>1. /\ \A g \in Handlers : d.got[g] <= 1
        /\ d.got[LastResort] = 0 /\ (NoLine(d) \/ OneLine(d))
        /\ d.on = "lib" \/ d.pos = 1 => NoLine(d)
        /\ d.pos >= 1
        /\ \A i \in 1 .. Len(s) : i >= d.pos => d.got[s[i]] = 0
    BY <1>2, <1>3 DEF OnItsWay, Good
  <2>2. h \in Handlers /\ d.got[h] = 0 /\ h \in Foreign \cup Pipelines /\ h # LastResort
    <3>1. d.pos \in 1 .. Len(s) /\ h = s[d.pos]
      BY <1>1, <2>1
    <3>2. h \in Foreign \cup Pipelines
      BY <1>1, <3>1 DEF Orderly, Has
    <3>3. h \in Handlers /\ d.got[h] = 0
      BY <1>1, <2>1, <3>1
    <3>4. h # LastResort
      BY <3>2, Apart
    <3> QED BY <3>2, <3>3, <3>4
  <2>3. e.got[h] = 1 /\ \A g \in Handlers : g # h => e.got[g] = d.got[g]
    BY <1>1, <1>3, <2>2
  <2>4. ASSUME NEW i \in 1 .. Len(s), i >= e.pos
        PROVE  e.got[s[i]] = 0
    <3>1. i # d.pos /\ i >= d.pos /\ d.pos \in 1 .. Len(s) /\ i \in Nat
      BY <1>1, <2>1, <2>4
    <3>2. s[i] # h /\ s[i] \in Handlers
      BY <1>1, <3>1 DEF Distinct
    <3> QED BY <2>1, <2>3, <3>1, <3>2
  <2>5. h \in Pipelines => d.on = "root" /\ NoLine(d)
    <3> SUFFICES ASSUME h \in Pipelines PROVE d.on = "root" /\ d.pos = 1
      BY <2>1
    <3>1. d.pos \in 1 .. Len(s) /\ h = s[d.pos] /\ h \notin Foreign
      BY <1>1, <2>1, Apart
    <3>2. ~ Has(s, Foreign)
      BY <3>1 DEF Has
    <3>3. d.on = "root" /\ Len(s) = 1
      BY <1>1, <3>2 DEF Orderly
    <3> QED BY <3>1, <3>3
  <2>6. /\ h \notin Pipelines => (NoLine(e) <=> NoLine(d)) /\ (OneLine(e) <=> OneLine(d))
        /\ h \in Pipelines /\ NoLine(d) => OneLine(e)
    BY <2>2, <2>3, Line
  <2>7. (NoLine(e) \/ OneLine(e)) /\ (e.on = "lib" \/ e.pos = 1 => NoLine(e))
    <3>1. e.pos # 1
      BY <1>1, <2>1
    <3> QED BY <2>1, <2>5, <2>6, <3>1
  <2>8. \A g \in Handlers : e.got[g] <= 1
    <3> SUFFICES ASSUME NEW g \in Handlers PROVE e.got[g] <= 1
      OBVIOUS
    <3>1. CASE g = h
      BY <2>3, <3>1
    <3>2. CASE g # h
      BY <2>1, <2>3, <3>2
    <3> QED BY <3>1, <3>2
  <2>9. e.got[LastResort] = 0 /\ e.pos >= 1
    BY <1>1, <2>1, <2>2, <2>3, Apart
  <2>10. \A i \in 1 .. Len(a[e.on]) : i >= e.pos => e.got[a[e.on][i]] = 0
    BY <2>4
  <2> QED BY <2>7, <2>8, <2>9, <2>10 DEF OnItsWay
<1>4. OnItsWay(e, a)
  BY <1>3 DEF OnItsWay
<1>5. ASSUME d.calm PROVE Undisturbed(e, a, p, m, c)
  <2>1. Undisturbed(d, a, p, m, c) /\ q
    BY <1>5 DEF Good
  <2>2. d.pos \in 1 .. Len(s) /\ h = s[d.pos] /\ h \in Handlers
    BY <1>1, <2>1 DEF Undisturbed
  <2>3. h # d.via
    <3>1. CASE d.via = None
      BY <2>2, <3>1, Apart
    <3>2. CASE d.via # None
      <4>1. m /\ d.via \in Pipelines
        BY <2>1, <3>2 DEF Undisturbed, Dispatch
      <4>2. Has(s, Foreign)
        BY <1>1, <2>1, <4>1 DEF Orderly
      <4>3. h \in Foreign
        BY <2>2, <4>2 DEF Has
      <4> QED BY <4>1, <4>3, Apart
    <3> QED BY <3>1, <3>2
  <2>4. ASSUME NEW g \in Handlers
        PROVE  e.got[g] = IF Served(e, g, a) THEN 1 ELSE 0
    <3>1. d.got[g] = IF Served(d, g, a) THEN 1 ELSE 0
      BY <2>1 DEF Undisturbed
    <3>2. CASE g = h
      <4>1. ASSUME NEW i \in 1 .. d.pos - 1, i <= Len(s) PROVE s[i] # h
        <5>1. i \in 1 .. Len(s) /\ i # d.pos
          BY <1>1, <2>2, <4>1
        <5> QED BY <1>1, <2>2, <5>1 DEF Distinct
      <4>2. ~ Served(d, g, a)
        BY <2>3, <3>2, <4>1 DEF Served
      <4>3. Served(e, g, a) <=> ~ (d.via # None /\ h \in Rendering)
        <5>1. d.pos \in 1 .. e.pos - 1 /\ d.pos <= Len(s) /\ s[d.pos] = g
          BY <1>1, <2>2, <3>2
        <5> QED BY <2>3, <3>2, <5>1 DEF Served
      <4> QED BY <3>1, <3>2, <4>2, <4>3
    <3>3. CASE g # h
      <4>1. e.got[g] = d.got[g]
        BY <3>3
      <4>2. \A i \in 1 .. e.pos - 1 : i \in 1 .. d.pos - 1 \/ i = d.pos
        BY <1>1
      <4>3. \A i \in 1 .. d.pos - 1 : i \in 1 .. e.pos - 1
        BY <1>1
      <4>4. Served(e, g, a) <=> Served(d, g, a)
        BY <2>2, <3>3, <4>2, <4>3 DEF Served
      <4> QED BY <3>1, <4>1, <4>4
    <3> QED BY <3>2, <3>3
  <2>5. e.pos \in 1 .. Len(a[e.on]) + 1 /\ e.pos > 1
    BY <1>1, <2>2
  <2>6. /\ e.via = IF e.at # "route" /\ m /\ e.semlog THEN c ELSE None
        /\ e.on # e.logger => e.on = "root" /\ p
    BY <2>1 DEF Undisturbed, SameRecord
  <2> QED BY <2>4, <2>5, <2>6 DEF Undisturbed
<1>6. e.pos >= 1
  BY <1>1, <1>2 DEF Good
<1> QED BY <1>2, <1>4, <1>5, <1>6 DEF Good, SameRecord

LEMMA AscendGood ==
  ASSUME NEW a \in [Loggers -> Seq(Handlers)], NEW p \in BOOLEAN, NEW m \in BOOLEAN,
         NEW c \in Pipelines \cup {None}, NEW q \in BOOLEAN, Orderly(a, p),
         NEW d \in Dispatch, NEW e \in Dispatch, Good(d, a, p, m, c, q),
         d.at = "walk", d.on = "lib", p,
         SameRecord(e, d), e.on = "root", e.at = "walk", e.via = d.via,
         e.pos = 1, e.found = d.found, e.got = d.got
  PROVE  Good(e, a, p, m, c, q)
<1>1. a["lib"] = <<>> /\ Has(a["root"], Pipelines) /\ a["root"] \in Seq(Handlers)
  BY DEF Orderly, Loggers
<1>2. OnItsWay(e, a)
  <2> SUFFICES ASSUME d.via = None PROVE OnItsWay(e, a)
    BY DEF OnItsWay
  <2>1. /\ \A g \in Handlers : d.got[g] <= 1
        /\ d.got[LastResort] = 0 /\ NoLine(d)
    BY DEF OnItsWay, Good
  <2>2. \A i \in 1 .. Len(a["root"]) : d.got[a["root"][i]] = 0
    BY <1>1, <2>1 DEF NoLine, Has
  <2> QED BY <2>1, <2>2 DEF OnItsWay, NoLine
<1>3. ASSUME d.calm PROVE Undisturbed(e, a, p, m, c)
  <2>1. Undisturbed(d, a, p, m, c)
    BY <1>3 DEF Good
  <2>2. d.pos = 1 /\ ~ d.found /\ d.on = "lib"
    BY <1>1, <2>1 DEF Undisturbed
  <2>3. \A h \in Handlers : Served(e, h, a) <=> Served(d, h, a)
    BY <2>2 DEF Served
  <2>4. /\ e.via = IF e.at # "route" /\ m /\ e.semlog THEN c ELSE None
        /\ e.on = "root" /\ p /\ e.pos = 1 /\ 1 \in 1 .. Len(a["root"]) + 1
        /\ ~ e.found /\ ~ (e.pos > 1)
    BY <1>1, <2>1, <2>2 DEF Undisturbed, SameRecord
  <2>5. \A h \in Handlers : e.got[h] = IF Served(e, h, a) THEN 1 ELSE 0
    BY <2>1, <2>3 DEF Undisturbed
  <2> QED BY <2>4, <2>5 DEF Undisturbed
<1>4. e.pos >= 1
  OBVIOUS
<1> QED BY <1>2, <1>3, <1>4 DEF Good, SameRecord

\* At the end lastResort has a record that met no handler.
LEMMA EndGood ==
  ASSUME NEW a \in [Loggers -> Seq(Handlers)], NEW p \in BOOLEAN, NEW m \in BOOLEAN,
         NEW c \in Pipelines \cup {None}, NEW q \in BOOLEAN, Orderly(a, p),
         NEW d \in Dispatch, NEW e \in Dispatch, Good(d, a, p, m, c, q),
         d.at = "walk", d.pos > Len(a[d.on]), ~ (d.on = "lib" /\ p),
         SameRecord(e, d), e.on = d.on, e.at = "done", e.via = d.via,
         e.pos = d.pos, e.found = d.found,
         IF d.found \/ d.via # None THEN e.got = d.got
         ELSE /\ e.got[LastResort] = d.got[LastResort] + 1
              /\ \A g \in Handlers : g # LastResort => e.got[g] = d.got[g]
  PROVE  Good(e, a, p, m, c, q)
<1>1. /\ d.got \in [Handlers -> Nat] /\ e.got \in [Handlers -> Nat] /\ d.pos \in Nat
      /\ Len(a[d.on]) \in Nat
  BY DEF Dispatch
<1>2. OnItsWay(e, a)
  <2> SUFFICES ASSUME d.via = None PROVE OnItsWay(e, a)
    BY DEF OnItsWay
  <2>1. /\ \A g \in Handlers : d.got[g] <= 1
        /\ d.got[LastResort] = 0 /\ (NoLine(d) \/ OneLine(d))
        /\ d.on = "lib" \/ d.pos = 1 => NoLine(d)
        /\ d.pos >= 1
    BY DEF OnItsWay, Good
  <2>2. \A g \in Pipelines : e.got[g] = d.got[g]
    BY Apart
  <2>3. (NoLine(e) <=> NoLine(d)) /\ (OneLine(e) <=> OneLine(d))
    BY <2>2 DEF NoLine, OneLine
  <2>4. \A g \in Handlers : e.got[g] <= 1
    <3> SUFFICES ASSUME NEW g \in Handlers PROVE e.got[g] <= 1
      OBVIOUS
    <3>1. CASE d.found
      BY <2>1, <3>1
    <3>2. CASE ~ d.found
      <4>1. /\ e.got[LastResort] = d.got[LastResort] + 1
            /\ \A k \in Handlers : k # LastResort => e.got[k] = d.got[k]
        BY <3>2
      <4>2. CASE g = LastResort
        BY <2>1, <4>1, <4>2
      <4>3. CASE g # LastResort
        BY <2>1, <4>1, <4>3
      <4> QED BY <4>2, <4>3
    <3> QED BY <3>1, <3>2
  <2>5. \A i \in 1 .. Len(a[e.on]) : ~ (i >= e.pos)
    BY <1>1
  <2> QED BY <2>1, <2>3, <2>4, <2>5 DEF OnItsWay
<1>3. ASSUME d.calm PROVE Undisturbed(e, a, p, m, c)
  <2>1. Undisturbed(d, a, p, m, c)
    BY <1>3 DEF Good
  <2>2. ASSUME NEW h \in Handlers
        PROVE  e.got[h] = IF Served(e, h, a) THEN 1 ELSE 0
    <3>1. d.got[h] = IF Served(d, h, a) THEN 1 ELSE 0
      BY <2>1 DEF Undisturbed
    <3>2. CASE h = LastResort /\ d.pos = 1 /\ d.via = None
      <4>1. ~ Served(d, h, a)
        BY <3>2, Apart DEF Served
      <4>2. Served(e, h, a) /\ ~ d.found
        BY <2>1, <3>2 DEF Served, Undisturbed
      <4> QED BY <3>1, <3>2, <4>1, <4>2
    <3>3. CASE ~ (h = LastResort /\ d.pos = 1 /\ d.via = None)
      <4>1. Served(e, h, a) <=> Served(d, h, a)
        BY <3>3 DEF Served
      <4>2. e.got[h] = d.got[h]
        <5>1. d.pos = 1 \/ d.found
          BY <1>1, <2>1 DEF Undisturbed
        <5> QED BY <3>3, <5>1
      <4> QED BY <3>1, <4>1, <4>2
    <3> QED BY <3>2, <3>3
  <2> QED BY <2>1, <2>2 DEF Undisturbed, SameRecord
<1>4. e.pos >= 1
  BY DEF Good
<1> QED BY <1>2, <1>3, <1>4 DEF Good, SameRecord

-----------------------------------------------------------------------------
(* Steps of a thread.                                                      *)

Here(d) == Good(d, attached, propagates, marking, current, Quiet)

LEMMA SameHere ==
  ASSUME UNCHANGED <<switches, registry, configVars>>, NEW s,
         \A i \in 1 .. Len(s) : Here(s[i])
  PROVE  \A i \in 1 .. Len(s) :
           Good(s[i], attached', propagates', marking', current', Quiet')
<1>1. attached' = attached /\ propagates' = propagates /\ marking' = marking
      /\ current' = current
  BY DEF switches, registry
<1>2. Quiet' = Quiet
  BY DEF Quiet, configVars
<1> QED BY <1>1, <1>2 DEF Here

LEMMA ThreadGood ==
  ASSUME TypeOK, Dispatches, NEW t \in Threads, NEW s \in Seq(Dispatch),
         stack' = [stack EXCEPT ![t] = s], UNCHANGED <<switches, registry, configVars>>,
         \A i \in 1 .. Len(s) : Here(s[i])
  PROVE  Dispatches'
<1>1. ASSUME NEW u \in Threads
      PROVE  \A i \in 1 .. Len(stack'[u]) :
               Good(stack'[u][i], attached', propagates', marking', current', Quiet')
  <2> DEFINE r == stack'[u]
  <2>1. \A i \in 1 .. Len(r) : Here(r[i])
    <3>1. CASE u = t
      BY <3>1 DEF TypeOK
    <3>2. CASE u # t
      BY <3>2 DEF TypeOK, Dispatches, Here
    <3> QED BY <3>1, <3>2
  <2> HIDE DEF r
  <2>2. \A i \in 1 .. Len(r) : Good(r[i], attached', propagates', marking', current', Quiet')
    BY <2>1, SameHere
  <2> QED BY <2>2 DEF r
<1> QED BY <1>1 DEF Dispatches

\* A record that is new has been nowhere.
LEMMA NewGood ==
  ASSUME TypeOK, NEW semlog \in BOOLEAN, NEW l \in Loggers
  PROVE  Here(NewDispatch(semlog, l))
<1> DEFINE d == NewDispatch(semlog, l)
<1>1. /\ d.at = "route" /\ d.via = None /\ d.logger = l /\ d.on = l /\ d.pos = 1
      /\ d.semlog = semlog /\ d.got = Nobody
  BY DEF NewDispatch
<1>2. (d.marker <=> semlog /\ marking) /\ ~ d.found /\ (d.calm <=> Quiet)
  BY Zenon DEF NewDispatch, Quiet
<1>3. \A h \in Handlers : d.got[h] = 0 /\ h # None
  BY <1>1, Apart DEF Nobody
<1>4. attached \in [Loggers -> Seq(Handlers)]
  BY DEF TypeOK
<1>5. \A i \in 1 .. Len(attached[l]) : attached[l][i] \in Handlers
  BY <1>4
<1> HIDE DEF d
<1>6. OnItsWay(d, attached)
  BY <1>1, <1>3, <1>5, Apart DEF OnItsWay, NoLine
<1>7. Undisturbed(d, attached, propagates, marking, current)
  <2>1. \A h \in Handlers : ~ Served(d, h, attached)
    BY <1>1, <1>3 DEF Served
  <2>2. Len(attached[l]) \in Nat /\ 1 \in 1 .. Len(attached[l]) + 1
    BY <1>4
  <2>3. d.marker <=> marking /\ d.semlog
    BY <1>1, <1>2
  <2>4. d.found <=> d.pos > 1
    BY <1>1, <1>2
  <2>5. \A h \in Handlers : d.got[h] = IF Served(d, h, attached) THEN 1 ELSE 0
    BY <1>3, <2>1
  <2> QED BY <1>1, <2>2, <2>3, <2>4, <2>5 DEF Undisturbed
<1>8. d.pos >= 1
  BY <1>1
<1>9. Here(d)
  BY <1>2, <1>6, <1>7, <1>8 DEF Here, Good
<1> QED BY <1>9 DEF d

LEMMA ProceedGood ==
  ASSUME TypeOK, Switches, Dispatches, NEW t \in Threads, stack[t] # <<>>,
         NEW e \in Dispatch, Here(e), stack' = WithTop(t, e) \/ Proceed(t, e),
         UNCHANGED <<switches, registry, configVars>>
  PROVE  Dispatches'
<1> DEFINE s == stack[t]
           r == [s EXCEPT ![Len(s)] = e]
<1>1. s \in Seq(Dispatch) /\ s # <<>> /\ \A i \in 1 .. Len(s) : Here(s[i])
  BY DEF TypeOK, Dispatches, Here
<1>2. r \in Seq(Dispatch) /\ \A i \in 1 .. Len(r) : Here(r[i])
  <2> HIDE DEF s
  <2>1. r \in Seq(Dispatch) /\ Len(r) = Len(s)
        /\ \A i \in 1 .. Len(s) : r[i] = e \/ r[i] = s[i]
    BY <1>1, Replaced
  <2> HIDE DEF r
  <2> QED BY <1>1, <2>1
<1>3. CASE stack' = WithTop(t, e)
  <2>1. stack' = [stack EXCEPT ![t] = r]
    BY <1>3 DEF WithTop, TypeOK
  <2> HIDE DEF r
  <2> QED BY <1>2, <2>1, ThreadGood
<1>4. CASE \E semlog \in BOOLEAN, l \in Loggers :
             stack' = [stack EXCEPT ![t] = Append(r, NewDispatch(semlog, l))]
  <2>1. PICK semlog \in BOOLEAN, l \in Loggers :
               stack' = [stack EXCEPT ![t] = Append(r, NewDispatch(semlog, l))]
    BY <1>4
  <2> DEFINE f == NewDispatch(semlog, l)
             w == Append(r, f)
  <2>2. f \in Dispatch /\ Here(f)
    BY NewIsPlaced, NewGood
  <2>3. stack' = [stack EXCEPT ![t] = w]
    BY <2>1
  <2> HIDE DEF f, r
  <2>4. w \in Seq(Dispatch) /\ Len(w) = Len(r) + 1 /\ Len(r) \in Nat
        /\ \A i \in 1 .. Len(r) + 1 : w[i] = IF i = Len(r) + 1 THEN f ELSE r[i]
    BY <1>2, <2>2
  <2> HIDE DEF w
  <2>5. \A i \in 1 .. Len(w) : Here(w[i])
    BY <1>2, <2>2, <2>4
  <2> QED BY <2>3, <2>4, <2>5, ThreadGood
<1>5. Proceed(t, e) =>
        \/ stack' = WithTop(t, e)
        \/ \E semlog \in BOOLEAN, l \in Loggers :
             stack' = [stack EXCEPT ![t] = Append(r, NewDispatch(semlog, l))]
  BY DEF Proceed
<1> QED BY <1>3, <1>4, <1>5

LEMMA TopGood ==
  ASSUME TypeOK, Records, Dispatches, NEW t \in Threads, stack[t] # <<>>
  PROVE  Top(t) \in Dispatch /\ Sound(Top(t)) /\ Here(Top(t))
<1>1. Len(stack[t]) \in 1 .. Len(stack[t])
  BY DEF TypeOK
<1>2. Here(Top(t))
  BY <1>1 DEF Dispatches, Here, Top
<1> QED BY <1>2, TopPlaced

LEMMA TypesHere ==
  ASSUME TypeOK
  PROVE  /\ attached \in [Loggers -> Seq(Handlers)] /\ propagates \in BOOLEAN
         /\ marking \in BOOLEAN /\ current \in Pipelines \cup {None} /\ Quiet \in BOOLEAN
<1>1. Quiet \in BOOLEAN
  BY Zenon DEF Quiet
<1> QED BY <1>1 DEF TypeOK

LEMMA CallStep ==
  ASSUME TypeOK, Switches, Dispatches, NEW t \in Threads, Call(t)
  PROVE  Dispatches'
<1>1. PICK semlog \in BOOLEAN, l \in Loggers :
             stack' = [stack EXCEPT ![t] = <<NewDispatch(semlog, l)>>]
  BY DEF Call
<1> DEFINE e == NewDispatch(semlog, l)
<1>2. e \in Dispatch /\ Here(e) /\ UNCHANGED <<switches, registry, configVars>>
  BY NewIsPlaced, NewGood DEF Call
<1>3. stack' = [stack EXCEPT ![t] = <<e>>]
  BY <1>1
<1> HIDE DEF e
<1>4. <<e>> \in Seq(Dispatch) /\ \A i \in 1 .. Len(<<e>>) : Here(<<e>>[i])
  BY <1>2
<1> QED BY <1>2, <1>3, <1>4, ThreadGood

LEMMA RouteStep ==
  ASSUME TypeOK, Records, Switches, Dispatches, NEW t \in Threads, Route(t)
  PROVE  Dispatches'
<1> DEFINE d == Top(t)
<1>1. stack[t] # <<>> /\ d.at = "route" /\ UNCHANGED <<switches, registry, configVars>>
  BY DEF Route, Tops
<1>2. d \in Dispatch /\ Sound(d) /\ Here(d) /\ (d.marker => armed /\ current # None)
      /\ current \in Pipelines \cup {None}
  BY <1>1, TopGood, TopPlaced DEF TypeOK
<1>3. ASSUME NEW e \in Dispatch, SameRecord(e, d), e.on = d.on, e.pos = d.pos,
             e.got = d.got, e.found = d.found,
             e.at = IF d.marker THEN "deliver" ELSE "walk",
             e.via = IF d.marker THEN current ELSE None
      PROVE  Here(e)
  BY <1>1, <1>2, <1>3, TypesHere, RouteGood DEF Here
<1>4. CASE armed /\ current # None
  <2> DEFINE e == [d EXCEPT !.marker = FALSE,
                            !.at = IF d.marker THEN "deliver" ELSE "walk",
                            !.via = IF d.marker THEN current ELSE None]
  <2>1. e \in Dispatch
    <3>1. FALSE \in BOOLEAN
      OBVIOUS
    <3> QED BY <1>2, <3>1 DEF Dispatch
  <2>2. /\ SameRecord(e, d) /\ e.on = d.on /\ e.pos = d.pos /\ e.got = d.got
        /\ e.found = d.found
        /\ e.at = IF d.marker THEN "deliver" ELSE "walk"
        /\ e.via = IF d.marker THEN current ELSE None
    BY <1>2 DEF Dispatch, SameRecord
  <2>3. stack' = WithTop(t, e)
    BY <1>4 DEF Route
  <2> HIDE DEF e
  <2>4. Here(e)
    BY <1>3, <2>1, <2>2
  <2> QED BY <1>1, <2>1, <2>3, <2>4, ProceedGood
<1>5. CASE ~ (armed /\ current # None)
  <2> DEFINE e == [d EXCEPT !.at = "walk"]
  <2>1. /\ e \in Dispatch
        /\ SameRecord(e, d) /\ e.on = d.on /\ e.pos = d.pos /\ e.got = d.got
        /\ e.found = d.found /\ e.at = "walk" /\ e.via = d.via
    BY <1>2 DEF Dispatch, SameRecord
  <2>2. stack' = WithTop(t, e)
    BY <1>5 DEF Route, e
  <2>3. ~ d.marker /\ d.via = None
    BY <1>1, <1>2, <1>5 DEF Sound
  <2> HIDE DEF e, d
  <2>4. /\ e.at = IF d.marker THEN "deliver" ELSE "walk"
        /\ e.via = IF d.marker THEN current ELSE None
    BY <2>1, <2>3
  <2>5. Here(e)
    BY <1>3, <2>1, <2>4
  <2> QED BY <1>1, <2>1, <2>2, <2>5, ProceedGood
<1> QED BY <1>4, <1>5

\* A count goes up by one, and the place in the list perhaps.
LEMMA CountedOn ==
  ASSUME NEW d \in Dispatch, NEW h \in Handlers
  PROVE  LET e == [d EXCEPT !.got[h] = @ + 1] IN
         /\ e \in Dispatch /\ SameRecord(e, d) /\ e.on = d.on /\ e.pos = d.pos
         /\ e.found = d.found /\ e.at = d.at /\ e.via = d.via
         /\ e.got[h] = d.got[h] + 1
         /\ \A g \in Handlers : g # h => e.got[g] = d.got[g]
<1> DEFINE f == [d.got EXCEPT ![h] = d.got[h] + 1]
           e == [d EXCEPT !.got = f]
<1>1. /\ f \in [Handlers -> Nat] /\ f[h] = d.got[h] + 1
      /\ \A g \in Handlers : g # h => f[g] = d.got[g]
  BY DEF Dispatch
<1> HIDE DEF f
<1>2. /\ e \in Dispatch /\ SameRecord(e, d) /\ e.on = d.on /\ e.pos = d.pos
      /\ e.found = d.found /\ e.at = d.at /\ e.via = d.via /\ e.got = f
  BY <1>1 DEF Dispatch, SameRecord
<1>3. e = [d EXCEPT !.got[h] = @ + 1]
  BY DEF f
<1> HIDE DEF e
<1>4. e.got[h] = d.got[h] + 1 /\ \A g \in Handlers : g # h => e.got[g] = d.got[g]
  BY <1>1, <1>2
<1> QED BY <1>2, <1>3, <1>4

LEMMA DeliverStep ==
  ASSUME TypeOK, Records, Switches, Dispatches, NEW t \in Threads, Deliver(t)
  PROVE  Dispatches'
<1> DEFINE d == Top(t)
           c == [d EXCEPT !.got[d.via] = @ + 1]
           e == [d EXCEPT !.got[d.via] = @ + 1, !.at = "hide"]
<1>1. stack[t] # <<>> /\ d.at = "deliver" /\ UNCHANGED <<switches, registry, configVars>>
      /\ Proceed(t, e)
  BY DEF Deliver, Tops
<1>2. d \in Dispatch /\ Sound(d) /\ Here(d) /\ d.via \in Handlers
  <2>1. d \in Dispatch /\ Sound(d) /\ Here(d)
    BY <1>1, TopGood
  <2>2. d.via \in Pipelines
    BY <1>1, <2>1 DEF Sound, Dispatch
  <2> QED BY <2>1, <2>2, Apart
<1>3. /\ c \in Dispatch /\ SameRecord(c, d) /\ c.on = d.on /\ c.pos = d.pos
      /\ c.found = d.found /\ c.at = d.at /\ c.via = d.via
      /\ c.got[d.via] = d.got[d.via] + 1
      /\ \A g \in Handlers : g # d.via => c.got[g] = d.got[g]
  BY <1>2, CountedOn
<1>4. e = [c EXCEPT !.at = "hide"]
  OBVIOUS
<1> HIDE DEF c
<1>5. /\ e \in Dispatch /\ SameRecord(e, c) /\ e.on = c.on /\ e.pos = c.pos
      /\ e.found = c.found /\ e.at = "hide" /\ e.via = c.via /\ e.got = c.got
  BY <1>3, <1>4 DEF Dispatch, SameRecord
<1> HIDE DEF e
<1>6. Here(e)
  BY <1>1, <1>2, <1>3, <1>5, TypesHere, DeliverGood DEF Here, SameRecord
<1> QED BY <1>1, <1>5, <1>6, ProceedGood

LEMMA HideStep ==
  ASSUME TypeOK, Records, Switches, Dispatches, NEW t \in Threads, Hide(t)
  PROVE  Dispatches'
<1> DEFINE d == Top(t)
           k == hidden[t]
           e == [d EXCEPT !.saved = k, !.at = "walk"]
<1>1. stack[t] # <<>> /\ d.at = "hide" /\ UNCHANGED <<switches, registry, configVars>>
      /\ stack' = WithTop(t, e)
  BY DEF Hide, Tops
<1>2. d \in Dispatch /\ Sound(d) /\ Here(d) /\ k \in Nat
  BY <1>1, TopGood DEF TypeOK
<1> HIDE DEF k
<1>3. /\ e \in Dispatch /\ SameRecord(e, d) /\ e.on = d.on /\ e.pos = d.pos
      /\ e.found = d.found /\ e.at = "walk" /\ e.via = d.via /\ e.got = d.got
  <2> HIDE DEF d
  <2> QED BY <1>2 DEF Dispatch, SameRecord
<1> HIDE DEF e
<1>4. Here(e)
  BY <1>1, <1>2, <1>3, TypesHere, HideGood DEF Here
<1> QED BY <1>1, <1>3, <1>4, ProceedGood

LEMMA MarkingIsHybrid ==
  ASSUME Settled, marking, Quiet
  PROVE  Has(attached["root"], Foreign)
BY DEF Settled

LEMMA HandleStep ==
  ASSUME TypeOK, Records, Switches, Lists, Settled, Dispatches, NEW t \in Threads, Handle(t)
  PROVE  Dispatches'
<1> DEFINE d == Top(t)
           h == attached[d.on][d.pos]
           n == [d EXCEPT !.pos = @ + 1, !.found = TRUE]
           e == [n EXCEPT !.got[h] = @ + 1]
<1>1. stack[t] # <<>> /\ d.at = "walk" /\ UNCHANGED <<switches, registry, configVars>>
      /\ d.pos <= Len(attached[d.on])
      /\ \/ Concealed(t, h) /\ stack' = WithTop(t, n)
         \/ ~ Concealed(t, h) /\ Proceed(t, e)
  BY DEF Handle, Tops
<1>2. /\ d \in Dispatch /\ Sound(d) /\ Here(d)
      /\ Concealed(t, h) <=> d.via # None /\ h \in Rendering
  BY <1>1, TopGood, TopPlaced DEF BeingHidden, Routed, Concealed
<1>3. h \in Handlers
  <2>1. d.pos >= 1 /\ d.pos \in Nat /\ d.on \in Loggers
    BY <1>2 DEF Here, Good, Dispatch
  <2>2. attached[d.on] \in Seq(Handlers) /\ d.pos \in 1 .. Len(attached[d.on])
    BY <1>1, <2>1, TypesHere
  <2> QED BY <2>2
<1>4. /\ n \in Dispatch /\ SameRecord(n, d) /\ n.on = d.on /\ n.pos = d.pos + 1
      /\ n.found /\ n.at = "walk" /\ n.via = d.via /\ n.got = d.got
  <2>1. TRUE \in BOOLEAN /\ d.pos + 1 \in Nat
    BY <1>2 DEF Dispatch
  <2> HIDE DEF d
  <2> QED BY <1>1, <1>2, <2>1 DEF Dispatch, SameRecord
<1>5. ASSUME NEW f \in Dispatch, Handed(f, d, h)
      PROVE  Here(f)
  <2>1. Orderly(attached, propagates) /\ (marking /\ Quiet => Has(attached["root"], Foreign))
    BY MarkingIsHybrid DEF Lists
  <2>2. Good(d, attached, propagates, marking, current, Quiet)
    BY <1>2 DEF Here
  <2>3. d \in Dispatch /\ Sound(d) /\ d.at = "walk" /\ d.pos <= Len(attached[d.on])
    BY <1>1, <1>2
  <2>4. h = attached[d.on][d.pos]
    OBVIOUS
  <2> HIDE DEF d, h
  <2>5. Good(f, attached, propagates, marking, current, Quiet)
    BY <1>5, <2>1, <2>2, <2>3, <2>4, TypesHere, HandleGood
  <2> QED BY <2>5 DEF Here
<1>6. CASE Concealed(t, h) /\ stack' = WithTop(t, n)
  <2> HIDE DEF h, n
  <2>1. Here(n)
    BY <1>2, <1>4, <1>5, <1>6 DEF Handed
  <2> QED BY <1>1, <1>4, <1>6, <2>1, ProceedGood
<1>7. CASE ~ Concealed(t, h) /\ Proceed(t, e)
  <2> HIDE DEF h, n
  <2>1. /\ e \in Dispatch /\ SameRecord(e, n) /\ e.on = n.on /\ e.pos = n.pos
        /\ e.found = n.found /\ e.at = n.at /\ e.via = n.via
        /\ e.got[h] = n.got[h] + 1
        /\ \A g \in Handlers : g # h => e.got[g] = n.got[g]
    BY <1>3, <1>4, CountedOn
  <2> HIDE DEF e
  <2>2. Here(e)
    BY <1>2, <1>4, <1>5, <1>7, <2>1 DEF SameRecord, Handed
  <2> QED BY <1>1, <1>7, <2>1, <2>2, ProceedGood
<1> QED BY <1>1, <1>6, <1>7

LEMMA AscendStep ==
  ASSUME TypeOK, Records, Switches, Lists, Dispatches, NEW t \in Threads, Ascend(t)
  PROVE  Dispatches'
<1> DEFINE d == Top(t)
           up == [d EXCEPT !.on = "root", !.pos = 1]
           done == [d EXCEPT !.at = "done"]
           last == [done EXCEPT !.got[LastResort] = @ + 1]
<1>1. stack[t] # <<>> /\ d.at = "walk" /\ UNCHANGED <<switches, registry, configVars>>
      /\ d.pos > Len(attached[d.on])
      /\ \/ d.on = "lib" /\ propagates /\ stack' = WithTop(t, up)
         \/ /\ ~ (d.on = "lib" /\ propagates)
            /\ d.found \/ Concealed(t, LastResort)
            /\ stack' = WithTop(t, done)
         \/ /\ ~ (d.on = "lib" /\ propagates)
            /\ ~ (d.found \/ Concealed(t, LastResort))
            /\ stack' = WithTop(t, last)
  <2>1. [d EXCEPT !.at = "done", !.got[LastResort] = @ + 1] = last
    OBVIOUS
  <2> HIDE DEF last
  <2> QED BY <2>1 DEF Ascend, Tops
<1>2. /\ d \in Dispatch /\ Sound(d) /\ Here(d)
      /\ Concealed(t, LastResort) <=> d.via # None
  BY <1>1, TopGood, TopPlaced, Apart DEF BeingHidden, Routed, Concealed
<1>3. Orderly(attached, propagates)
      /\ Good(d, attached, propagates, marking, current, Quiet)
  BY <1>2 DEF Lists, Here
<1>4. CASE d.on = "lib" /\ propagates /\ stack' = WithTop(t, up)
  <2>1. /\ up \in Dispatch /\ SameRecord(up, d) /\ up.on = "root" /\ up.at = "walk"
        /\ up.via = d.via /\ up.pos = 1 /\ up.found = d.found /\ up.got = d.got
    BY <1>1, <1>2 DEF Dispatch, SameRecord, Loggers
  <2> HIDE DEF up, d
  <2>2. Here(up)
    BY <1>1, <1>2, <1>3, <1>4, <2>1, TypesHere, AscendGood DEF Here
  <2> QED BY <1>1, <1>4, <2>1, <2>2, ProceedGood
<1>5. /\ done \in Dispatch /\ SameRecord(done, d) /\ done.on = d.on /\ done.at = "done"
      /\ done.via = d.via /\ done.pos = d.pos /\ done.found = d.found /\ done.got = d.got
  BY <1>2 DEF Dispatch, SameRecord
<1> HIDE DEF done
<1>6. ASSUME NEW f \in Dispatch, ~ (d.on = "lib" /\ propagates),
             SameRecord(f, d), f.on = d.on, f.at = "done", f.via = d.via,
             f.pos = d.pos, f.found = d.found,
             IF d.found \/ d.via # None THEN f.got = d.got
             ELSE /\ f.got[LastResort] = d.got[LastResort] + 1
                  /\ \A g \in Handlers : g # LastResort => f.got[g] = d.got[g]
      PROVE  Here(f)
  <2>1. d \in Dispatch /\ d.at = "walk" /\ d.pos > Len(attached[d.on])
    BY <1>1, <1>2
  <2> HIDE DEF d
  <2> QED BY <1>3, <1>6, <2>1, TypesHere, EndGood DEF Here
<1>7. CASE /\ ~ (d.on = "lib" /\ propagates)
           /\ d.found \/ Concealed(t, LastResort)
           /\ stack' = WithTop(t, done)
  <2>1. Here(done)
    BY <1>2, <1>5, <1>6, <1>7
  <2> QED BY <1>1, <1>5, <1>7, <2>1, ProceedGood
<1>8. CASE /\ ~ (d.on = "lib" /\ propagates)
           /\ ~ (d.found \/ Concealed(t, LastResort))
           /\ stack' = WithTop(t, last)
  <2>1. /\ last \in Dispatch /\ SameRecord(last, done) /\ last.on = done.on
        /\ last.pos = done.pos
        /\ last.found = done.found /\ last.at = done.at /\ last.via = done.via
        /\ last.got[LastResort] = done.got[LastResort] + 1
        /\ \A g \in Handlers : g # LastResort => last.got[g] = done.got[g]
    BY <1>5, CountedOn, Apart
  <2> HIDE DEF last
  <2>2. Here(last)
    BY <1>2, <1>5, <1>6, <1>8, <2>1 DEF SameRecord
  <2> QED BY <1>1, <1>8, <2>1, <2>2, ProceedGood
<1> QED BY <1>1, <1>4, <1>7, <1>8

\* A dispatch ends, by whatever way out.
LEMMA DroppedStep ==
  ASSUME TypeOK, Dispatches, NEW t \in Threads, stack[t] # <<>>, stack' = Dropped(t),
         UNCHANGED <<switches, registry, configVars>>
  PROVE  Dispatches'
<1> DEFINE s == stack[t]
           n == Len(s)
           r == SubSeq(s, 1, n - 1)
<1>1. s # <<>> /\ stack' = [stack EXCEPT ![t] = r]
      /\ UNCHANGED <<switches, registry, configVars>>
  BY DEF Dropped
<1>2. s \in Seq(Dispatch) /\ n \in Nat /\ \A i \in 1 .. n : Here(s[i])
  BY DEF TypeOK, Dispatches, Here
<1>3. r \in Seq(Dispatch) /\ \A i \in 1 .. Len(r) : i \in 1 .. n /\ r[i] = s[i]
  BY <1>1, <1>2
<1> HIDE DEF r, s, n
<1>4. \A i \in 1 .. Len(r) : Here(r[i])
  BY <1>2, <1>3
<1> QED BY <1>1, <1>3, <1>4, ThreadGood

LEMMA LogGood ==
  ASSUME TypeOK, Records, Switches, Lists, Settled, Dispatches, NEW t \in Threads, Log(t)
  PROVE  Lists' /\ Settled' /\ Dispatches'
<1>1. Dispatches'
  <2>1. CASE Return(t) \/ Raise(t) \/ DeliverRaises(t)
    BY <2>1, DroppedStep DEF Return, Raise, Leave, DeliverRaises, Tops
  <2> QED BY <2>1, CallStep, RouteStep, DeliverStep, HideStep, HandleStep, AscendStep DEF Log
<1>2. UNCHANGED <<switches, registry, configVars>>
  BY DEF Log, Call, Route, Deliver, Hide, Handle, Ascend, Return, Raise, Leave,
         DeliverRaises
<1>3. Lists' /\ Settled'
  BY <1>2 DEF Lists, Settled, Quiet, switches, registry, configVars
<1> QED BY <1>1, <1>3

-----------------------------------------------------------------------------
(* Steps of configure().                                                   *)

\* r is s without its i-th element.
Without(r, s, i) ==
  /\ Len(r) = Len(s) - 1
  /\ \A j \in 1 .. Len(r) : r[j] = IF j < i THEN s[j] ELSE s[j + 1]

LEMMA RemoveAtIsWithout ==
  ASSUME NEW s \in Seq(Handlers), NEW i \in 1 .. Len(s)
  PROVE  RemoveAt(s, i) \in Seq(Handlers) /\ Without(RemoveAt(s, i), s, i)
<1> DEFINE u == SubSeq(s, 1, i - 1)
           v == SubSeq(s, i + 1, Len(s))
           n == Len(s)
<1>1. n \in Nat /\ i \in 1 .. n /\ u \in Seq(Handlers) /\ v \in Seq(Handlers)
  OBVIOUS
<1>2. Len(u) = i - 1 /\ \A j \in 1 .. i - 1 : u[j] = s[j]
  BY <1>1
<1>3. Len(v) = n - i /\ \A j \in 1 .. n - i : v[j] = s[j + i]
  BY <1>1
<1>4. RemoveAt(s, i) = u \o v
  BY DEF RemoveAt
<1> HIDE DEF u, v, n
<1>5. u \o v \in Seq(Handlers) /\ Len(u \o v) = n - 1
      /\ \A j \in 1 .. n - 1 : (u \o v)[j] = IF j <= Len(u) THEN u[j] ELSE v[j - Len(u)]
  BY <1>1, <1>2, <1>3
<1>6. ASSUME NEW j \in 1 .. n - 1 PROVE (u \o v)[j] = IF j < i THEN s[j] ELSE s[j + 1]
  <2>1. CASE j < i
    <3>1. j <= Len(u) /\ j \in 1 .. i - 1
      BY <1>1, <1>2, <2>1
    <3> QED BY <1>2, <1>5, <2>1, <3>1
  <2>2. CASE ~ (j < i)
    <3>1. ~ (j <= Len(u)) /\ j - Len(u) \in 1 .. n - i /\ (j - Len(u)) + i = j + 1
      BY <1>1, <1>2, <2>2
    <3> QED BY <1>3, <1>5, <2>2, <3>1
  <2> QED BY <2>1, <2>2
<1> QED BY <1>4, <1>5, <1>6 DEF Without, n

LEMMA TailIsWithout ==
  ASSUME NEW s \in Seq(Handlers), s # <<>>
  PROVE  Tail(s) \in Seq(Handlers) /\ Without(Tail(s), s, 1)
BY DEF Without

LEMMA WithoutKeeps ==
  ASSUME NEW s \in Seq(Handlers), NEW r \in Seq(Handlers), NEW i \in 1 .. Len(s),
         Without(r, s, i)
  PROVE  /\ Distinct(s) => Distinct(r)
         /\ \A H : Has(s, H) => Has(r, H)
<1>1. Len(s) \in Nat /\ Len(r) = Len(s) - 1
  BY DEF Without
<1>2. \A j \in 1 .. Len(r) :
        \/ j < i /\ j \in 1 .. Len(s) /\ r[j] = s[j]
        \/ j >= i /\ j + 1 \in 1 .. Len(s) /\ r[j] = s[j + 1]
  BY <1>1 DEF Without
<1>3. ASSUME Distinct(s), NEW j \in 1 .. Len(r), NEW k \in 1 .. Len(r), r[j] = r[k]
      PROVE  j = k
  <2>1. \A x, y \in 1 .. Len(s) : s[x] = s[y] => x = y
    BY <1>3 DEF Distinct
  <2>2. CASE j < i
    BY <1>1, <1>2, <1>3, <2>1, <2>2
  <2>3. CASE ~ (j < i)
    BY <1>1, <1>2, <1>3, <2>1, <2>3
  <2> QED BY <2>2, <2>3
<1>4. \A H : Has(s, H) => Has(r, H)
  BY <1>2 DEF Has
<1> QED BY <1>3, <1>4 DEF Distinct

\* A handler less: nobody who was ahead is passed over or met again.
LEMMA ShorterGood ==
  ASSUME NEW a \in [Loggers -> Seq(Handlers)], NEW l \in Loggers, NEW r \in Seq(Handlers),
         NEW i \in 1 .. Len(a[l]), Without(r, a[l], i),
         NEW d \in Dispatch, d.pos >= 1, OnItsWay(d, a)
  PROVE  OnItsWay(d, [a EXCEPT ![l] = r])
<1> DEFINE b == [a EXCEPT ![l] = r]
<1>1. d.on \in Loggers /\ d.pos \in Nat /\ a[l] \in Seq(Handlers) /\ Len(a[l]) \in Nat
  BY DEF Dispatch
<1>2. SUFFICES ASSUME d.via = None, NEW j \in 1 .. Len(b[d.on]), j >= d.pos
               PROVE  d.got[b[d.on][j]] = 0
  BY DEF OnItsWay
<1>3. \A k \in 1 .. Len(a[d.on]) : k >= d.pos => d.got[a[d.on][k]] = 0
  BY <1>2 DEF OnItsWay
<1>4. CASE d.on # l
  BY <1>1, <1>2, <1>3, <1>4
<1>5. CASE d.on = l
  <2>1. b[d.on] = r
    BY <1>1, <1>5
  <2>2. \E k \in 1 .. Len(a[d.on]) : k >= j /\ r[j] = a[d.on][k]
    <3>1. Len(r) = Len(a[l]) - 1 /\ j \in 1 .. Len(r) /\ j \in 1 .. Len(a[l])
          /\ j + 1 \in 1 .. Len(a[l])
      BY <1>1, <1>2, <2>1 DEF Without
    <3> QED BY <1>1, <1>5, <3>1 DEF Without
  <2> QED BY <1>1, <1>2, <1>3, <2>1, <2>2
<1> QED BY <1>4, <1>5

\* Root has nothing and gets a pipeline.
LEMMA AttachedGood ==
  ASSUME NEW a \in [Loggers -> Seq(Handlers)], NEW c \in Pipelines,
         NEW d \in Dispatch, d.pos >= 1, OnItsWay(d, a)
  PROVE  OnItsWay(d, [a EXCEPT !["root"] = <<c>>])
<1> DEFINE b == [a EXCEPT !["root"] = <<c>>]
<1>1. d.on \in {"lib", "root"} /\ d.pos \in Nat /\ b["root"] = <<c>> /\ b["lib"] = a["lib"]
  BY DEF Dispatch, Loggers
<1>2. SUFFICES ASSUME d.via = None, NEW j \in 1 .. Len(b[d.on]), j >= d.pos
               PROVE  d.got[b[d.on][j]] = 0
  BY DEF OnItsWay
<1>3. CASE d.on = "lib"
  BY <1>1, <1>2, <1>3 DEF OnItsWay
<1>4. CASE d.on = "root"
  <2>0. b[d.on] = <<c>> /\ Len(<<c>>) = 1 /\ <<c>>[1] = c
    BY <1>1, <1>4
  <2> HIDE DEF b
  <2>1. j = 1 /\ d.pos = 1 /\ b[d.on][j] = c
    <3>1. j \in 1 .. 1
      BY <1>2, <2>0
    <3> QED BY <1>1, <1>2, <2>0, <3>1
  <2>2. NoLine(d)
    BY <1>2, <2>1 DEF OnItsWay
  <2> QED BY <2>1, <2>2 DEF NoLine
<1> QED BY <1>1, <1>3, <1>4

\* In the middle of configure() no record is calm, so that only the way of a record
\* along the lists matters.
LEMMA BusyGood ==
  ASSUME TypeOK, Dispatches, ~ Quiet, UNCHANGED stack,
         \A d \in Dispatch : d.pos >= 1 /\ OnItsWay(d, attached) => OnItsWay(d, attached')
  PROVE  Dispatches'
<1> SUFFICES ASSUME NEW t \in Threads, NEW i \in 1 .. Len(stack'[t])
             PROVE  Good(stack'[t][i], attached', propagates', marking', current', Quiet')
  BY DEF Dispatches
<1> DEFINE d == stack[t][i]
<1>1. d \in Dispatch /\ stack'[t][i] = d /\ i \in 1 .. Len(stack[t])
  BY DEF TypeOK
<1>2. Good(d, attached, propagates, marking, current, Quiet)
  BY <1>1 DEF Dispatches
<1> HIDE DEF d
<1>3. d.pos >= 1 /\ OnItsWay(d, attached') /\ ~ d.calm
  BY <1>1, <1>2 DEF Good
<1>4. Good(d, attached', propagates', marking', current', Quiet')
  BY <1>3 DEF Good
<1> QED BY <1>1, <1>4

LEMMA StirGood ==
  ASSUME TypeOK, Dispatches, Stir, UNCHANGED registry
  PROVE  Dispatches'
<1> SUFFICES ASSUME NEW t \in Threads, NEW i \in 1 .. Len(stack'[t])
             PROVE  Good(stack'[t][i], attached', propagates', marking', current', Quiet')
  BY DEF Dispatches
<1> DEFINE d == stack[t][i]
           e == [d EXCEPT !.calm = FALSE]
<1>1. stack[t] \in Seq(Dispatch) /\ DOMAIN stack[t] = 1 .. Len(stack[t])
      /\ stack'[t] = [j \in DOMAIN stack[t] |-> [stack[t][j] EXCEPT !.calm = FALSE]]
  BY DEF TypeOK, Stir
<1>2. i \in 1 .. Len(stack[t])
  <2>1. DOMAIN stack'[t] = 1 .. Len(stack[t])
    BY <1>1
  <2>2. Len(stack[t]) \in Nat
    BY <1>1
  <2>3. Len(stack'[t]) = Len(stack[t])
    BY <1>1, <2>1, <2>2
  <2> QED BY <2>3
<1>3. stack'[t][i] = e /\ d \in Dispatch
  BY <1>1, <1>2
<1>4. Good(d, attached, propagates, marking, current, Quiet)
  BY <1>2 DEF Dispatches
<1>5. /\ e.pos = d.pos /\ e.via = d.via /\ e.got = d.got /\ e.at = d.at /\ e.on = d.on
      /\ e.calm = FALSE
  <2> HIDE DEF d
  <2> QED BY <1>3 DEF Dispatch
<1>6. attached' = attached
  BY DEF registry
<1> HIDE DEF d, e
<1>7. e.pos >= 1 /\ OnItsWay(e, attached') /\ ~ e.calm
  BY <1>4, <1>5, <1>6 DEF Good, OnItsWay, NoLine, OneLine
<1>8. Good(e, attached', propagates', marking', current', Quiet')
  BY <1>7 DEF Good
<1> QED BY <1>3, <1>8

LEMMA DetachStep ==
  ASSUME TypeOK, Switches, Lists, Settled, Dispatches, Detach
  PROVE  Lists' /\ Settled' /\ Dispatches'
<1> DEFINE s == attached["root"]
<1>1. cpc = "detach" /\ UNCHANGED <<switches, propagates, logVars, configVars>>
  BY DEF Detach
<1>2. PICK i \in DOMAIN s : attached' = [attached EXCEPT !["root"] = RemoveAt(s, i)]
  BY DEF Detach
<1> DEFINE r == RemoveAt(s, i)
<1>3. s \in Seq(Handlers) /\ i \in 1 .. Len(s) /\ "root" \in Loggers /\ "lib" \in Loggers
      /\ attached \in [Loggers -> Seq(Handlers)]
  BY <1>2, TypesHere DEF Loggers
<1>4. r \in Seq(Handlers) /\ Without(r, s, i)
  BY <1>3, RemoveAtIsWithout
<1> HIDE DEF r
<1>5. attached' = [attached EXCEPT !["root"] = r]
  BY <1>2 DEF r
<1>6. (Distinct(s) => Distinct(r)) /\ \A H : Has(s, H) => Has(r, H)
  BY <1>3, <1>4, WithoutKeeps
<1>7. attached'["root"] = r /\ attached'["lib"] = attached["lib"]
  BY <1>3, <1>5 DEF Loggers
<1>8. Orderly(attached', propagates')
  <2>1. \/ Has(r, Foreign)
        \/ Len(r) = 1 /\ Has(r, Pipelines)
    <3>1. CASE Has(s, Foreign)
      BY <1>6, <3>1
    <3>2. CASE Len(s) = 1
      <4>1. Len(r) = 0
        BY <1>4, <3>2 DEF Without
      <4> QED BY <4>1 DEF Has
    <3> QED BY <3>1, <3>2 DEF Lists, Orderly
  <2> QED BY <1>1, <1>6, <1>7, <2>1 DEF Lists, Orderly
<1>9. Lists'
  BY <1>1, <1>8 DEF Lists, switches, configVars
<1>10. Settled'
  BY <1>1 DEF Settled, Quiet, configVars
<1>11. \A d \in Dispatch : d.pos >= 1 /\ OnItsWay(d, attached) => OnItsWay(d, attached')
  BY <1>3, <1>4, <1>5, ShorterGood
<1>12. Dispatches'
  BY <1>1, <1>11, BusyGood DEF Quiet, logVars
<1> QED BY <1>9, <1>10, <1>12

LEMMA CaptureHandlerStep ==
  ASSUME TypeOK, Switches, Lists, Settled, Dispatches, CaptureHandler
  PROVE  Lists' /\ Settled' /\ Dispatches'
<1> DEFINE s == attached["lib"]
           r == Tail(s)
<1>1. cpc = "capture" /\ UNCHANGED <<switches, propagates, logVars, configVars>>
      /\ s # <<>> /\ attached' = [attached EXCEPT !["lib"] = r]
  BY DEF CaptureHandler
<1>3. s \in Seq(Handlers) /\ "root" \in Loggers /\ "lib" \in Loggers
      /\ attached \in [Loggers -> Seq(Handlers)]
  BY TypesHere DEF Loggers
<1>2. 1 \in 1 .. Len(s)
  BY <1>1, <1>3
<1>4. r \in Seq(Handlers) /\ Without(r, s, 1)
  BY <1>1, <1>3, TailIsWithout
<1> HIDE DEF r
<1>6. (Distinct(s) => Distinct(r)) /\ \A H : Has(s, H) => Has(r, H)
  BY <1>2, <1>3, <1>4, WithoutKeeps
<1>7. attached'["lib"] = r /\ attached'["root"] = attached["root"]
  BY <1>1, <1>3 DEF Loggers
<1>8. ~ propagates
  BY <1>1 DEF Lists, Orderly
<1>9. Orderly(attached', propagates')
  BY <1>1, <1>6, <1>7, <1>8 DEF Lists, Orderly
<1>10. Lists'
  BY <1>1, <1>7, <1>9 DEF Lists, switches, configVars
<1>11. Settled'
  BY <1>1 DEF Settled, Quiet, configVars
<1>12. \A d \in Dispatch : d.pos >= 1 /\ OnItsWay(d, attached) => OnItsWay(d, attached')
  BY <1>1, <1>2, <1>3, <1>4, ShorterGood
<1>13. Dispatches'
  BY <1>1, <1>12, BusyGood DEF Quiet, logVars
<1> QED BY <1>10, <1>11, <1>13

LEMMA AttachRootStep ==
  ASSUME TypeOK, Switches, Lists, Settled, Dispatches, AttachRoot
  PROVE  Lists' /\ Settled' /\ Dispatches'
<1>1. /\ cpc = "detach" /\ target = "full" /\ Detached
      /\ attached' = [attached EXCEPT !["root"] = Append(attached["root"], fresh)]
      /\ UNCHANGED <<switches, propagates, logVars, target, fresh, torn>>
      /\ cpc' \in {"capture", "finish"}
  BY DEF AttachRoot
<1>2. "root" \in Loggers /\ "lib" \in Loggers /\ attached \in [Loggers -> Seq(Handlers)]
      /\ fresh = current /\ current \in Pipelines
  BY <1>1, TypesHere DEF Loggers, Lists, Switches
<1>3. attached["root"] = <<>>
  BY <1>1, <1>2 DEF Detached, Removable
<1>4. Append(attached["root"], fresh) = <<current>>
  BY <1>2, <1>3
<1>5. attached' = [attached EXCEPT !["root"] = <<current>>]
  BY <1>1, <1>4
<1>6. attached'["root"] = <<current>> /\ attached'["lib"] = attached["lib"]
  BY <1>2, <1>5
<1>7. Len(<<current>>) = 1 /\ <<current>>[1] = current
  OBVIOUS
<1>8. Has(<<current>>, Pipelines) /\ Distinct(<<current>>)
  BY <1>2, <1>7 DEF Has, Distinct
<1>9. Orderly(attached', propagates')
  BY <1>1, <1>6, <1>7, <1>8 DEF Lists, Orderly
<1>10. Lists'
  BY <1>1, <1>2, <1>6, <1>8, <1>9 DEF Lists, switches
<1>11. Settled'
  BY <1>1 DEF Settled, Quiet
<1>12. \A d \in Dispatch : d.pos >= 1 /\ OnItsWay(d, attached) => OnItsWay(d, attached')
  BY <1>2, <1>5, AttachedGood
<1>13. Dispatches'
  BY <1>1, <1>12, BusyGood DEF Quiet, logVars
<1> QED BY <1>10, <1>11, <1>13

LEMMA SwitchGood ==
  ASSUME TypeOK, Switches, Lists, Settled, Dispatches, Switch
  PROVE  Lists' /\ Settled' /\ Dispatches'
<1> USE DEF switches, registry, logVars, configVars
<1>1. CASE ConfigureOff
  <2>1. Dispatches'
    BY <1>1, StirGood DEF ConfigureOff
  <2>2. Lists' /\ Settled'
    BY <1>1 DEF ConfigureOff, Lists, Settled
  <2> QED BY <2>1, <2>2
<1>2. CASE Configure
  <2>1. Dispatches'
    BY <1>2, StirGood DEF Configure
  <2>2. Lists' /\ Settled'
    BY <1>2 DEF Configure, Lists, Settled, Quiet
  <2> QED BY <2>1, <2>2
<1>3. CASE InstallHandler
  <2>1. Dispatches'
    BY <1>3, BusyGood DEF InstallHandler, Quiet
  <2>2. Lists' /\ Settled'
    BY <1>3 DEF InstallHandler, Lists, Settled, Quiet
  <2> QED BY <2>1, <2>2
<1>4. CASE ArmRouting
  <2>1. Dispatches'
    BY <1>4, BusyGood DEF ArmRouting, Quiet
  <2>2. Has(attached["root"], Foreign)
    <3>1. attached["root"] \in Seq(Handlers) /\ target = "hybrid"
          /\ \A i \in DOMAIN attached["root"] : attached["root"][i] \notin Pipelines
      BY <1>4, TypesHere DEF ArmRouting, Detached, Removable, Loggers
    <3>2. CASE Len(attached["root"]) = 1 /\ Has(attached["root"], Pipelines)
      BY <3>1, <3>2 DEF Has
    <3> QED BY <3>2 DEF Lists, Orderly
  <2>3. Lists' /\ Settled'
    BY <1>4, <2>2 DEF ArmRouting, Lists, Settled, Quiet
  <2> QED BY <2>1, <2>3
<1>5. CASE CapturePropagate
  <2>1. Dispatches'
    BY <1>5, BusyGood DEF CapturePropagate, Quiet
  <2>2. propagates' = TRUE /\ Has(attached["root"], Pipelines) /\ attached["lib"] = <<>>
        /\ Orderly(attached, propagates) /\ attached' = attached
    BY <1>5 DEF CapturePropagate, Lists
  <2>3. Orderly(attached', propagates')
    BY <2>2 DEF Orderly
  <2>4. Lists' /\ Settled'
    BY <1>5, <2>3 DEF CapturePropagate, Lists, Settled, Quiet, Switches
  <2> QED BY <2>1, <2>4
<1>6. CASE CaptureRaises
  <2>1. Dispatches'
    BY <1>6, BusyGood DEF CaptureRaises, Quiet
  <2>2. Lists' /\ Settled'
    BY <1>6 DEF CaptureRaises, Switches, Lists, Settled, Quiet
  <2> QED BY <2>1, <2>2
<1>7. CASE Finish
  <2>1. Dispatches'
    BY <1>7, BusyGood DEF Finish, Quiet
  <2>2. Lists'
    BY <1>7 DEF Finish, Lists, TypeOK
  <2>3. CASE target = "hybrid"
    <3>1. marking' = TRUE /\ mode' = "hybrid" /\ armed' /\ current' # None
          /\ Has(attached'["root"], Foreign)
      BY <1>7, <2>3 DEF Finish, Lists, Switches
    <3>2. Settled'
      BY <3>1 DEF Settled
    <3> QED BY <2>1, <2>2, <3>2
  <2>4. CASE target = "full"
    <3>1. marking' = FALSE /\ mode' = "full" /\ attached'["root"] = <<current'>>
      BY <1>7, <2>4 DEF Finish, Lists
    <3>2. Settled'
      BY <3>1 DEF Settled
    <3> QED BY <2>1, <2>2, <3>2
  <2> QED BY <2>3, <2>4 DEF TypeOK
<1> QED
  BY <1>1, <1>2, <1>3, <1>4, <1>5, <1>6, <1>7, DetachStep, CaptureHandlerStep, AttachRootStep
  DEF Switch

-----------------------------------------------------------------------------
(* The invariant, and what follows from it.                                *)

LEMMA ListsAtFirst == Init => Lists /\ Settled /\ Dispatches
<1> SUFFICES ASSUME Init PROVE Lists /\ Settled /\ Dispatches
  OBVIOUS
<1>1. /\ attached["root"] = RootHas /\ attached["lib"] = LibHas /\ propagates = FALSE
      /\ marking = FALSE /\ mode = "full" /\ current = None /\ cpc = "idle"
      /\ \A t \in Threads : stack[t] = <<>>
  BY DEF Init, Loggers
<1>2. \A has \in {RootHas, LibHas} : Distinct(has) /\ Has(has, Foreign)
  BY ModesAssumption DEF Distinct, Has, Foreign
<1>3. Lists
  BY <1>1, <1>2 DEF Lists, Orderly
<1>4. Settled
  BY <1>1 DEF Settled
<1>5. Dispatches
  BY <1>1 DEF Dispatches
<1> QED BY <1>3, <1>4, <1>5

Routing == TypeOK /\ Records /\ Switches /\ Lists /\ Settled /\ Dispatches

LEMMA RoutingStep == Routing /\ [Next]_vars => Routing'
<1> SUFFICES ASSUME Routing, [Next]_vars PROVE Routing'
  OBVIOUS
<1>1. TypeOK' /\ Records' /\ Switches'
  BY NextKeeps DEF Routing
<1>2. Lists' /\ Settled' /\ Dispatches'
  <2>1. CASE UNCHANGED vars
    <3>1. UNCHANGED <<switches, registry, configVars, stack>>
      BY <2>1 DEF vars, logVars
    <3>2. Lists' /\ Settled'
      BY <3>1 DEF Routing, Lists, Settled, Quiet, switches, registry, configVars
    <3>3. Dispatches'
      <4>1. /\ stack' = stack /\ attached' = attached /\ propagates' = propagates
            /\ marking' = marking /\ current' = current
        BY <3>1 DEF switches, registry
      <4>2. Quiet' = Quiet
        BY <3>1 DEF Quiet, configVars
      <4> QED BY <4>1, <4>2 DEF Routing, Dispatches
    <3> QED BY <3>2, <3>3
  <2>2. CASE Switch
    BY <2>2, SwitchGood DEF Routing
  <2>3. CASE \E t \in Threads : Log(t)
    BY <2>3, LogGood DEF Routing
  <2> QED BY <2>1, <2>2, <2>3 DEF Next, Finished
<1> QED BY <1>1, <1>2 DEF Routing

\* Lists, switches and records keep to the invariant, whatever configure() is
\* called with and wherever it raises.
THEOREM RoutingHolds == Spec => []Routing
<1>1. Init => Routing
  BY InitHolds, ListsAtFirst DEF Routing
<1> QED BY <1>1, RoutingStep, PTL DEF Spec

\* A record of which no configure() is in the way, when its walk is over.
LEMMA WalkOver ==
  ASSUME Routing, NEW t \in Threads, NEW i \in DOMAIN stack[t], stack[t][i].at = "done",
         stack[t][i].calm
  PROVE  LET d == stack[t][i]
             s == attached[d.on]
         IN
         /\ Quiet /\ d \in Dispatch
         /\ d.via = IF marking /\ d.semlog THEN current ELSE None
         /\ d.on # d.logger => d.on = "root" /\ propagates
         /\ d.on = "lib" => ~ propagates
         /\ s \in Seq(Handlers) /\ Len(s) \in Nat /\ d.pos > Len(s)
         /\ d.pos = Len(s) + 1
         /\ \A h \in Handlers : d.got[h] = IF Served(d, h, attached) THEN 1 ELSE 0
         /\ \A h \in Handlers : Served(d, h, attached) <=>
              \/ h = d.via
              \/ /\ \E j \in 1 .. Len(s) : s[j] = h
                 /\ ~ (d.via # None /\ h \in Rendering)
              \/ h = LastResort /\ s = <<>> /\ d.via = None
<1> DEFINE d == stack[t][i]
           s == attached[d.on]
<1>1. d \in Dispatch /\ i \in 1 .. Len(stack[t])
  BY DEF Routing, TypeOK
<1>2. Good(d, attached, propagates, marking, current, Quiet)
  BY <1>1 DEF Routing, Dispatches
<1>3. Quiet /\ Undisturbed(d, attached, propagates, marking, current)
  BY <1>2 DEF Good
<1>4. d.on \in Loggers /\ d.pos \in Nat /\ s \in Seq(Handlers) /\ Len(s) \in Nat
  BY <1>1 DEF Dispatch, Routing, TypeOK
<1>5. d.at = "done"
  OBVIOUS
<1> HIDE DEF d
<1>6. /\ d.via = IF marking /\ d.semlog THEN current ELSE None
      /\ d.on # d.logger => d.on = "root" /\ propagates
      /\ d.on = "lib" => ~ propagates
      /\ d.pos \in 1 .. Len(s) + 1 /\ d.pos > Len(s)
      /\ \A h \in Handlers : d.got[h] = IF Served(d, h, attached) THEN 1 ELSE 0
  BY <1>3, <1>5 DEF Undisturbed
<1>7. d.pos = Len(s) + 1
  BY <1>4, <1>6
<1>8. s = <<>> <=> d.pos = 1
  BY <1>4, <1>7
<1>9. ASSUME NEW h \in Handlers
      PROVE  Served(d, h, attached) <=>
              \/ h = d.via
              \/ /\ \E j \in 1 .. Len(s) : s[j] = h
                 /\ ~ (d.via # None /\ h \in Rendering)
              \/ h = LastResort /\ s = <<>> /\ d.via = None
  <2>1. d.pos - 1 = Len(s) /\ \A j \in 1 .. Len(s) : j <= Len(s)
    BY <1>4, <1>7
  <2> QED BY <1>5, <1>8, <2>1 DEF Served
<1> QED BY <1>1, <1>3, <1>4, <1>6, <1>7, <1>9 DEF d

\* Its chain is the list it ended in.
LEMMA ChainIsLast ==
  ASSUME Routing, NEW d \in Dispatch, d.on # d.logger => d.on = "root" /\ propagates,
         d.on = "lib" => ~ propagates
  PROVE  Chain(d.logger) = {attached[d.on][j] : j \in 1 .. Len(attached[d.on])}
<1>1. d.on \in {"lib", "root"} /\ d.logger \in {"lib", "root"}
  BY DEF Dispatch, Loggers
<1>2. \A l \in Loggers : DOMAIN attached[l] = 1 .. Len(attached[l])
  BY DEF Routing, TypeOK
<1>3. propagates => Len(attached["lib"]) = 0
  BY DEF Routing, Lists, Orderly
<1>4. CASE d.on = d.logger
  BY <1>1, <1>2, <1>4 DEF Chain, Loggers
<1>5. CASE d.on # d.logger
  <2>1. d.logger = "lib" /\ d.on = "root" /\ propagates
    BY <1>1, <1>5
  <2>2. {attached["lib"][j] : j \in DOMAIN attached["lib"]} = {}
    BY <1>2, <1>3, <2>1 DEF Loggers
  <2> QED BY <1>2, <2>1, <2>2 DEF Chain, Loggers
<1> QED BY <1>4, <1>5

\* The pipelines that had a record are those of its chain, and its own.
LEMMA LinesOver ==
  ASSUME Routing, NEW t \in Threads, NEW i \in DOMAIN stack[t], stack[t][i].at = "done",
         stack[t][i].calm
  PROVE  LET d == stack[t][i]
             s == attached[d.on]
         IN
         /\ Has(s, Foreign) /\ d.via = None => NoLine(d)
         /\ Has(s, Foreign) /\ d.via \in Pipelines => OneLine(d)
         /\ \A c \in Pipelines : s = <<c>> /\ d.via = None => OneLine(d)
<1> DEFINE d == stack[t][i]
           s == attached[d.on]
<1>1. /\ \A h \in Handlers : d.got[h] = IF Served(d, h, attached) THEN 1 ELSE 0
      /\ \A h \in Handlers : Served(d, h, attached) <=>
              \/ h = d.via
              \/ /\ \E j \in 1 .. Len(s) : s[j] = h
                 /\ ~ (d.via # None /\ h \in Rendering)
              \/ h = LastResort /\ s = <<>> /\ d.via = None
  BY WalkOver
<1> HIDE DEF d
<1>2. \A h \in Pipelines : h \in Handlers /\ h # LastResort /\ h # None /\ h \notin Foreign
  BY Apart
<1>3. ASSUME Has(s, Foreign), NEW h \in Pipelines
      PROVE  d.got[h] = IF h = d.via THEN 1 ELSE 0
  <2>1. \A j \in 1 .. Len(s) : s[j] # h
    BY <1>2, <1>3 DEF Has
  <2>2. Served(d, h, attached) <=> h = d.via
    BY <1>1, <1>2, <2>1
  <2> QED BY <1>1, <1>2, <2>2
<1>4. Has(s, Foreign) /\ d.via = None => NoLine(d)
  BY <1>2, <1>3 DEF NoLine
<1>5. Has(s, Foreign) /\ d.via \in Pipelines => OneLine(d)
  BY <1>3 DEF OneLine
<1>6. ASSUME NEW c \in Pipelines, s = <<c>>, d.via = None PROVE OneLine(d)
  <2>1. Len(s) = 1 /\ s[1] = c
    BY <1>6
  <2>2. ASSUME NEW h \in Pipelines PROVE d.got[h] = IF h = c THEN 1 ELSE 0
    <3>1. (\E j \in 1 .. Len(s) : s[j] = h) <=> h = c
      BY <2>1
    <3>2. Served(d, h, attached) <=> h = c
      BY <1>1, <1>2, <1>6, <3>1
    <3> QED BY <1>1, <1>2, <3>2
  <2> QED BY <2>2 DEF OneLine
<1> QED BY <1>4, <1>5, <1>6 DEF d

\* LM-003, LM-005: a record whose dispatch no configure() overlaps is one JSON line
\* where the mode says, and none elsewhere, after any calls of configure() before.
THEOREM LinesOnce == Spec => []JsonOnce
<1>1. Routing => JsonOnce
  <2> SUFFICES ASSUME Routing, NEW t \in Threads, NEW i \in DOMAIN stack[t],
                      stack[t][i].at = "done", stack[t][i].calm
               PROVE  LET d == stack[t][i] IN
                      /\ mode = "hybrid" => IF d.semlog THEN OneLine(d) ELSE NoLine(d)
                      /\ mode = "full" /\ current # None =>
                           IF d.logger = "root" \/ propagates THEN OneLine(d) ELSE NoLine(d)
                      /\ mode = "off" =>
                           /\ ~ Routed(d)
                           /\ IF current \in Chain(d.logger) THEN OneLine(d) ELSE NoLine(d)
    BY DEF JsonOnce, Over
  <2> DEFINE d == stack[t][i]
             s == attached[d.on]
  <2>1. /\ Quiet /\ d \in Dispatch
        /\ d.via = IF marking /\ d.semlog THEN current ELSE None
        /\ d.on # d.logger => d.on = "root" /\ propagates
        /\ d.on = "lib" => ~ propagates
    BY WalkOver
  <2>2. /\ Has(s, Foreign) /\ d.via = None => NoLine(d)
        /\ Has(s, Foreign) /\ d.via \in Pipelines => OneLine(d)
        /\ \A c \in Pipelines : s = <<c>> /\ d.via = None => OneLine(d)
    BY LinesOver
  <2>3. Has(attached["lib"], Foreign) /\ current \in Pipelines \cup {None}
        /\ d.on \in {"lib", "root"} /\ d.logger \in {"lib", "root"}
    BY <2>1 DEF Routing, Lists, Orderly, TypeOK, Dispatch, Loggers
  <2>4. /\ mode = "hybrid" => /\ marking /\ armed /\ current # None
                              /\ Has(attached["root"], Foreign)
        /\ mode # "hybrid" => ~ marking
        /\ mode = "full" /\ current # None => attached["root"] = <<current>>
    BY <2>1 DEF Routing, Settled
  <2> HIDE DEF d
  <2>5. ASSUME mode = "hybrid" PROVE IF d.semlog THEN OneLine(d) ELSE NoLine(d)
    BY <2>1, <2>2, <2>3, <2>4, <2>5
  <2>6. ASSUME mode = "full", current # None
        PROVE  IF d.logger = "root" \/ propagates THEN OneLine(d) ELSE NoLine(d)
    <3>1. d.via = None
      BY <2>1, <2>4, <2>6
    <3>2. d.on = "root" <=> d.logger = "root" \/ propagates
      BY <2>1, <2>3
    <3>3. CASE d.on = "root"
      BY <2>2, <2>3, <2>4, <2>6, <3>1, <3>2, <3>3
    <3>4. CASE d.on = "lib"
      BY <2>2, <2>3, <3>1, <3>2, <3>4
    <3> QED BY <2>3, <3>3, <3>4
  <2>7. ASSUME mode = "off"
        PROVE  ~ Routed(d) /\ IF current \in Chain(d.logger) THEN OneLine(d) ELSE NoLine(d)
    <3>1. d.via = None
      BY <2>1, <2>4, <2>7
    <3>2. Has(s, Foreign) \/ s = <<current>>
      BY <2>1, <2>3 DEF Routing, Lists, Quiet
    <3>3. Chain(d.logger) = {s[j] : j \in 1 .. Len(s)}
      BY <2>1, ChainIsLast
    <3>4. CASE Has(s, Foreign)
      <4>1. current \notin Foreign
        BY <2>3, Apart DEF Foreign, Handlers
      <4>2. s \in Seq(Handlers)
        BY <2>3 DEF Routing, TypeOK, Loggers
      <4>3. current \notin Chain(d.logger)
        BY <3>3, <3>4, <4>1, <4>2 DEF Has
      <4> QED BY <2>2, <3>1, <3>4, <4>3 DEF Routed
    <3>5. CASE s = <<current>>
      <4>0. s \in Seq(Handlers)
        BY <2>3 DEF Routing, TypeOK, Loggers
      <4> HIDE DEF s
      <4>1. 1 \in 1 .. Len(s) /\ s[1] = current
        BY <3>5
      <4>2. current \in Handlers
        BY <4>0, <4>1, ElementOfSeq
      <4>3. current \in Pipelines
        BY <2>3, <4>2, Apart
      <4>4. current \in Chain(d.logger)
        BY <3>3, <4>1
      <4> QED BY <2>2, <3>1, <3>5, <4>3, <4>4 DEF Routed
    <3> QED BY <3>2, <3>4, <3>5
  <2> QED BY <2>5, <2>6, <2>7 DEF d
<1> QED BY <1>1, RoutingHolds, PTL

\* LM-003: in hybrid mode each handler of the application has each record once, but
\* for StreamHandlers and marked records.
THEOREM NobodyElseNotices == Spec => []LegacyUnchanged
<1>1. Routing => LegacyUnchanged
  <2> SUFFICES ASSUME Routing, NEW t \in Threads, NEW i \in DOMAIN stack[t],
                      stack[t][i].at = "done", stack[t][i].calm, mode = "hybrid"
               PROVE  LET d == stack[t][i]
                          shown(h) == IF d.semlog /\ h \in Rendering THEN 0 ELSE 1
                      IN
                      /\ \A h \in Chain(d.logger) : d.got[h] = shown(h)
                      /\ Chain(d.logger) = {} => d.got[LastResort] = shown(LastResort)
    BY DEF LegacyUnchanged, Over
  <2> DEFINE d == stack[t][i]
             s == attached[d.on]
             shown(h) == IF d.semlog /\ h \in Rendering THEN 0 ELSE 1
  <2>1. /\ Quiet /\ d \in Dispatch
        /\ d.via = IF marking /\ d.semlog THEN current ELSE None
        /\ d.on # d.logger => d.on = "root" /\ propagates
        /\ d.on = "lib" => ~ propagates
        /\ s \in Seq(Handlers) /\ Len(s) \in Nat
        /\ \A h \in Handlers : d.got[h] = IF Served(d, h, attached) THEN 1 ELSE 0
        /\ \A h \in Handlers : Served(d, h, attached) <=>
              \/ h = d.via
              \/ /\ \E j \in 1 .. Len(s) : s[j] = h
                 /\ ~ (d.via # None /\ h \in Rendering)
              \/ h = LastResort /\ s = <<>> /\ d.via = None
    BY WalkOver
  <2>2. marking /\ current # None /\ Has(attached["root"], Foreign)
    BY <2>1 DEF Routing, Settled
  <2>3. Has(s, Foreign)
    BY <2>1, <2>2 DEF Routing, Lists, Orderly, Dispatch, Loggers
  <2>4. Chain(d.logger) = {s[j] : j \in 1 .. Len(s)}
    BY <2>1, ChainIsLast
  <2>5. d.via # None <=> d.semlog
    BY <2>1, <2>2
  <2>6. d.via \in Pipelines \cup {None}
    BY <2>1 DEF Dispatch
  <2> HIDE DEF d, s
  <2>7. ASSUME NEW h \in Chain(d.logger) PROVE d.got[h] = shown(h)
    <3>1. PICK j \in 1 .. Len(s) : h = s[j]
      BY <2>4, <2>7
    <3>2. h \in Foreign /\ h \in Handlers /\ h # d.via /\ h # LastResort
      BY <2>3, <2>6, <3>1, Apart DEF Has
    <3>3. Served(d, h, attached) <=> ~ (d.semlog /\ h \in Rendering)
      BY <2>1, <2>5, <3>1, <3>2
    <3> QED BY <2>1, <3>2, <3>3
  <2>8. ASSUME Chain(d.logger) = {} PROVE d.got[LastResort] = shown(LastResort)
    <3>1. s = <<>>
      <4>1. \A j \in 1 .. Len(s) : FALSE
        BY <2>4, <2>8
      <4>2. Len(s) = 0
        BY <2>1, <4>1
      <4> QED BY <2>1, <4>2
    <3>2. LastResort \in Handlers /\ LastResort \in Rendering /\ LastResort # d.via
      BY <2>6, Apart
    <3>3. Len(s) = 0
      BY <3>1
    <3>4. Served(d, LastResort, attached) <=> ~ d.semlog
      BY <2>1, <2>5, <3>1, <3>2, <3>3
    <3> QED BY <2>1, <3>2, <3>4
  <2> QED BY <2>7, <2>8 DEF d
<1> QED BY <1>1, RoutingHolds, PTL

\* While configure() rearranges the handlers, a record that is not routed meets none
\* of them twice, and one pipeline at most.
THEOREM MetOnce == Spec => []OnceEach
<1>1. Routing => OnceEach
  <2> SUFFICES ASSUME Routing, NEW t \in Threads, NEW i \in DOMAIN stack[t],
                      ~ Routed(stack[t][i])
               PROVE  /\ NoLine(stack[t][i]) \/ OneLine(stack[t][i])
                      /\ \A h \in Handlers : stack[t][i].got[h] <= 1
    BY DEF OnceEach
  <2>1. i \in 1 .. Len(stack[t])
    BY DEF Routing, TypeOK
  <2>2. OnItsWay(stack[t][i], attached)
    BY <2>1 DEF Routing, Dispatches, Good
  <2> QED BY <2>2 DEF OnItsWay, Routed
<1> QED BY <1>1, RoutingHolds, PTL
=============================================================================
