----------------------------- MODULE ScopesProofs -----------------------------
(***************************************************************************)
(* Scopes: whatever code runs in a context sees the snapshot of the        *)
(* innermost scope there, and tokens implement a stack of snapshots; for   *)
(* any threads, requests, operations and tasks, nested to any depth and    *)
(* with any number of changes of mode.                                     *)
(***************************************************************************)
EXTENDS Scopes, Facts

-----------------------------------------------------------------------------
(* What a sequence has of a set, position by position.                     *)

IsAmong(f, s, S, n) ==
  f = [i \in 0 .. n |->
         IF i = 0 THEN <<>>
         ELSE IF s[i] \in S THEN Append(f[i - 1], s[i]) ELSE f[i - 1]]

LEMMA AmongExists ==
  ASSUME NEW s, NEW S, NEW n \in Nat
  PROVE  \E f : IsAmong(f, s, S, n)
<1> DEFINE T == {k \in Nat : \E f : IsAmong(f, s, S, k)}
<1>1. 0 \in T
  <2>1. IsAmong([i \in 0 .. 0 |-> <<>>], s, S, 0)
    BY DEF IsAmong
  <2> QED BY <2>1
<1>2. ASSUME NEW k \in Nat, k \in T PROVE k + 1 \in T
  <2>1. PICK f : IsAmong(f, s, S, k)
    BY <1>2
  <2> DEFINE x == IF s[k + 1] \in S THEN Append(f[k], s[k + 1]) ELSE f[k]
             g == [i \in 0 .. k + 1 |-> IF i = k + 1 THEN x ELSE f[i]]
  <2>2. ASSUME NEW i \in 0 .. k + 1
        PROVE  g[i] = IF i = 0 THEN <<>>
                      ELSE IF s[i] \in S THEN Append(g[i - 1], s[i]) ELSE g[i - 1]
    <3>1. CASE i = k + 1
      <4>1. i # 0 /\ i - 1 = k /\ k \in 0 .. k + 1 /\ k # k + 1
        BY <3>1
      <4>2. g[i] = x /\ g[i - 1] = f[k]
        BY <3>1, <4>1
      <4> QED BY <3>1, <4>1, <4>2
    <3>2. CASE i = 0
      <4>1. 0 \in 0 .. k /\ 0 # k + 1
        OBVIOUS
      <4>2. f[0] = <<>>
        BY <2>1, <4>1 DEF IsAmong
      <4> QED BY <3>2, <4>1, <4>2
    <3>3. CASE i \in 1 .. k
      <4>1. i \in 0 .. k /\ i # 0 /\ i - 1 \in 0 .. k + 1 /\ i - 1 # k + 1 /\ i # k + 1
        BY <3>3
      <4>2. f[i] = IF s[i] \in S THEN Append(f[i - 1], s[i]) ELSE f[i - 1]
        BY <2>1, <4>1 DEF IsAmong
      <4>3. g[i] = f[i] /\ g[i - 1] = f[i - 1]
        BY <4>1
      <4> QED BY <4>1, <4>2, <4>3
    <3> QED BY <3>1, <3>2, <3>3
  <2>3. IsAmong(g, s, S, k + 1)
    <3>1. g = [i \in 0 .. k + 1 |-> g[i]]
      OBVIOUS
    <3> HIDE DEF g
    <3> QED BY <2>2, <3>1 DEF IsAmong
  <2> QED BY <2>3
<1> HIDE DEF T
<1>3. n \in T
  BY <1>1, <1>2, Induction
<1> QED BY <1>3 DEF T

LEMMA AmongStep ==
  ASSUME NEW s, NEW S, NEW n \in Nat, NEW f, IsAmong(f, s, S, n)
  PROVE  /\ f[0] = <<>>
         /\ \A i \in Nat : i + 1 <= n =>
              f[i + 1] = IF s[i + 1] \in S THEN Append(f[i], s[i + 1]) ELSE f[i]
<1>1. f[0] = <<>>
  <2>1. 0 \in 0 .. n
    OBVIOUS
  <2> QED BY <2>1 DEF IsAmong
<1>2. ASSUME NEW i \in Nat, i + 1 <= n
      PROVE  f[i + 1] = IF s[i + 1] \in S THEN Append(f[i], s[i + 1]) ELSE f[i]
  <2>1. i + 1 \in 0 .. n /\ i + 1 # 0 /\ i + 1 - 1 = i
    BY <1>2
  <2>2. \A j \in 0 .. n :
          f[j] = IF j = 0 THEN <<>>
                 ELSE IF s[j] \in S THEN Append(f[j - 1], s[j]) ELSE f[j - 1]
    BY Zenon DEF IsAmong
  <2> QED BY <2>1, <2>2
<1> QED BY <1>1, <1>2

LEMMA AmongIs ==
  ASSUME NEW s, Len(s) \in Nat, NEW S
  PROVE  \E f : IsAmong(f, s, S, Len(s)) /\ Among(s, S) = f[Len(s)]
<1> DEFINE upTo == CHOOSE f : f = [i \in 0 .. Len(s) |->
                     IF i = 0 THEN <<>>
                     ELSE IF s[i] \in S THEN Append(f[i - 1], s[i]) ELSE f[i - 1]]
<1>1. Among(s, S) = IF s = <<>> THEN <<>> ELSE upTo[Len(s)]
  BY DEF Among
<1>2. \E f : IsAmong(f, s, S, Len(s))
  BY AmongExists
<1>3. IsAmong(upTo, s, S, Len(s))
  BY <1>2 DEF IsAmong
<1> HIDE DEF upTo
<1>4. CASE s = <<>>
  <2>1. upTo[0] = <<>>
    <3>1. 0 \in 0 .. Len(s)
      OBVIOUS
    <3> QED BY <1>3, <3>1 DEF IsAmong
  <2>2. Len(s) = 0
    BY <1>4
  <2> QED BY <1>1, <1>3, <1>4, <2>1, <2>2
<1>5. CASE s # <<>>
  BY <1>1, <1>3, <1>5
<1> QED BY <1>4, <1>5

\* Two sequences that agree up to k, in what they have and in what is selected, agree in
\* what is selected up to k.
LEMMA AmongAgree ==
  ASSUME NEW s, NEW S, NEW m \in Nat, NEW f, IsAmong(f, s, S, m),
         NEW u, NEW U, NEW n \in Nat, NEW g, IsAmong(g, u, U, n),
         NEW k \in Nat, k <= m, k <= n,
         \A i \in 1 .. k : s[i] = u[i] /\ (s[i] \in S <=> u[i] \in U)
  PROVE  f[k] = g[k]
<1> DEFINE T == {i \in Nat : i <= k => f[i] = g[i]}
<1>1. 0 \in T
  <2>1. 0 \in 0 .. m /\ 0 \in 0 .. n
    OBVIOUS
  <2>2. f[0] = <<>> /\ g[0] = <<>>
    BY <2>1 DEF IsAmong
  <2> QED BY <2>2
<1>2. ASSUME NEW i \in Nat, i \in T PROVE i + 1 \in T
  <2> SUFFICES ASSUME i + 1 <= k PROVE f[i + 1] = g[i + 1]
    OBVIOUS
  <2>1. i + 1 \in 0 .. m /\ i + 1 \in 0 .. n /\ i + 1 # 0 /\ i + 1 \in 1 .. k /\ i <= k /\ i + 1 - 1 = i
    OBVIOUS
  <2>2. f[i + 1] = IF s[i + 1] \in S THEN Append(f[i], s[i + 1]) ELSE f[i]
    BY <2>1, AmongStep
  <2>3. g[i + 1] = IF u[i + 1] \in U THEN Append(g[i], u[i + 1]) ELSE g[i]
    BY <2>1, AmongStep
  <2> QED BY <1>2, <2>1, <2>2, <2>3
<1> HIDE DEF T
<1>3. k \in T
  BY <1>1, <1>2, Induction
<1> QED BY <1>3 DEF T

\* What is selected of a longer sequence, and of one whose members are selected alike.
LEMMA AmongAppend ==
  ASSUME NEW X, NEW s \in Seq(X), NEW x \in X, NEW S
  PROVE  Among(Append(s, x), S) = IF x \in S THEN Append(Among(s, S), x) ELSE Among(s, S)
<1> DEFINE t == Append(s, x)
           n == Len(s)
<1>1. n \in Nat /\ Len(t) = n + 1 /\ t[n + 1] = x /\ \A i \in 1 .. n : t[i] = s[i]
  OBVIOUS
<1> HIDE DEF t
<1>2. PICK f : IsAmong(f, s, S, n) /\ Among(s, S) = f[n]
  BY <1>1, AmongIs
<1>3. PICK g : IsAmong(g, t, S, n + 1) /\ Among(t, S) = g[n + 1]
  <2>1. Len(t) \in Nat
    BY <1>1
  <2>2. \E g : IsAmong(g, t, S, Len(t)) /\ Among(t, S) = g[Len(t)]
    BY <2>1, AmongIs, Zenon
  <2> QED BY <1>1, <2>2
<1> HIDE DEF n
<1>4. f[n] = g[n]
  BY <1>1, <1>2, <1>3, AmongAgree
<1>5. n + 1 \in Nat /\ n + 1 <= n + 1
  BY <1>1
<1>6. g[n + 1] = IF t[n + 1] \in S THEN Append(g[n], t[n + 1]) ELSE g[n]
  BY <1>1, <1>3, <1>5, AmongStep
<1> QED BY <1>1, <1>2, <1>3, <1>4, <1>6 DEF t

LEMMA AmongSame ==
  ASSUME NEW X, NEW s \in Seq(X), NEW S, NEW U,
         \A i \in 1 .. Len(s) : s[i] \in S <=> s[i] \in U
  PROVE  Among(s, S) = Among(s, U)
<1>1. Len(s) \in Nat /\ Len(s) <= Len(s)
  OBVIOUS
<1>2. PICK f : IsAmong(f, s, S, Len(s)) /\ Among(s, S) = f[Len(s)]
  BY <1>1, AmongIs
<1>3. PICK g : IsAmong(g, s, U, Len(s)) /\ Among(s, U) = g[Len(s)]
  BY <1>1, AmongIs
<1> DEFINE n == Len(s)
<1>4. n \in Nat /\ n <= n /\ IsAmong(f, s, S, n) /\ IsAmong(g, s, U, n)
      /\ \A i \in 1 .. n : s[i] = s[i] /\ (s[i] \in S <=> s[i] \in U)
  BY <1>1, <1>2, <1>3
<1> HIDE DEF n
<1>5. f[n] = g[n]
  BY <1>4, AmongAgree
<1> QED BY <1>2, <1>3, <1>5 DEF n

LEMMA AmongNone ==
  ASSUME NEW S
  PROVE  Among(<<>>, S) = <<>>
<1>1. Len(<<>>) = 0
  OBVIOUS
<1>2. PICK f : IsAmong(f, <<>>, S, 0) /\ Among(<<>>, S) = f[0]
  BY <1>1, AmongIs
<1>3. 0 \in 0 .. 0
  OBVIOUS
<1>4. f[0] = <<>>
  BY <1>2, <1>3 DEF IsAmong
<1> QED BY <1>2, <1>4

\* What is selected is what is in both, once if it was there once.
Within(s, x) == \E i \in 1 .. Len(s) : s[i] = x
Distinct(s)  == \A i, j \in 1 .. Len(s) : s[i] = s[j] => i = j

LEMMA AmongContents ==
  ASSUME NEW X, NEW s \in Seq(X), NEW S
  PROVE  /\ Among(s, S) \in Seq(X)
         /\ \A x : Within(Among(s, S), x) <=> x \in S /\ Within(s, x)
         /\ Distinct(s) => Distinct(Among(s, S))
<1>1. Len(s) \in Nat /\ Len(s) <= Len(s) /\ \A i \in 1 .. Len(s) : s[i] \in X
  OBVIOUS
<1>2. PICK f : IsAmong(f, s, S, Len(s)) /\ Among(s, S) = f[Len(s)]
  BY <1>1, AmongIs
<1> DEFINE Has(q, k) == \A x : Within(q, x) <=> x \in S /\ \E i \in 1 .. k : s[i] = x
           T == {k \in Nat : k <= Len(s) =>
                   f[k] \in Seq(X) /\ Has(f[k], k) /\ (Distinct(s) => Distinct(f[k]))}
<1>3. 0 \in T
  <2>a. 0 \in 0 .. Len(s)
    BY <1>1
  <2>1. f[0] = <<>>
    BY <1>2, <2>a DEF IsAmong
  <2>2. <<>> \in Seq(X) /\ Has(<<>>, 0) /\ Distinct(<<>>)
    BY DEF Within, Distinct
  <2> QED BY <2>1, <2>2
<1>4. ASSUME NEW k \in Nat, k \in T PROVE k + 1 \in T
  <2> DEFINE n == k + 1
             q == f[k]
             x == s[n]
  <2> SUFFICES ASSUME n <= Len(s)
               PROVE  f[n] \in Seq(X) /\ Has(f[n], n) /\ (Distinct(s) => Distinct(f[n]))
    OBVIOUS
  <2>1. n \in 1 .. Len(s) /\ k <= Len(s) /\ x \in X /\ n \notin 1 .. k
        /\ \A i : i \in 1 .. n <=> i \in 1 .. k \/ i = n
    BY <1>1
  <2>2. f[n] = IF x \in S THEN Append(q, x) ELSE q
    BY <1>1, <1>2, AmongStep
  <2>3. q \in Seq(X) /\ Has(q, k) /\ (Distinct(s) => Distinct(q))
    BY <1>4, <2>1
  <2> HIDE DEF n, q, x
  <2>4. CASE x \notin S
    <3>1. f[n] = q
      BY <2>2, <2>4
    <3>2. Has(q, n)
      BY <2>1, <2>3, <2>4 DEF x
    <3> QED BY <2>3, <3>1, <3>2
  <2>5. CASE x \in S
    <3> DEFINE r == Append(q, x)
    <3>1. f[n] = r
      BY <2>2, <2>5
    <3>2. r \in Seq(X) /\ Len(q) \in Nat /\ Len(r) = Len(q) + 1 /\ r[Len(q) + 1] = x
          /\ (\A i \in 1 .. Len(q) : r[i] = q[i])
          /\ \A i : i \in 1 .. Len(r) <=> i \in 1 .. Len(q) \/ i = Len(q) + 1
      BY <2>1, <2>3
    <3> HIDE DEF r
    <3>3. \A y : Within(r, y) <=> Within(q, y) \/ y = x
      BY <3>2 DEF Within
    <3>4. Has(r, n)
      BY <2>1, <2>3, <2>5, <3>3 DEF x
    <3>5. ASSUME Distinct(s) PROVE Distinct(r)
      <4>1. ~ Within(q, x)
        <5>1. \A i \in 1 .. k : i \in 1 .. Len(s) /\ i # n
          BY <2>1
        <5>2. \A i \in 1 .. k : s[i] # x
          BY <2>1, <3>5, <5>1 DEF Distinct, x
        <5> QED BY <2>3, <5>2
      <4> QED BY <2>3, <3>2, <3>5, <4>1 DEF Distinct, Within
    <3> QED BY <3>1, <3>2, <3>4, <3>5
  <2> QED BY <2>4, <2>5
<1> HIDE DEF T
<1>5. Len(s) \in T
  BY <1>1, <1>3, <1>4, Induction
<1> QED BY <1>1, <1>2, <1>5 DEF T, Within

-----------------------------------------------------------------------------
(* The invariant.                                                          *)

\* Code runs once, and where it belongs: a request's in its place while it is in progress
\* (a WSGI body that was never taken leaves it there), a task's while it runs; what runs in
\* the context of a request runs inside it.
Placed ==
  /\ \A c \in Contexts : Distinct(open[c])
  /\ \A c, d \in Contexts : \A s \in Scopes :
       Within(open[c], s) /\ Within(open[d], s) => c = d
  /\ \A c \in Contexts : \A r \in Requests : Within(open[c], r) =>
       /\ c = Where(r)
       /\ \/ rpc[r] \in {"inside", "streaming"}
          \/ kind[r] = "wsgi" /\ rpc[r] \in {"body", "done"}
  /\ \A c \in Contexts : \A t \in Tasks : Within(open[c], t) => tpc[t] = "running"
  /\ \A r \in Requests : open[r] # <<>> => open[r][1] = r
  /\ \A r \in Requests : rpc[r] \in {"inside", "streaming"} => home[r] \in Threads

\* Who has pushed has a token, and who has not begun or has left has none.
Held ==
  /\ \A r \in Requests : rpc[r] = "new" => token[r] = None /\ bound[r] = None
  /\ \A t \in Tasks : token[t] # None => tpc[t] = "running"
  /\ \A r \in Requests :
       rpc[r] = "streaming" \/ (rpc[r] = "body" /\ kind[r] = "wsgi") => token[r] # None
  /\ \A c \in Contexts : \A r \in Requests \ dark : Within(open[c], r) => token[r] # None

\* _scopes has a task exactly while its scope is open, under the id of its request.
Registered ==
  /\ \A i \in Ids : scopes[i] # None =>
       tpc[scopes[i]] = "running" /\ idOf[scopes[i]] = i /\ token[scopes[i]] # None
  /\ \A t \in Tasks : tpc[t] = "running" =>
       idOf[t] \in Ids /\ (token[t] # None => scopes[idOf[t]] = t)
  /\ \A t, u \in Tasks :
       tpc[t] = "running" /\ tpc[u] = "running" /\ idOf[t] = idOf[u] => t = u

\* A message has the trace of the code that published it.
Carried ==
  /\ \A t \in Tasks : tpc[t] = "new" => header[t] = None
  /\ \A t \in Tasks : tpc[t] = "sent" => header[t] = origin[t]

\* Snapshot x is what scope i of the chain s may see: its own span, attributes bound in it
\* or around it, and the trace it was called with.
Own(x, s, i, began) ==
  /\ x # None /\ x.span = s[i]
  /\ \A a \in x.attributes : \E j \in 1 .. i : a = s[j]
  /\ s[i] \in Tasks /\ began[s[i]] # None => x.trace = began[s[i]]

\* The tokens of the scopes open in a context form a chain: each was made here, the
\* first puts back nothing, each later one what the scope before it sees.
Chain(c) ==
  /\ Scoping(c) = <<>> => bound[c] = None
  /\ \A i \in 1 .. Len(Scoping(c)) :
       /\ token[Scoping(c)[i]].at = c
       /\ i = 1 => token[Scoping(c)[i]].old = None
       /\ Own(StackOf(c)[i], Scoping(c), i, origin)
Chained == \A c \in Contexts : CodeRuns(c) => Chain(c)

\* What a request may say of itself before it is over.
Silent ==
  /\ \A r \in Requests : rpc[r] # "done" => events[r] = <<>>
  /\ \A r \in Requests : stashed[r] => kind[r] = "django" /\ rpc[r] # "new"
  /\ \A r \in Requests \ dark : InProgress(r) => ~ off

ScopesInv == /\ ScopesTypeOK /\ Placed /\ Held /\ Registered /\ Carried
             /\ Chained /\ Silent /\ OneEvent

-----------------------------------------------------------------------------
(* What a step does to the scopes of a context.                            *)

LEMMA Types ==
  ASSUME ScopesTypeOK, NEW c \in Contexts
  PROVE  /\ open[c] \in Seq(Scopes) /\ Len(open[c]) \in Nat
         /\ \A i \in 1 .. Len(open[c]) : open[c][i] \in Scopes
         /\ bound[c] \in Snapshot \cup {None}
         /\ \A s \in Scopes : token[s] \in Token \cup {None}
<1>1. open[c] \in Seq(Scopes)
  BY DEF ScopesTypeOK
<1> QED BY <1>1 DEF ScopesTypeOK

Bound(tok) == {s \in Scopes : tok[s] # None}

LEMMA ScopingIs == \A c : Scoping(c) = Among(open[c], Bound(token))
BY DEF Scoping, Scoped, Bound

LEMMA ScopingNext == \A c : Scoping(c)' = Among(open'[c], Bound(token'))
BY DEF Scoping, Scoped, Bound

\* The chain of a context has its scopes that are bound, each once.
LEMMA ScopingShape ==
  ASSUME ScopesTypeOK, NEW c \in Contexts
  PROVE  /\ Scoping(c) \in Seq(Scopes) /\ Len(Scoping(c)) \in Nat
         /\ \A i \in 1 .. Len(Scoping(c)) :
              Scoping(c)[i] \in Scopes /\ token[Scoping(c)[i]] \in Token
         /\ \A s : Within(Scoping(c), s) <=> s \in Bound(token) /\ Within(open[c], s)
         /\ Distinct(open[c]) => Distinct(Scoping(c))
<1>1. /\ Scoping(c) \in Seq(Scopes)
      /\ \A s : Within(Scoping(c), s) <=> s \in Bound(token) /\ Within(open[c], s)
      /\ Distinct(open[c]) => Distinct(Scoping(c))
  BY Types, ScopingIs, AmongContents
<1>2. Len(Scoping(c)) \in Nat /\ \A i \in 1 .. Len(Scoping(c)) : Scoping(c)[i] \in Scopes
  BY <1>1
<1>3. \A i \in 1 .. Len(Scoping(c)) : token[Scoping(c)[i]] \in Token
  <2> SUFFICES ASSUME NEW i \in 1 .. Len(Scoping(c)) PROVE token[Scoping(c)[i]] \in Token
    OBVIOUS
  <2>1. Within(Scoping(c), Scoping(c)[i])
    BY DEF Within
  <2>2. Scoping(c)[i] \in Scopes /\ token[Scoping(c)[i]] # None
    BY <1>1, <2>1 DEF Bound
  <2> QED BY <2>2, Types
<1> QED BY <1>1, <1>2, <1>3

\* A context whose code stays, and in which nobody's token comes or goes, keeps its chain.
LEMMA ScopingStays ==
  ASSUME ScopesTypeOK, NEW c \in Contexts, open'[c] = open[c],
         \A s \in Scopes : Within(open[c], s) => (token'[s] # None <=> token[s] # None)
  PROVE  Scoping(c)' = Scoping(c)
<1>1. \A i \in 1 .. Len(open[c]) : open[c][i] \in Bound(token) <=> open[c][i] \in Bound(token')
  BY Types DEF Bound, Within
<1>2. Among(open[c], Bound(token)) = Among(open[c], Bound(token'))
  BY <1>1, Types, AmongSame
<1> QED BY <1>2, ScopingIs, ScopingNext

\* The code of a scope that runs nowhere begins.
LEMMA ScopingStarts ==
  ASSUME ScopesTypeOK, NEW c \in Contexts, NEW s \in Scopes, Starts(c, s),
         \A d \in Contexts : ~ Within(open[d], s),
         \A o \in Scopes : o # s => token'[o] = token[o]
  PROVE  /\ Scoping(c)' = IF token'[s] # None THEN Append(Scoping(c), s) ELSE Scoping(c)
         /\ \A d \in Contexts : d # c => Scoping(d)' = Scoping(d)
         /\ open'[c] = Append(open[c], s) /\ \A d \in Contexts : d # c => open'[d] = open[d]
<1>1. open'[c] = Append(open[c], s) /\ \A d \in Contexts : d # c => open'[d] = open[d]
  BY DEF Starts, ScopesTypeOK
<1>2. \A d \in Contexts : d # c => Scoping(d)' = Scoping(d)
  BY <1>1, ScopingStays
<1>3. \A i \in 1 .. Len(open[c]) : open[c][i] \in Bound(token) <=> open[c][i] \in Bound(token')
  BY Types DEF Bound, Within
<1>4. Among(open[c], Bound(token)) = Among(open[c], Bound(token'))
  BY <1>3, Types, AmongSame
<1>5. Among(open'[c], Bound(token')) =
        IF s \in Bound(token') THEN Append(Among(open[c], Bound(token')), s)
                               ELSE Among(open[c], Bound(token'))
  <2>1. PICK q \in Seq(Scopes) : q = open[c]
    BY Types
  <2>2. PICK S : S = Bound(token')
    OBVIOUS
  <2>3. Among(Append(q, s), S) = IF s \in S THEN Append(Among(q, S), s) ELSE Among(q, S)
    BY AmongAppend
  <2> QED BY <1>1, <2>1, <2>2, <2>3
<1> QED BY <1>1, <1>2, <1>4, <1>5, ScopingIs, ScopingNext DEF Bound

\* A sequence and its end.
LEMMA Appended ==
  ASSUME NEW X, NEW p \in Seq(X), NEW y \in X
  PROVE  /\ Append(p, y) \in Seq(X) /\ Append(p, y) # <<>>
         /\ Len(p) \in Nat /\ Len(Append(p, y)) = Len(p) + 1 /\ Append(p, y)[Len(p) + 1] = y
         /\ \A i \in 1 .. Len(p) : Append(p, y)[i] = p[i]
OBVIOUS


\* A sequence that is not empty, seen from its end.
LEMMA FrontLast ==
  ASSUME NEW X, NEW q \in Seq(X), q # <<>>
  PROVE  /\ Front(q) \in Seq(X) /\ Last(q) \in X
         /\ q = Append(Front(q), Last(q))
         /\ Len(q) \in Nat /\ Len(q) >= 1 /\ Len(Front(q)) = Len(q) - 1
         /\ \A i \in 1 .. Len(q) - 1 : Front(q)[i] = q[i]
         /\ Last(q) = q[Len(q)]
<1>1. Len(q) \in Nat /\ Len(q) >= 1
  OBVIOUS
<1>2. /\ Front(q) \in Seq(X) /\ Len(Front(q)) = Len(q) - 1
      /\ \A i \in 1 .. Len(q) - 1 : Front(q)[i] = q[i]
  <2>1. Len(q) - 1 \in Nat /\ \A i \in 1 .. Len(q) - 1 : i \in 1 .. Len(q) /\ q[i] \in X
    BY <1>1
  <2>2. SubSeq(q, 1, Len(q) - 1) \in Seq(X)
    BY <2>1
  <2>3. Len(SubSeq(q, 1, Len(q) - 1)) = Len(q) - 1
    <3>1. \A n \in Nat : Len(SubSeq(q, 1, n)) = n
      <4> SUFFICES ASSUME NEW n \in Nat PROVE Len(SubSeq(q, 1, n)) = n
        OBVIOUS
      <4>1. CASE n = 0
        BY <4>1
      <4>2. CASE n >= 1
        BY <4>2
      <4> QED BY <4>1, <4>2
    <3> QED BY <2>1, <3>1
  <2>4. \A i \in 1 .. Len(q) - 1 : SubSeq(q, 1, Len(q) - 1)[i] = q[i]
    BY <2>1
  <2> QED BY <2>2, <2>3, <2>4 DEF Front
<1>3. Last(q) = q[Len(q)] /\ Last(q) \in X
  BY <1>1 DEF Last
<1>4. q = Append(Front(q), Last(q))
  <2>1. Append(Front(q), Last(q)) \in Seq(X) /\ Len(Append(Front(q), Last(q))) = Len(q)
    BY <1>1, <1>2, <1>3
  <2>2. \A i \in 1 .. Len(q) : Append(Front(q), Last(q))[i] = q[i]
    BY <1>1, <1>2, <1>3
  <2> QED BY <2>1, <2>2
<1> QED BY <1>1, <1>2, <1>3, <1>4

\* The innermost code of a context ends.
LEMMA ScopingEnds ==
  ASSUME ScopesTypeOK, Placed, NEW c \in Contexts, NEW s \in Scopes, Innermost(c, s), Ends(c),
         \A o \in Scopes : o # s => token'[o] = token[o]
  PROVE  /\ Scoping(c) = IF token[s] # None THEN Append(Scoping(c)', s) ELSE Scoping(c)'
         /\ \A d \in Contexts : d # c => Scoping(d)' = Scoping(d)
         /\ open[c] = Append(open'[c], s) /\ \A d \in Contexts : d # c => open'[d] = open[d]
         /\ open'[c] \in Seq(Scopes) /\ ~ Within(open'[c], s)
         /\ \A d \in Contexts : d # c => ~ Within(open[d], s)
<1> DEFINE q == open[c]
<1>1. open'[c] = Front(q) /\ \A d \in Contexts : d # c => open'[d] = open[d]
  BY DEF Ends, ScopesTypeOK
<1>2. q # <<>> /\ Last(q) = s /\ q \in Seq(Scopes)
  BY Types DEF Innermost
<1>3. /\ q = Append(open'[c], s) /\ open'[c] \in Seq(Scopes)
      /\ Len(q) \in Nat /\ Len(q) >= 1 /\ Len(open'[c]) = Len(q) - 1 /\ q[Len(q)] = s
      /\ \A i \in 1 .. Len(q) - 1 : open'[c][i] = q[i]
  BY <1>1, <1>2, FrontLast
<1>4. Within(q, s)
  BY <1>3 DEF Within
<1>5. \A d \in Contexts : d # c => ~ Within(open[d], s)
  BY <1>4 DEF Placed
<1>6. ~ Within(open'[c], s)
  <2>1. Distinct(q)
    BY DEF Placed
  <2> QED BY <1>3, <2>1 DEF Distinct, Within
<1>7. \A d \in Contexts : d # c => Scoping(d)' = Scoping(d)
  BY <1>1, <1>5, ScopingStays
<1>8. Among(q, Bound(token)) =
        IF s \in Bound(token) THEN Append(Among(open'[c], Bound(token)), s)
                              ELSE Among(open'[c], Bound(token))
  <2>1. PICK p \in Seq(Scopes) : p = open'[c]
    BY <1>3
  <2>2. PICK S : S = Bound(token)
    OBVIOUS
  <2>3. Among(Append(p, s), S) = IF s \in S THEN Append(Among(p, S), s) ELSE Among(p, S)
    BY AmongAppend
  <2> QED BY <1>3, <2>1, <2>2, <2>3
<1>9. Among(open'[c], Bound(token)) = Among(open'[c], Bound(token'))
  <2>1. \A i \in 1 .. Len(open'[c]) : open'[c][i] \in Scopes /\ open'[c][i] # s
    BY <1>3, <1>6 DEF Within
  <2>2. \A i \in 1 .. Len(open'[c]) :
          open'[c][i] \in Bound(token) <=> open'[c][i] \in Bound(token')
    BY <2>1 DEF Bound
  <2> QED BY <1>3, <2>2, AmongSame
<1> QED BY <1>1, <1>3, <1>5, <1>6, <1>7, <1>8, <1>9, ScopingIs, ScopingNext DEF Bound

-----------------------------------------------------------------------------
(* The stack of a context.                                                 *)

Values == Snapshot \cup {None}

LEMMA LayersShape ==
  ASSUME NEW s \in Seq(Scopes), NEW top \in Values, NEW tok,
         \A i \in 1 .. Len(s) : tok[s[i]] \in Token
  PROVE  /\ Layers(s, top, tok) \in Seq(Values) /\ Len(Layers(s, top, tok)) = Len(s)
         /\ \A i \in 1 .. Len(s) :
              Layers(s, top, tok)[i] = IF i = Len(s) THEN top ELSE tok[s[i + 1]].old
<1> DEFINE v(i) == IF i = Len(s) THEN top ELSE tok[s[i + 1]].old
<1>1. Len(s) \in Nat /\ DOMAIN s = 1 .. Len(s)
  OBVIOUS
<1>2. Layers(s, top, tok) = [i \in 1 .. Len(s) |-> v(i)]
  BY <1>1 DEF Layers
<1>3. \A i \in 1 .. Len(s) : v(i) \in Values
  <2> SUFFICES ASSUME NEW i \in 1 .. Len(s), i # Len(s) PROVE tok[s[i + 1]].old \in Values
    OBVIOUS
  <2>1. \A n \in Nat : \A k \in 1 .. n : k # n => k + 1 \in 1 .. n
    OBVIOUS
  <2>2. i + 1 \in 1 .. Len(s)
    BY <1>1, <2>1
  <2> QED BY <2>2 DEF Token, Values
<1> HIDE DEF v
<1>4. Layers(s, top, tok) \in Seq(Values) /\ Len(Layers(s, top, tok)) = Len(s)
      /\ \A i \in 1 .. Len(s) : Layers(s, top, tok)[i] = v(i)
  BY <1>1, <1>2, <1>3
<1> QED BY <1>4 DEF v

\* Only the tokens of the chain matter.
LEMMA SameLayers ==
  ASSUME NEW s \in Seq(Scopes), NEW top \in Values, NEW tok, NEW tok2,
         \A i \in 1 .. Len(s) : tok[s[i]] = tok2[s[i]]
  PROVE  Layers(s, top, tok) = Layers(s, top, tok2)
<1>1. Len(s) \in Nat /\ DOMAIN s = 1 .. Len(s)
  OBVIOUS
<1>2. \A n \in Nat : \A k \in 1 .. n : k # n => k + 1 \in 1 .. n
  OBVIOUS
<1>3. \A i \in 1 .. Len(s) : i # Len(s) => tok[s[i + 1]] = tok2[s[i + 1]]
  BY <1>1, <1>2
<1> QED BY <1>1, <1>3 DEF Layers

LEMMA StackShape ==
  ASSUME ScopesTypeOK, NEW c \in Contexts
  PROVE  /\ StackOf(c) \in Seq(Values) /\ Len(StackOf(c)) = Len(Scoping(c))
         /\ \A i \in 1 .. Len(Scoping(c)) :
              StackOf(c)[i] = IF i = Len(Scoping(c)) THEN bound[c]
                              ELSE token[Scoping(c)[i + 1]].old
<1>1. PICK s \in Seq(Scopes) : s = Scoping(c)
  BY ScopingShape
<1>2. PICK top \in Values : top = bound[c]
  BY Types DEF Values
<1>3. \A i \in 1 .. Len(s) : token[s[i]] \in Token
  BY <1>1, ScopingShape
<1>4. PICK tok : tok = token
  OBVIOUS
<1>5. /\ Layers(s, top, tok) \in Seq(Values) /\ Len(Layers(s, top, tok)) = Len(s)
      /\ \A i \in 1 .. Len(s) :
           Layers(s, top, tok)[i] = IF i = Len(s) THEN top ELSE tok[s[i + 1]].old
  BY <1>3, <1>4, LayersShape
<1> QED BY <1>1, <1>2, <1>4, <1>5 DEF StackOf

\* One more scope: its token has what was on top.
LEMMA LayersAppend ==
  ASSUME NEW s \in Seq(Scopes), NEW x \in Scopes, NEW top \in Values, NEW tok,
         \A i \in 1 .. Len(s) : tok[s[i]] \in Token, tok[x] \in Token
  PROVE  Layers(Append(s, x), top, tok) = Append(Layers(s, tok[x].old, tok), top)
<1> DEFINE n == Len(s)
           r == Append(s, x)
           below == tok[x].old
           p == Layers(s, below, tok)
           q == Layers(r, top, tok)
<1>1. /\ n \in Nat /\ r \in Seq(Scopes) /\ Len(r) = n + 1 /\ r[n + 1] = x
      /\ \A i \in 1 .. n : r[i] = s[i]
  OBVIOUS
<1>2. below \in Values
  BY DEF Token, Values
<1>3. \A i \in 1 .. Len(r) : tok[r[i]] \in Token
  <2>1. \A i \in 1 .. n + 1 : i \in 1 .. n \/ i = n + 1
    BY <1>1
  <2> QED BY <1>1, <2>1
<1> HIDE DEF below, r
<1>4. /\ p \in Seq(Values) /\ Len(p) = n
      /\ \A i \in 1 .. n : p[i] = IF i = n THEN below ELSE tok[s[i + 1]].old
  BY <1>2, LayersShape
<1>5. /\ q \in Seq(Values) /\ Len(q) = n + 1
      /\ \A i \in 1 .. n + 1 : q[i] = IF i = n + 1 THEN top ELSE tok[r[i + 1]].old
  BY <1>1, <1>3, LayersShape
<1> HIDE DEF p, q
<1>6. /\ Append(p, top) \in Seq(Values) /\ Len(Append(p, top)) = n + 1
      /\ Append(p, top)[n + 1] = top /\ \A i \in 1 .. n : Append(p, top)[i] = p[i]
  BY <1>1, <1>4
<1>7. \A i \in 1 .. n + 1 : q[i] = Append(p, top)[i]
  <2> SUFFICES ASSUME NEW i \in 1 .. n + 1 PROVE q[i] = Append(p, top)[i]
    OBVIOUS
  <2>1. CASE i = n + 1
    BY <1>1, <1>5, <1>6, <2>1
  <2>2. CASE i = n
    <3>1. i \in 1 .. n /\ i # n + 1
      BY <1>1, <2>2
    <3>2. q[i] = tok[x].old
      BY <1>1, <1>5, <2>2, <3>1
    <3>3. Append(p, top)[i] = below
      BY <1>4, <1>6, <2>2, <3>1
    <3> QED BY <3>2, <3>3 DEF below
  <2>3. CASE i \in 1 .. n - 1
    <3>1. i \in 1 .. n /\ i # n + 1 /\ i # n /\ i + 1 \in 1 .. n
      BY <1>1, <2>3
    <3>2. q[i] = tok[r[i + 1]].old
      BY <1>5, <3>1
    <3>3. Append(p, top)[i] = tok[s[i + 1]].old
      BY <1>4, <1>6, <3>1
    <3>4. r[i + 1] = s[i + 1]
      BY <1>1, <3>1
    <3> QED BY <3>2, <3>3, <3>4
  <2>4. \A m \in Nat : \A k \in 1 .. m + 1 : k = m + 1 \/ k = m \/ k \in 1 .. m - 1
    OBVIOUS
  <2> QED BY <1>1, <2>1, <2>2, <2>3, <2>4
<1> QED BY <1>1, <1>5, <1>6, <1>7 DEF p, q, r, below

\* A task that runs belongs to the trace it was called with.
OriginStays == \A t \in Tasks : tpc[t] = "running" => origin'[t] = origin[t]

\* A context in which nothing changes.
LEMMA ChainStays ==
  ASSUME ScopesTypeOK, Placed, OriginStays, NEW c \in Contexts,
         Scoping(c)' = Scoping(c), bound'[c] = bound[c],
         \A s \in Scopes : Within(open[c], s) => token'[s] = token[s]
  PROVE  StackOf(c)' = StackOf(c) /\ (Chain(c) => Chain(c)')
<1> DEFINE s == Scoping(c)
<1>1. /\ s \in Seq(Scopes) /\ Len(s) \in Nat
      /\ \A i \in 1 .. Len(s) : s[i] \in Scopes /\ Within(open[c], s[i])
  BY ScopingShape DEF Within
<1>2. \A i \in 1 .. Len(s) : token'[s[i]] = token[s[i]]
  BY <1>1
<1>3. \A i \in 1 .. Len(s) : s[i] \in Tasks => origin'[s[i]] = origin[s[i]]
  BY <1>1 DEF Placed, OriginStays
<1>4. StackOf(c)' = StackOf(c)
  <2>1. \A i \in 1 .. Len(s) : i # Len(s) => i + 1 \in 1 .. Len(s)
    BY <1>1
  <2>2. \A i \in 1 .. Len(s) : token[s[i]] \in Token /\ token'[s[i]] \in Token
    BY <1>2, ScopingShape
  <2>3. StackOf(c)' = Layers(s, bound[c], token') /\ StackOf(c) = Layers(s, bound[c], token)
        /\ bound[c] \in Values
    BY Types DEF StackOf, Values
  <2> HIDE DEF s
  <2>4. Layers(s, bound[c], token') = Layers(s, bound[c], token)
    BY <1>1, <1>2, <2>1, <2>2, <2>3, SameLayers
  <2> QED BY <2>3, <2>4
<1> HIDE DEF s
<1>5. ASSUME Chain(c) PROVE Chain(c)'
  <2>1. s = <<>> => bound'[c] = None
    BY <1>5 DEF Chain, s
  <2>2. ASSUME NEW i \in 1 .. Len(s)
        PROVE  /\ token'[s[i]].at = c
               /\ i = 1 => token'[s[i]].old = None
    BY <1>2, <1>5, <2>2 DEF Chain, s
  <2>3. ASSUME NEW i \in 1 .. Len(s)
        PROVE  LET x == StackOf(c)[i] IN
               /\ x # None /\ x.span = s[i]
               /\ \A a \in x.attributes : \E j \in 1 .. i : a = s[j]
               /\ s[i] \in Tasks /\ origin'[s[i]] # None => x.trace = origin'[s[i]]
    BY <1>3, <1>5, <2>3 DEF Chain, Own, s
  <2> QED BY <1>4, <2>1, <2>2, <2>3 DEF Chain, Own, s
<1> QED BY <1>4, <1>5

-----------------------------------------------------------------------------
(* Each kind of step keeps the chains, and is a step of ScopeStack.        *)

\* What a scope may start with: nothing bound in it but what was bound around it.
Fits(x, c, s) ==
  /\ x.span = s
  /\ x.attributes = {} \/ (bound[c] # None /\ x.attributes = bound[c].attributes)

LEMMA FirstChain ==
  ASSUME ScopesTypeOK, Chained, NEW c \in Contexts, ~ CodeRuns(c) => bound[c] = None
  PROVE  Chain(c)
<1>1. CASE CodeRuns(c)
  BY <1>1 DEF Chained
<1>2. CASE ~ CodeRuns(c)
  <2>1. open[c] = <<>>
    BY <1>2 DEF CodeRuns
  <2>2. Scoping(c) = <<>>
    BY <2>1, ScopingIs, AmongNone
  <2>3. Len(Scoping(c)) = 0
    BY <2>2
  <2> QED BY <1>2, <2>2, <2>3 DEF Chain
<1> QED BY <1>1, <1>2

\* What is bound is on top of the chain.
LEMMA TopOfChain ==
  ASSUME ScopesTypeOK, NEW c \in Contexts, Chain(c), Scoping(c) # <<>>
  PROVE  /\ StackOf(c) # <<>> /\ Len(Scoping(c)) \in 1 .. Len(Scoping(c))
         /\ Len(StackOf(c)) = Len(Scoping(c))
         /\ StackOf(c)[Len(Scoping(c))] = bound[c]
         /\ Own(bound[c], Scoping(c), Len(Scoping(c)), origin)
<1>1. Len(Scoping(c)) \in 1 .. Len(Scoping(c))
  <2>1. PICK s \in Seq(Scopes) : s = Scoping(c)
    BY ScopingShape
  <2>2. s # <<>> => Len(s) \in 1 .. Len(s)
    OBVIOUS
  <2> QED BY <2>1, <2>2
<1>2. StackOf(c)[Len(Scoping(c))] = bound[c] /\ Len(StackOf(c)) = Len(Scoping(c))
  BY <1>1, StackShape
<1>3. StackOf(c) # <<>>
  <2>1. Len(<<>>) = 0 /\ 0 \notin 1 .. 0
    OBVIOUS
  <2> QED BY <1>1, <1>2, <2>1
<1> QED BY <1>1, <1>2, <1>3 DEF Chain

LEMMA EnterChain ==
  ASSUME ScopesTypeOK, Placed, Chained, OriginStays,
         NEW c \in Contexts, NEW s \in Scopes, NEW x \in Snapshot,
         \A d \in Contexts : ~ Within(open[d], s), ~ CodeRuns(c) => bound[c] = None,
         Push(c, s, x), Starts(c, s), Fits(x, c, s),
         s \in Tasks /\ origin'[s] # None => x.trace = origin'[s]
  PROVE  /\ Chained'
         /\ StackOf(c)' = Append(StackOf(c), x)
         /\ Scoping(c) # <<>> => x.attributes \in {{}, bound[c].attributes}
         /\ \A d \in Contexts : d # c => StackOf(d)' = StackOf(d)
<1>1. /\ bound'[c] = x /\ \A d \in Contexts : d # c => bound'[d] = bound[d]
      /\ token'[s] = [at |-> c, old |-> bound[c]] /\ \A o \in Scopes : o # s => token'[o] = token[o]
  BY DEF Push, ScopesTypeOK
<1>2. token'[s] \in Token /\ token'[s] # None /\ token'[s].at = c /\ token'[s].old = bound[c]
  BY <1>1, Types, ContextAssumption DEF Token
<1>3. /\ Scoping(c)' = Append(Scoping(c), s)
      /\ \A d \in Contexts : d # c => Scoping(d)' = Scoping(d)
      /\ open'[c] = Append(open[c], s) /\ \A d \in Contexts : d # c => open'[d] = open[d]
  BY <1>1, <1>2, ScopingStarts
<1>4. ASSUME NEW d \in Contexts, d # c
      PROVE  StackOf(d)' = StackOf(d) /\ (Chain(d) => Chain(d)') /\ (CodeRuns(d)' => CodeRuns(d))
  <2>1. \A o \in Scopes : Within(open[d], o) => token'[o] = token[o]
    BY <1>1
  <2>2. StackOf(d)' = StackOf(d) /\ (Chain(d) => Chain(d)')
    BY <1>1, <1>3, <1>4, <2>1, ChainStays
  <2> QED BY <1>3, <1>4, <2>2 DEF CodeRuns
<1>5. Chain(c)
  BY FirstChain
<1> DEFINE q == Scoping(c)
           n == Len(q)
<1>6. /\ q \in Seq(Scopes) /\ n \in Nat
      /\ \A i \in 1 .. n : /\ q[i] \in Scopes /\ token[q[i]] \in Token
                           /\ q[i] # s /\ token'[q[i]] = token[q[i]] /\ Within(open[c], q[i])
  <2>1. /\ q \in Seq(Scopes) /\ n \in Nat
        /\ \A i \in 1 .. n : q[i] \in Scopes /\ token[q[i]] \in Token /\ Within(open[c], q[i])
    BY ScopingShape DEF Within
  <2> QED BY <1>1, <2>1
<1>7. StackOf(c)' = Append(StackOf(c), x)
  <2>1. StackOf(c)' = Layers(Append(q, s), x, token') /\ StackOf(c) = Layers(q, bound[c], token)
    BY <1>1, <1>3 DEF StackOf
  <2>2. x \in Values /\ bound[c] \in Values
    BY Types DEF Values
  <2> HIDE DEF q
  <2>3. PICK tok : tok = token'
    OBVIOUS
  <2>4. PICK old : old = token
    OBVIOUS
  <2>5. Layers(Append(q, s), x, tok) = Append(Layers(q, tok[s].old, tok), x)
    BY <1>2, <1>6, <2>2, <2>3, LayersAppend
  <2>6. Layers(q, bound[c], tok) = Layers(q, bound[c], old)
    BY <1>6, <2>2, <2>3, <2>4, SameLayers
  <2> QED BY <1>2, <2>1, <2>3, <2>4, <2>5, <2>6
<1>8. q # <<>> => x.attributes \in {{}, bound[c].attributes}
  BY DEF Fits
<1>9. Chain(c)'
  <2> DEFINE r == Append(q, s)
             p == Append(StackOf(c), x)
             Link(i) ==
               /\ token'[r[i]].at = c
               /\ i = 1 => token'[r[i]].old = None
               /\ p[i] # None /\ p[i].span = r[i]
               /\ \A a \in p[i].attributes : \E j \in 1 .. i : a = r[j]
               /\ r[i] \in Tasks /\ origin'[r[i]] # None => p[i].trace = origin'[r[i]]
  <2>1. /\ Len(r) = n + 1 /\ r[n + 1] = s /\ r # <<>> /\ \A i \in 1 .. n : r[i] = q[i]
    <3> HIDE DEF q
    <3> QED BY <1>6, Appended
  <2>2. /\ Len(StackOf(c)) = n /\ p[n + 1] = x /\ \A i \in 1 .. n : p[i] = StackOf(c)[i]
    <3>1. PICK t \in Seq(Values) : t = StackOf(c)
      BY StackShape
    <3>2. Len(t) = n
      BY <3>1, StackShape
    <3>3. Append(t, x)[Len(t) + 1] = x /\ \A i \in 1 .. Len(t) : Append(t, x)[i] = t[i]
      OBVIOUS
    <3> QED BY <3>1, <3>2, <3>3
  <2>3. ASSUME NEW i \in 1 .. n
        PROVE  Link(i)
    <3>1. r[i] = q[i] /\ p[i] = StackOf(c)[i] /\ token'[q[i]] = token[q[i]]
      BY <1>6, <2>1, <2>2
    <3>2. q[i] \in Tasks => origin'[q[i]] = origin[q[i]]
      BY <1>6 DEF Placed, OriginStays
    <3>3. \A j \in 1 .. i : r[j] = q[j]
      BY <1>6, <2>1
    <3>4. /\ token[q[i]].at = c
          /\ i = 1 => token[q[i]].old = None
          /\ Own(p[i], q, i, origin)
      BY <1>5, <3>1 DEF Chain
    <3> HIDE DEF p, q, r
    <3> QED BY <3>1, <3>2, <3>3, <3>4 DEF Own
  <2>4. /\ token'[s].at = c
        /\ n + 1 = 1 => token'[s].old = None
        /\ x # None /\ x.span = s
        /\ \A a \in x.attributes : \E j \in 1 .. n + 1 : a = r[j]
        /\ s \in Tasks /\ origin'[s] # None => x.trace = origin'[s]
    <3>1. n = 0 => bound[c] = None
      <4>1. n = 0 => q = <<>>
        <5> HIDE DEF q
        <5> QED BY <1>6
      <4> QED BY <1>5, <4>1 DEF Chain
    <3>2. x # None /\ x.span = s
      BY ContextAssumption DEF Fits
    <3>3. \A a \in x.attributes : \E j \in 1 .. n + 1 : a = r[j]
      <4>1. CASE x.attributes = {}
        BY <4>1
      <4>2. CASE x.attributes # {}
        <5>1. bound[c] # None /\ x.attributes = bound[c].attributes
          BY <4>2 DEF Fits
        <5>2. q # <<>>
          BY <1>5, <5>1 DEF Chain
        <5>3. \A a \in x.attributes : \E j \in 1 .. n : a = q[j]
          BY <1>5, <5>1, <5>2, TopOfChain DEF Own
        <5>4. \A j \in 1 .. n : j \in 1 .. n + 1 /\ r[j] = q[j]
          BY <1>6, <2>1
        <5> QED BY <5>3, <5>4
      <4> QED BY <4>1, <4>2
    <3>4. n + 1 = 1 => n = 0
      BY <1>6
    <3> QED BY <1>2, <3>1, <3>2, <3>3, <3>4
  <2>5. Scoping(c)' = r /\ StackOf(c)' = p
    BY <1>3, <1>7
  <2>6. \A i \in 1 .. n + 1 : i \in 1 .. n \/ i = n + 1
    BY <1>6
  <2> HIDE DEF p, q, r, n
  <2>7. Link(n + 1)
    BY <2>1, <2>2, <2>4
  <2> HIDE DEF Link
  <2>8. \A i \in 1 .. n + 1 : Link(i)
    BY <2>3, <2>6, <2>7
  <2>9. Scoping(c)' # <<>> /\ Len(Scoping(c)') = n + 1
    BY <2>1, <2>5
  <2>10. ASSUME NEW i \in 1 .. n + 1
         PROVE  /\ token'[Scoping(c)'[i]].at = c
                /\ i = 1 => token'[Scoping(c)'[i]].old = None
                /\ Own(StackOf(c)'[i], Scoping(c)', i, origin')
    <3>1. Link(i)
      BY <2>8
    <3> QED BY <2>5, <3>1 DEF Link, Own
  <2> QED BY <2>9, <2>10 DEF Chain
<1>10. Chained'
  BY <1>4, <1>9 DEF Chained
<1> QED BY <1>4, <1>7, <1>8, <1>10

\* The innermost scope pops: what it had put away is bound again.
LEMMA LeaveChain ==
  ASSUME ScopesTypeOK, Placed, Chained, OriginStays,
         NEW c \in Contexts, NEW s \in Scopes, Innermost(c, s), token[s] # None,
         Pop(c, s), Ends(c)
  PROVE  /\ Chained'
         /\ StackOf(c)' \in Seq(Values) /\ StackOf(c) = Append(StackOf(c)', bound[c])
         /\ \A d \in Contexts : d # c => StackOf(d)' = StackOf(d)
<1> DEFINE q == Scoping(c)'
           n == Len(q)
<1>1. /\ token'[s] = None /\ \A o \in Scopes : o # s => token'[o] = token[o]
      /\ \A d \in Contexts : d # c => bound'[d] = bound[d]
  BY DEF Pop, ScopesTypeOK
<1>2. /\ Scoping(c) = Append(q, s) /\ open'[c] \in Seq(Scopes)
      /\ \A d \in Contexts : d # c =>
           Scoping(d)' = Scoping(d) /\ open'[d] = open[d] /\ ~ Within(open[d], s)
  BY <1>1, ScopingEnds
<1>3. q \in Seq(Scopes) /\ n \in Nat
  <2>1. PICK o \in Seq(Scopes) : o = open'[c]
    BY <1>2
  <2>2. PICK B : B = Bound(token')
    OBVIOUS
  <2>3. Among(o, B) \in Seq(Scopes)
    BY AmongContents
  <2> QED BY <2>1, <2>2, <2>3, ScopingNext
<1>4. ASSUME NEW d \in Contexts, d # c
      PROVE  StackOf(d)' = StackOf(d) /\ (Chain(d) => Chain(d)') /\ (CodeRuns(d)' => CodeRuns(d))
  <2>1. \A o \in Scopes : Within(open[d], o) => token'[o] = token[o]
    BY <1>1, <1>2, <1>4
  <2>2. StackOf(d)' = StackOf(d) /\ (Chain(d) => Chain(d)')
    BY <1>1, <1>2, <1>4, <2>1, ChainStays
  <2> QED BY <1>2, <1>4, <2>2 DEF CodeRuns
<1>5. Chain(c)
  <2>1. CodeRuns(c)
    BY DEF Innermost, CodeRuns
  <2> QED BY <2>1 DEF Chained
<1> DEFINE r == Append(q, s)
<1> HIDE DEF q
<1>6. /\ Len(r) = n + 1 /\ r[n + 1] = s /\ \A i \in 1 .. n : r[i] = q[i]
      /\ Len(Scoping(c)) = n + 1 /\ Scoping(c)[n + 1] = s /\ \A i \in 1 .. n : Scoping(c)[i] = q[i]
      /\ n + 1 \in 1 .. n + 1 /\ \A i \in 1 .. n : i \in 1 .. n + 1 /\ i # n + 1
  BY <1>2, <1>3
<1>7. \A i \in 1 .. n + 1 : token[Scoping(c)[i]] \in Token
  BY <1>6, ScopingShape
<1>8. /\ token[s] \in Token /\ token[s].at = c
      /\ \A i \in 1 .. n : token[q[i]] \in Token
  BY <1>5, <1>6, <1>7 DEF Chain
<1>9. ASSUME NEW i \in 1 .. n
      PROVE  /\ q[i] \in Scopes /\ q[i] # s /\ token'[q[i]] = token[q[i]]
             /\ Within(open[c], q[i])
  <2>1. Distinct(Scoping(c))
    BY ScopingShape DEF Placed
  <2>2. q[i] # s
    BY <1>6, <2>1 DEF Distinct
  <2>3. q[i] \in Scopes
    BY <1>3
  <2>4. Within(Scoping(c), q[i])
    BY <1>6 DEF Within
  <2>5. Within(open[c], q[i])
    BY <2>4, ScopingShape
  <2> QED BY <1>1, <2>2, <2>3, <2>5
<1>10. bound'[c] = token[s].old
  BY <1>8 DEF Pop, ScopesTypeOK
<1>11. StackOf(c) = Append(StackOf(c)', bound[c]) /\ StackOf(c)' \in Seq(Values)
       /\ Len(StackOf(c)') = n
  <2>1. StackOf(c) = Layers(r, bound[c], token) /\ StackOf(c)' = Layers(q, token[s].old, token')
    BY <1>2, <1>10 DEF StackOf, q
  <2>2. bound[c] \in Values /\ token[s].old \in Values
    BY <1>8, Types DEF Values, Token
  <2>3. PICK tok : tok = token'
    OBVIOUS
  <2>4. PICK old : old = token
    OBVIOUS
  <2>5. Layers(r, bound[c], old) = Append(Layers(q, old[s].old, old), bound[c])
    BY <1>3, <1>8, <2>2, <2>4, LayersAppend
  <2>6. Layers(q, token[s].old, tok) = Layers(q, token[s].old, old)
    BY <1>3, <1>9, <2>2, <2>3, <2>4, SameLayers
  <2>7. /\ Layers(q, token[s].old, old) \in Seq(Values)
        /\ Len(Layers(q, token[s].old, old)) = n
    BY <1>3, <1>8, <2>2, <2>4, LayersShape
  <2> QED BY <2>1, <2>3, <2>4, <2>5, <2>6, <2>7
<1>12. \A i \in 1 .. n : StackOf(c)[i] = StackOf(c)'[i]
  <2>1. PICK p \in Seq(Values) : p = StackOf(c)'
    BY <1>11
  <2>2. \A i \in 1 .. Len(p) : Append(p, bound[c])[i] = p[i]
    OBVIOUS
  <2> QED BY <1>11, <2>1, <2>2
<1>13. Chain(c)'
  <2>1. q = <<>> => bound'[c] = None
    <3>1. q = <<>> => n + 1 = 1
      OBVIOUS
    <3>2. n + 1 = 1 => token[s].old = None
      BY <1>5, <1>6 DEF Chain
    <3> QED BY <1>10, <3>1, <3>2
  <2>2. ASSUME NEW i \in 1 .. n
        PROVE  /\ token'[q[i]].at = c
               /\ i = 1 => token'[q[i]].old = None
               /\ Own(StackOf(c)'[i], q, i, origin')
    <3>1. /\ token[q[i]].at = c
          /\ i = 1 => token[q[i]].old = None
          /\ Own(StackOf(c)[i], Scoping(c), i, origin)
      BY <1>5, <1>6 DEF Chain
    <3>2. q[i] \in Tasks => origin'[q[i]] = origin[q[i]]
      BY <1>9 DEF Placed, OriginStays
    <3>3. \A j \in 1 .. i : Scoping(c)[j] = q[j]
      BY <1>3, <1>6
    <3>4. PICK x : x = StackOf(c)[i] /\ x = StackOf(c)'[i]
      BY <1>12
    <3>5. /\ x # None /\ x.span = q[i]
          /\ \A a \in x.attributes : \E j \in 1 .. i : a = q[j]
          /\ q[i] \in Tasks /\ origin'[q[i]] # None => x.trace = origin'[q[i]]
      BY <1>6, <3>1, <3>2, <3>3, <3>4 DEF Own
    <3> QED BY <1>9, <3>1, <3>4, <3>5 DEF Own
  <2> QED BY <2>1, <2>2 DEF Chain, q, Own
<1> QED BY <1>4, <1>11, <1>13 DEF Chained

\* Code that binds nothing comes or goes, or none does: every chain is as it was.
LEMMA QuietChain ==
  ASSUME ScopesTypeOK, Placed, Chained, OriginStays, UNCHANGED <<bound, token>>,
         \A d \in Contexts : Scoping(d)' = Scoping(d),
         \A d \in Contexts : CodeRuns(d)' /\ ~ CodeRuns(d) => bound[d] = None
  PROVE  Chained' /\ \A d \in Contexts : StackOf(d)' = StackOf(d)
<1>1. ASSUME NEW d \in Contexts
      PROVE  StackOf(d)' = StackOf(d) /\ (Chain(d) => Chain(d)')
  BY ChainStays
<1>2. ASSUME NEW d \in Contexts, CodeRuns(d)' PROVE Chain(d)'
  <2>1. ~ CodeRuns(d) => bound[d] = None
    BY <1>2
  <2> QED BY <1>1, <2>1, FirstChain
<1> QED BY <1>1, <1>2 DEF Chained

LEMMA SlipInChain ==
  ASSUME ScopesTypeOK, Placed, Chained, OriginStays, UNCHANGED <<bound, token>>,
         NEW c \in Contexts, NEW s \in Scopes, token[s] = None,
         \A d \in Contexts : ~ Within(open[d], s), ~ CodeRuns(c) => bound[c] = None,
         Starts(c, s)
  PROVE  Chained' /\ \A d \in Contexts : StackOf(d)' = StackOf(d)
<1>1. /\ \A d \in Contexts : Scoping(d)' = Scoping(d)
      /\ \A d \in Contexts : d # c => open'[d] = open[d]
  BY ScopingStarts
<1>2. \A d \in Contexts : CodeRuns(d)' /\ ~ CodeRuns(d) => bound[d] = None
  BY <1>1 DEF CodeRuns
<1> QED BY <1>1, <1>2, QuietChain

LEMMA SlipOutChain ==
  ASSUME ScopesTypeOK, Placed, Chained, OriginStays, UNCHANGED <<bound, token>>,
         NEW c \in Contexts, NEW s \in Scopes, token[s] = None, Innermost(c, s), Ends(c)
  PROVE  Chained' /\ \A d \in Contexts : StackOf(d)' = StackOf(d)
<1>1. /\ \A d \in Contexts : Scoping(d)' = Scoping(d)
      /\ \A d \in Contexts : d # c => open'[d] = open[d]
  BY ScopingEnds
<1>2. \A d \in Contexts : CodeRuns(d)' => CodeRuns(d)
  BY <1>1 DEF CodeRuns, Innermost
<1> QED BY <1>1, <1>2, QuietChain

\* The scope of a request is left without a pop, and its context with it.
LEMMA AbandonChain ==
  ASSUME ScopesTypeOK, Placed, Chained, OriginStays, UNCHANGED <<bound, token>>,
         NEW r \in Requests, Innermost(r, r), token[r] # None, Ends(r)
  PROVE  /\ Chained'
         /\ StackOf(r)' \in Seq(Values) /\ StackOf(r) = Append(StackOf(r)', bound[r])
         /\ \A d \in Contexts : d # r => StackOf(d)' = StackOf(d)
<1>0. r \in Contexts /\ r \in Scopes /\ r \notin Threads
  BY ContextAssumption DEF Contexts, Scopes
<1>1. /\ Scoping(r) = Append(Scoping(r)', r)
      /\ open[r] = Append(open'[r], r) /\ open'[r] \in Seq(Scopes) /\ ~ Within(open'[r], r)
      /\ \A d \in Contexts : d # r =>
           Scoping(d)' = Scoping(d) /\ open'[d] = open[d] /\ ~ Within(open[d], r)
  BY <1>0, ScopingEnds
<1>2. open'[r] = <<>>
  <2>1. PICK o \in Seq(Scopes) : o = open'[r]
    BY <1>1
  <2>2. o # <<>> => 1 \in 1 .. Len(o) /\ Append(o, r)[1] = o[1]
    OBVIOUS
  <2>3. open[r] # <<>> /\ open[r][1] = r
    BY <1>0 DEF Placed, Innermost
  <2> QED BY <1>1, <2>1, <2>2, <2>3 DEF Within
<1>3. Scoping(r)' = <<>>
  BY <1>2, ScopingNext, AmongNone
<1>4. ASSUME NEW d \in Contexts, d # r
      PROVE  StackOf(d)' = StackOf(d) /\ (Chain(d) => Chain(d)') /\ (CodeRuns(d)' => CodeRuns(d))
  <2>1. StackOf(d)' = StackOf(d) /\ (Chain(d) => Chain(d)')
    BY <1>1, <1>4, ChainStays
  <2> QED BY <1>1, <1>4, <2>1 DEF CodeRuns
<1>5. ~ CodeRuns(r)'
  BY <1>0, <1>2 DEF CodeRuns
<1>6. StackOf(r)' \in Seq(Values) /\ StackOf(r) = Append(StackOf(r)', bound[r])
  <2>1. StackOf(r)' = Layers(<<>>, bound[r], token) /\ StackOf(r) = Layers(Append(<<>>, r), bound[r], token)
    BY <1>1, <1>3 DEF StackOf
  <2>2. bound[r] \in Values /\ token[r] \in Token /\ token[r].old \in Values
    BY <1>0, Types DEF Values, Token
  <2>3. <<>> \in Seq(Scopes) /\ \A i \in 1 .. Len(<<>>) : token[<<>>[i]] \in Token
    OBVIOUS
  <2>4. PICK q \in Seq(Scopes) : q = <<>>
    BY <2>3
  <2>5. \A i \in 1 .. Len(q) : token[q[i]] \in Token
    BY <2>4
  <2>6. PICK tok : tok = token
    OBVIOUS
  <2>7. Layers(Append(q, r), bound[r], tok) = Append(Layers(q, tok[r].old, tok), bound[r])
    BY <1>0, <2>2, <2>5, <2>6, LayersAppend
  <2>8. Layers(q, tok[r].old, tok) = Layers(q, bound[r], tok)
    BY <2>4 DEF Layers
  <2>9. Layers(q, bound[r], tok) \in Seq(Values)
    BY <2>2, <2>5, <2>6, LayersShape
  <2> QED BY <2>1, <2>4, <2>6, <2>7, <2>8, <2>9
<1> QED BY <1>4, <1>5, <1>6 DEF Chained

\* bind: only what is on top changes, by the name of the innermost scope.
LEMMA BindChain ==
  ASSUME ScopesTypeOK, Placed, Chained, OriginStays, NEW c \in Contexts, Bind(c)
  PROVE  /\ Chained'
         /\ bound[c] \in Snapshot
         /\ \E x \in Snapshot :
              /\ x.trace = bound[c].trace /\ x.span = bound[c].span
              /\ bound[c].attributes \subseteq x.attributes
              /\ StackOf(c)' = [StackOf(c) EXCEPT ![Len(StackOf(c))] = x]
         /\ StackOf(c) # <<>> /\ StackOf(c)[Len(StackOf(c))] = bound[c]
         /\ \A d \in Contexts : d # c => StackOf(d)' = StackOf(d)
<1> DEFINE q == Scoping(c)
           n == Len(q)
           a == Last(q)
           x == [bound[c] EXCEPT !.attributes = @ \cup {a}]
<1>1. /\ q # <<>> /\ bound[c] # None /\ bound[c] \in Snapshot
      /\ bound'[c] = x /\ \A d \in Contexts : d # c => bound'[d] = bound[d]
      /\ UNCHANGED <<open, token>>
  BY Types DEF Bind, ScopesTypeOK
<1>2. q \in Seq(Scopes) /\ n \in Nat /\ n \in 1 .. n /\ a = q[n] /\ a \in Scopes
  <2>1. PICK s \in Seq(Scopes) : s = q
    BY ScopingShape
  <2>2. s # <<>> => Len(s) \in Nat /\ Len(s) \in 1 .. Len(s) /\ s[Len(s)] \in Scopes
    OBVIOUS
  <2> QED BY <1>1, <2>1, <2>2 DEF Last
<1>3. /\ x \in Snapshot /\ x.trace = bound[c].trace /\ x.span = bound[c].span
      /\ x.attributes = bound[c].attributes \cup {a}
  <2> HIDE DEF a
  <2> QED BY <1>1, <1>2 DEF Snapshot
<1>4. \A d \in Contexts : Scoping(d)' = Scoping(d)
  BY <1>1, ScopingStays
<1>5. ASSUME NEW d \in Contexts, d # c
      PROVE  StackOf(d)' = StackOf(d) /\ (Chain(d) => Chain(d)') /\ (CodeRuns(d)' => CodeRuns(d))
  <2>1. StackOf(d)' = StackOf(d) /\ (Chain(d) => Chain(d)')
    BY <1>1, <1>4, <1>5, ChainStays
  <2> QED BY <1>1, <1>5, <2>1 DEF CodeRuns
<1>6. Chain(c)
  <2>1. Within(q, a)
    BY <1>2 DEF Within
  <2>2. Within(open[c], a)
    BY <2>1, ScopingShape
  <2>3. open[c] # <<>>
    <3>1. \A i : i \notin 1 .. Len(<<>>)
      OBVIOUS
    <3> QED BY <2>2, <3>1 DEF Within
  <2> QED BY <2>3 DEF Chained, CodeRuns
<1>7. /\ StackOf(c) # <<>> /\ Len(StackOf(c)) = n /\ StackOf(c)[n] = bound[c]
      /\ Own(bound[c], q, n, origin)
  BY <1>1, <1>6, TopOfChain
<1> HIDE DEF a, x
<1>8. StackOf(c)' = [StackOf(c) EXCEPT ![n] = x]
  <2>1. StackOf(c)' = Layers(q, x, token) /\ StackOf(c) = Layers(q, bound[c], token)
    BY <1>1, <1>4 DEF StackOf
  <2>2. DOMAIN q = 1 .. n /\ Len(q) = n
    BY <1>2
  <2> HIDE DEF q, n
  <2> QED BY <1>2, <2>1, <2>2 DEF Layers
<1>9. /\ \A i \in 1 .. n : StackOf(c)'[i] = IF i = n THEN x ELSE StackOf(c)[i]
  <2>1. PICK p \in Seq(Values) : p = StackOf(c)
    BY StackShape
  <2>2. \A i \in 1 .. Len(p) : [p EXCEPT ![Len(p)] = x][i] = IF i = Len(p) THEN x ELSE p[i]
    OBVIOUS
  <2> QED BY <1>7, <1>8, <2>1, <2>2
<1>10. Chain(c)'
  <2>1. ASSUME NEW i \in 1 .. n
        PROVE  /\ token[q[i]].at = c
               /\ i = 1 => token[q[i]].old = None
               /\ Own(StackOf(c)'[i], q, i, origin')
    <3>1. /\ token[q[i]].at = c
          /\ i = 1 => token[q[i]].old = None
          /\ Own(StackOf(c)[i], q, i, origin)
      BY <1>6 DEF Chain
    <3>2. q[i] \in Tasks => origin'[q[i]] = origin[q[i]]
      <4>1. Within(q, q[i])
        BY DEF Within
      <4>2. Within(open[c], q[i])
        BY <4>1, ScopingShape
      <4> QED BY <4>2 DEF Placed, OriginStays
    <3> HIDE DEF q, n
    <3>3. CASE i # n
      BY <1>9, <3>1, <3>2, <3>3 DEF Own
    <3>4. CASE i = n
      <4>1. x # None /\ x.span = q[i]
            /\ (q[i] \in Tasks /\ origin'[q[i]] # None => x.trace = origin'[q[i]])
        BY <1>3, <1>7, <3>2, <3>4, ContextAssumption DEF Own
      <4>2. \A b \in x.attributes : \E j \in 1 .. i : b = q[j]
        BY <1>2, <1>3, <1>7, <3>4 DEF Own
      <4>3. StackOf(c)'[i] = x
        BY <1>9, <3>4
      <4> QED BY <3>1, <4>1, <4>2, <4>3 DEF Own
    <3> QED BY <3>3, <3>4
  <2>2. Scoping(c)' = q /\ q # <<>>
    BY <1>1, <1>4
  <2> HIDE DEF q
  <2> QED BY <1>1, <2>1, <2>2 DEF Chain
<1> QED BY <1>1, <1>3, <1>5, <1>7, <1>8, <1>10 DEF Chained

\* The kinds of steps, as far as scopes are concerned.
Clear(c, s) ==
  /\ \A d \in Contexts : ~ Within(open[d], s)
  /\ ~ CodeRuns(c) => bound[c] = None

Enters(c, s, x) ==
  /\ Clear(c, s) /\ Fits(x, c, s) /\ (s \in Tasks /\ origin'[s] # None => x.trace = origin'[s])
  /\ Push(c, s, x) /\ Starts(c, s)
SlipsIn(c, s)  == Clear(c, s) /\ token[s] = None /\ UNCHANGED <<bound, token>> /\ Starts(c, s)
Leaves(c, s)   == Innermost(c, s) /\ token[s] # None /\ Pop(c, s) /\ Ends(c)
SlipsOut(c, s) == Innermost(c, s) /\ token[s] = None /\ UNCHANGED <<bound, token>> /\ Ends(c)
Abandons(r)    == Innermost(r, r) /\ token[r] # None /\ UNCHANGED <<bound, token>> /\ Ends(r)
Rests          == UNCHANGED <<bound, token, open>>

ScopeMove ==
  \/ Rests
  \/ \E c \in Contexts : \/ Bind(c)
                         \/ \E s \in Scopes : \/ \E x \in Snapshot : Enters(c, s, x)
                                              \/ SlipsIn(c, s) \/ Leaves(c, s) \/ SlipsOut(c, s)
  \/ \E r \in Requests : Abandons(r)

\* What becomes of the stacks.
OnlyIn(c) == \A d \in Contexts : d # c => StackOf(d)' = StackOf(d)
Grows(c, x) ==
  /\ StackOf(c)' = Append(StackOf(c), x)
  /\ StackOf(c) # <<>> => x.attributes \in {{}, StackOf(c)[Len(StackOf(c))].attributes}
Merges(c, x) ==
  LET y == StackOf(c)[Len(StackOf(c))] IN
  /\ StackOf(c) # <<>>
  /\ x.trace = y.trace /\ x.span = y.span /\ y.attributes \subseteq x.attributes
  /\ StackOf(c)' = [StackOf(c) EXCEPT ![Len(StackOf(c))] = x]
Shrinks(c) == StackOf(c)' \in Seq(Values) /\ \E y \in Values : StackOf(c) = Append(StackOf(c)', y)
StackMove ==
  \/ \A d \in Contexts : StackOf(d)' = StackOf(d)
  \/ \E c \in Contexts : /\ OnlyIn(c)
                         /\ Shrinks(c) \/ \E x \in Snapshot : Grows(c, x) \/ Merges(c, x)

LEMMA MoveKeeps ==
  ASSUME ScopesTypeOK, Placed, Chained, OriginStays, ScopeMove
  PROVE  Chained' /\ StackMove
<1>1. CASE Rests
  <2>1. \A d \in Contexts : Scoping(d)' = Scoping(d)
    BY <1>1, ScopingStays DEF Rests
  <2>2. \A d \in Contexts : CodeRuns(d)' => CodeRuns(d)
    BY <1>1 DEF Rests, CodeRuns
  <2>3. UNCHANGED <<bound, token>>
    BY <1>1 DEF Rests
  <2> QED BY <2>1, <2>2, <2>3, QuietChain DEF StackMove
<1>2. ASSUME NEW c \in Contexts, Bind(c) PROVE Chained' /\ StackMove
  <2>1. /\ Chained' /\ OnlyIn(c)
        /\ StackOf(c) # <<>> /\ StackOf(c)[Len(StackOf(c))] = bound[c]
    BY <1>2, BindChain DEF OnlyIn
  <2>2. PICK x \in Snapshot :
              /\ x.trace = bound[c].trace /\ x.span = bound[c].span
              /\ bound[c].attributes \subseteq x.attributes
              /\ StackOf(c)' = [StackOf(c) EXCEPT ![Len(StackOf(c))] = x]
    BY <1>2, BindChain
  <2> QED BY <2>1, <2>2 DEF StackMove, Merges
<1>3. ASSUME NEW c \in Contexts, NEW s \in Scopes, NEW x \in Snapshot, Enters(c, s, x)
      PROVE  Chained' /\ StackMove
  <2>1. /\ Chained' /\ OnlyIn(c) /\ StackOf(c)' = Append(StackOf(c), x)
        /\ Scoping(c) # <<>> => x.attributes \in {{}, bound[c].attributes}
    BY <1>3, EnterChain DEF Enters, Clear, OnlyIn
  <2>2. StackOf(c) # <<>> => Scoping(c) # <<>> /\ StackOf(c)[Len(StackOf(c))] = bound[c]
    <3>1. Chain(c)
      BY <1>3, FirstChain DEF Enters, Clear
    <3>2. StackOf(c) # <<>> => Scoping(c) # <<>>
      <4>1. PICK p \in Seq(Values) : p = StackOf(c) /\ Len(p) = Len(Scoping(c))
        BY StackShape
      <4>2. p # <<>> => Len(p) # 0
        OBVIOUS
      <4>3. Len(<<>>) = 0
        OBVIOUS
      <4> QED BY <4>1, <4>2, <4>3
    <3> QED BY <3>1, <3>2, TopOfChain
  <2> QED BY <2>1, <2>2 DEF StackMove, Grows
<1>4. ASSUME NEW c \in Contexts, NEW s \in Scopes, SlipsIn(c, s) PROVE Chained' /\ StackMove
  BY <1>4, SlipInChain DEF SlipsIn, Clear, StackMove
<1>5. ASSUME NEW c \in Contexts, NEW s \in Scopes, Leaves(c, s) PROVE Chained' /\ StackMove
  <2>1. bound[c] \in Values
    BY Types DEF Values
  <2> QED BY <1>5, <2>1, LeaveChain DEF Leaves, StackMove, Shrinks, OnlyIn
<1>6. ASSUME NEW c \in Contexts, NEW s \in Scopes, SlipsOut(c, s) PROVE Chained' /\ StackMove
  BY <1>6, SlipOutChain DEF SlipsOut, StackMove
<1>7. ASSUME NEW r \in Requests, Abandons(r) PROVE Chained' /\ StackMove
  <2>1. r \in Contexts /\ bound[r] \in Values
    BY Types DEF Values, Contexts
  <2> QED BY <1>7, <2>1, AbandonChain DEF Abandons, StackMove, Shrinks, OnlyIn
<1> QED BY <1>1, <1>2, <1>3, <1>4, <1>5, <1>6, <1>7 DEF ScopeMove

\* Which is a step of ScopeStack, or none.
stacks == [c \in Contexts |-> StackOf(c)]

LEMMA EndOfStack ==
  ASSUME NEW p \in Seq(Values), NEW y \in Values
  PROVE  /\ Stacks!Last(Append(p, y)) = y /\ Stacks!Front(Append(p, y)) = p
         /\ Append(p, y) # <<>>
<1>1. /\ Append(p, y) \in Seq(Values) /\ Append(p, y) # <<>>
      /\ Len(Append(p, y)) = Len(p) + 1 /\ Append(p, y)[Len(p) + 1] = y
      /\ \A i \in 1 .. Len(p) : Append(p, y)[i] = p[i]
      /\ Len(p) \in Nat
  BY Appended
<1>2. PICK q \in Seq(Values) : q = Append(p, y)
  BY <1>1
<1>3. Front(q) \in Seq(Values) /\ Len(Front(q)) = Len(q) - 1 /\ Last(q) = q[Len(q)]
      /\ \A i \in 1 .. Len(q) - 1 : Front(q)[i] = q[i]
  BY <1>1, <1>2, FrontLast
<1>4. Front(q) = p /\ Last(q) = y
  BY <1>1, <1>2, <1>3
<1> QED BY <1>1, <1>2, <1>4 DEF Stacks!Last, Stacks!Front, Last, Front

LEMMA StackStep ==
  ASSUME ScopesTypeOK, StackMove
  PROVE  [Stacks!Next]_stacks
<1> DEFINE Moves(c) == StackOf(c)' # StackOf(c)
<1>1. CASE \A d \in Contexts : StackOf(d)' = StackOf(d)
  BY <1>1 DEF stacks
<1>2. ASSUME NEW c \in Contexts, OnlyIn(c)
      PROVE  \A v : StackOf(c)' = v => stacks' = [stacks EXCEPT ![c] = v]
  BY <1>2 DEF stacks, OnlyIn
<1>3. ASSUME NEW c \in Contexts
      PROVE  /\ stacks[c] = StackOf(c) /\ stacks'[c] = StackOf(c)'
             /\ stacks[c] \in Seq(Values)
  BY StackShape DEF stacks
<1>4. ASSUME NEW c \in Contexts, OnlyIn(c), Moves(c), Shrinks(c)
      PROVE  Stacks!Next
  <2>1. PICK p \in Seq(Values) : p = StackOf(c)'
    BY <1>4 DEF Shrinks
  <2>2. PICK y \in Values : StackOf(c) = Append(p, y)
    BY <1>4, <2>1 DEF Shrinks
  <2>3. StackOf(c) # <<>> /\ Stacks!Front(StackOf(c)) = p
    BY <2>2, EndOfStack
  <2>4. stacks' = [stacks EXCEPT ![c] = p]
    BY <1>2, <1>4, <2>1
  <2> QED BY <1>3, <1>4, <2>3, <2>4 DEF Stacks!Next, Stacks!Close, Stacks!Becomes, stacks
<1>5. ASSUME NEW c \in Contexts, OnlyIn(c), Moves(c), NEW x \in Snapshot, Grows(c, x)
      PROVE  Stacks!Next
  <2>1. PICK p \in Seq(Values) : p = StackOf(c)
    BY StackShape
  <2>2. x \in Values
    BY DEF Values
  <2>3. /\ StackOf(c)' = Append(p, x) /\ StackOf(c)' # <<>> /\ Stacks!Last(StackOf(c)') = x
    BY <1>5, <2>1, <2>2, EndOfStack DEF Grows
  <2>4. stacks' = [stacks EXCEPT ![c] = Append(StackOf(c), x)]
    BY <1>2, <1>5, <2>1, <2>3
  <2>5. StackOf(c) # <<>> => x.attributes \in {{}, Stacks!Last(StackOf(c)).attributes}
    BY <1>5 DEF Grows, Stacks!Last
  <2> QED BY <1>3, <1>5, <2>3, <2>4, <2>5 DEF Stacks!Next, Stacks!Open, Stacks!Becomes, stacks
<1>6. ASSUME NEW c \in Contexts, OnlyIn(c), Moves(c), NEW x \in Snapshot, Merges(c, x)
      PROVE  Stacks!Next
  <2>1. PICK p \in Seq(Values) : p = StackOf(c)
    BY StackShape
  <2>2. p # <<>> /\ x \in Values
    BY <1>6, <2>1 DEF Merges, Values
  <2>3. /\ Front(p) \in Seq(Values) /\ Len(p) \in Nat /\ Len(p) >= 1
        /\ Len(Front(p)) = Len(p) - 1 /\ Last(p) = p[Len(p)]
        /\ \A i \in 1 .. Len(p) - 1 : Front(p)[i] = p[i]
    BY <2>2, FrontLast
  <2>4. [p EXCEPT ![Len(p)] = x] = Append(Front(p), x)
    <3> DEFINE f == Front(p)
               l == [p EXCEPT ![Len(p)] = x]
               r == Append(f, x)
    <3>1. /\ l \in Seq(Values) /\ Len(l) = Len(p)
          /\ \A i \in 1 .. Len(p) : l[i] = IF i = Len(p) THEN x ELSE p[i]
      BY <2>2, <2>3
    <3> HIDE DEF f
    <3>2. /\ r \in Seq(Values) /\ Len(r) = Len(f) + 1 /\ r[Len(f) + 1] = x
          /\ \A i \in 1 .. Len(f) : r[i] = f[i]
      BY <2>2, <2>3, Appended DEF f
    <3> HIDE DEF l, r
    <3>3. Len(r) = Len(p) /\ \A i \in 1 .. Len(p) : r[i] = IF i = Len(p) THEN x ELSE p[i]
      <4>1. \A i \in 1 .. Len(p) : i = Len(p) \/ i \in 1 .. Len(p) - 1
        BY <2>3
      <4>2. Len(f) = Len(p) - 1 /\ Len(f) + 1 = Len(p)
        BY <2>3 DEF f
      <4>3. \A i \in 1 .. Len(p) - 1 : f[i] = p[i]
        BY <2>3 DEF f
      <4> QED BY <2>3, <3>2, <4>1, <4>2, <4>3
    <3>4. \A i \in 1 .. Len(l) : l[i] = r[i]
      BY <3>1, <3>3
    <3>5. l = r
      BY <3>1, <3>2, <3>3, <3>4
    <3> QED BY <3>5 DEF l, r, f
  <2>5. StackOf(c)' = Append(Front(p), x)
    BY <1>6, <2>1, <2>4 DEF Merges
  <2>6. StackOf(c)' # <<>> /\ Stacks!Last(StackOf(c)') = x
    BY <2>2, <2>3, <2>5, EndOfStack
  <2>7. stacks' = [stacks EXCEPT ![c] = Append(Stacks!Front(StackOf(c)), x)]
    BY <1>2, <1>6, <2>1, <2>5 DEF Front, Stacks!Front
  <2>8. LET y == Stacks!Last(StackOf(c)) IN
          x.trace = y.trace /\ x.span = y.span /\ y.attributes \subseteq x.attributes
    BY <1>6 DEF Merges, Stacks!Last
  <2>9. StackOf(c) # <<>>
    BY <1>6 DEF Merges
  <2> QED BY <1>3, <1>6, <2>6, <2>7, <2>8, <2>9 DEF Stacks!Next, Stacks!Merge, Stacks!Becomes, stacks
<1>7. ASSUME NEW c \in Contexts, OnlyIn(c), ~ Moves(c)
      PROVE  \A d \in Contexts : StackOf(d)' = StackOf(d)
  BY <1>7 DEF OnlyIn
<1> QED BY <1>1, <1>4, <1>5, <1>6, <1>7 DEF StackMove

-----------------------------------------------------------------------------
(* Where code runs, after a step.                                          *)

LEMMA Members ==
  ASSUME NEW X, NEW q \in Seq(X), NEW x
  PROVE  x \in ToSet(q) <=> Within(q, x)
<1>1. DOMAIN q = 1 .. Len(q)
  OBVIOUS
<1> QED BY <1>1 DEF ToSet, Within

LEMMA Sorts ==
  /\ Requests \subseteq Contexts /\ Threads \subseteq Contexts
  /\ Requests \subseteq Scopes /\ Operations \subseteq Scopes /\ Tasks \subseteq Operations
  /\ \A r \in Requests : r \notin Threads /\ r \notin Operations /\ r \notin Tasks
  /\ None \notin Scopes /\ None \notin Contexts /\ None \notin Tasks
  /\ \A c \in Contexts : c \in Threads \/ c \in Requests
  /\ \A s \in Scopes : s \in Requests \/ s \in Operations
BY ContextAssumption, CeleryAssumption DEF Contexts, Scopes

LEMMA OpenStarts ==
  ASSUME ScopesTypeOK, Placed, NEW c \in Contexts, NEW s \in Scopes, Starts(c, s),
         \A d \in Contexts : ~ Within(open[d], s),
         c \in Requests /\ open[c] = <<>> => s = c
  PROVE  /\ \A d \in Contexts : \A o : Within(open'[d], o) <=> Within(open[d], o) \/ (d = c /\ o = s)
         /\ \A d \in Contexts : Distinct(open'[d])
         /\ \A r \in Requests : open'[r] # <<>> => open'[r][1] = r
<1>1. open'[c] = Append(open[c], s) /\ \A d \in Contexts : d # c => open'[d] = open[d]
  BY DEF Starts, ScopesTypeOK
<1>2. PICK q \in Seq(Scopes) : q = open[c]
  BY Types
<1>3. /\ Len(q) \in Nat /\ Len(Append(q, s)) = Len(q) + 1 /\ Append(q, s)[Len(q) + 1] = s
      /\ \A i \in 1 .. Len(q) : Append(q, s)[i] = q[i]
  BY Appended
<1>4. \A i : i \in 1 .. Len(q) + 1 <=> i \in 1 .. Len(q) \/ i = Len(q) + 1
  BY <1>3
<1>5. \A o : Within(Append(q, s), o) <=> Within(q, o) \/ o = s
  BY <1>3, <1>4 DEF Within
<1>6. Distinct(Append(q, s))
  <2>1. Distinct(q) /\ ~ Within(q, s)
    BY <1>2 DEF Placed
  <2> QED BY <1>3, <1>4, <2>1 DEF Distinct, Within
<1>7. q # <<>> => Append(q, s)[1] = q[1]
  OBVIOUS
<1>8. q = <<>> => Append(q, s)[1] = s
  OBVIOUS
<1>9. \A r \in Requests : open'[r] # <<>> => open'[r][1] = r
  BY <1>1, <1>2, <1>7, <1>8, Sorts DEF Placed
<1>10. \A o : Within(open'[c], o) <=> Within(open[c], o) \/ o = s
  BY <1>1, <1>2, <1>5
<1>11. ASSUME NEW d \in Contexts, d # c PROVE \A o : Within(open'[d], o) <=> Within(open[d], o)
  BY <1>1, <1>11
<1>12. \A d \in Contexts : Distinct(open'[d])
  BY <1>1, <1>2, <1>6 DEF Placed
<1> QED BY <1>9, <1>10, <1>11, <1>12

LEMMA OpenEnds ==
  ASSUME ScopesTypeOK, Placed, NEW c \in Contexts, NEW s \in Scopes, Innermost(c, s), Ends(c)
  PROVE  /\ \A d \in Contexts : \A o : Within(open'[d], o) <=> Within(open[d], o) /\ o # s
         /\ \A d \in Contexts : Distinct(open'[d])
         /\ \A r \in Requests : open'[r] # <<>> => open'[r][1] = r
         /\ Within(open[c], s)
<1>1. open'[c] = Front(open[c]) /\ \A d \in Contexts : d # c => open'[d] = open[d]
  BY DEF Ends, ScopesTypeOK
<1>2. PICK q \in Seq(Scopes) : q = open[c] /\ q # <<>> /\ Last(q) = s
  BY Types DEF Innermost
<1>3. /\ Front(q) \in Seq(Scopes) /\ Len(q) \in Nat /\ Len(q) >= 1
      /\ Len(Front(q)) = Len(q) - 1 /\ q[Len(q)] = s
      /\ \A i \in 1 .. Len(q) - 1 : Front(q)[i] = q[i]
  BY <1>2, FrontLast
<1>4. \A i : i \in 1 .. Len(q) <=> i \in 1 .. Len(q) - 1 \/ i = Len(q)
  BY <1>3
<1>5. Distinct(q)
  BY <1>2 DEF Placed
<1>6. \A o : Within(Front(q), o) <=> Within(q, o) /\ o # s
  <2>1. \A i \in 1 .. Len(q) - 1 : i # Len(q) /\ i \in 1 .. Len(q) /\ Len(q) \in 1 .. Len(q)
    BY <1>3
  <2>2. \A i \in 1 .. Len(q) - 1 : q[i] # s
    BY <1>3, <1>5, <2>1 DEF Distinct
  <2> QED BY <1>3, <1>4, <2>2 DEF Within
<1>7. Distinct(Front(q))
  BY <1>3, <1>4, <1>5 DEF Distinct
<1>8. Within(q, s)
  BY <1>3, <1>4 DEF Within
<1>9. \A d \in Contexts : d # c => ~ Within(open[d], s)
  BY <1>2, <1>8 DEF Placed
<1>10. Front(q) # <<>> => Front(q)[1] = q[1]
  <2>1. PICK f \in Seq(Scopes) : f = Front(q)
    BY <1>3
  <2>2. f # <<>> => 1 \in 1 .. Len(f)
    OBVIOUS
  <2> QED BY <1>3, <2>1, <2>2
<1>11. \A r \in Requests : open'[r] # <<>> => open'[r][1] = r
  BY <1>1, <1>2, <1>10, Sorts DEF Placed
<1> QED BY <1>1, <1>2, <1>6, <1>7, <1>8, <1>9, <1>11 DEF Placed

\* All requests but s, and all tasks but s, stay where they are.
OthersStay(s) ==
  /\ \A r \in Requests : r # s =>
       kind'[r] = kind[r] /\ home'[r] = home[r] /\ rpc'[r] = rpc[r]
  /\ \A t \in Tasks : t # s => tpc'[t] = tpc[t]

LEMMA PlacedStarts ==
  ASSUME ScopesTypeOK, Placed, NEW c \in Contexts, NEW s \in Scopes, Starts(c, s),
         \A d \in Contexts : ~ Within(open[d], s),
         c \in Requests /\ open[c] = <<>> => s = c, OthersStay(s),
         s \in Requests => /\ c = Where(s)' /\ rpc'[s] \in {"inside", "streaming"}
                           /\ home'[s] \in Threads,
         s \in Tasks => tpc'[s] = "running"
  PROVE  Placed'
<1>1. /\ \A d \in Contexts : \A o : Within(open'[d], o) <=> Within(open[d], o) \/ (d = c /\ o = s)
      /\ \A d \in Contexts : Distinct(open'[d])
      /\ \A r \in Requests : open'[r] # <<>> => open'[r][1] = r
  BY OpenStarts
<1>2. \A r \in Requests : r # s => Where(r)' = Where(r)
  BY DEF OthersStay, Where
<1>3. \A d, e \in Contexts : \A o \in Scopes :
        Within(open'[d], o) /\ Within(open'[e], o) => d = e
  BY <1>1 DEF Placed
<1>4. \A d \in Contexts : \A r \in Requests : Within(open'[d], r) =>
        /\ d = Where(r)'
        /\ \/ rpc'[r] \in {"inside", "streaming"}
           \/ kind'[r] = "wsgi" /\ rpc'[r] \in {"body", "done"}
  <2> SUFFICES ASSUME NEW d \in Contexts, NEW r \in Requests, Within(open'[d], r)
               PROVE  /\ d = Where(r)'
                      /\ \/ rpc'[r] \in {"inside", "streaming"}
                         \/ kind'[r] = "wsgi" /\ rpc'[r] \in {"body", "done"}
    OBVIOUS
  <2>1. CASE r # s
    <3>1. Within(open[d], r)
      BY <1>1, <2>1
    <3>2. /\ d = Where(r)
          /\ \/ rpc[r] \in {"inside", "streaming"}
             \/ kind[r] = "wsgi" /\ rpc[r] \in {"body", "done"}
      BY <3>1 DEF Placed
    <3>3. kind'[r] = kind[r] /\ rpc'[r] = rpc[r]
      BY <2>1 DEF OthersStay
    <3> QED BY <1>2, <2>1, <3>2, <3>3
  <2>2. CASE r = s
    BY <1>1, <2>2
  <2> QED BY <2>1, <2>2
<1>5. \A d \in Contexts : \A t \in Tasks : Within(open'[d], t) => tpc'[t] = "running"
  BY <1>1 DEF Placed, OthersStay
<1>6. \A r \in Requests : rpc'[r] \in {"inside", "streaming"} => home'[r] \in Threads
  BY DEF Placed, OthersStay
<1> QED BY <1>1, <1>3, <1>4, <1>5, <1>6 DEF Placed

LEMMA PlacedEnds ==
  ASSUME ScopesTypeOK, Placed, NEW c \in Contexts, NEW s \in Scopes, Innermost(c, s), Ends(c),
         OthersStay(s), s \in Requests => rpc'[s] \notin {"inside", "streaming"}
  PROVE  Placed'
<1>1. /\ \A d \in Contexts : \A o : Within(open'[d], o) <=> Within(open[d], o) /\ o # s
      /\ \A d \in Contexts : Distinct(open'[d])
      /\ \A r \in Requests : open'[r] # <<>> => open'[r][1] = r
  BY OpenEnds
<1>2. \A r \in Requests : r # s => Where(r)' = Where(r)
  BY DEF OthersStay, Where
<1>3. \A d, e \in Contexts : \A o \in Scopes :
        Within(open'[d], o) /\ Within(open'[e], o) => d = e
  BY <1>1 DEF Placed
<1>4. \A d \in Contexts : \A r \in Requests : Within(open'[d], r) =>
        /\ d = Where(r)'
        /\ \/ rpc'[r] \in {"inside", "streaming"}
           \/ kind'[r] = "wsgi" /\ rpc'[r] \in {"body", "done"}
  <2> SUFFICES ASSUME NEW d \in Contexts, NEW r \in Requests, Within(open'[d], r)
               PROVE  /\ d = Where(r)'
                      /\ \/ rpc'[r] \in {"inside", "streaming"}
                         \/ kind'[r] = "wsgi" /\ rpc'[r] \in {"body", "done"}
    OBVIOUS
  <2>1. CASE r # s
    <3>1. Within(open[d], r)
      BY <1>1, <2>1
    <3>2. /\ d = Where(r)
          /\ \/ rpc[r] \in {"inside", "streaming"}
             \/ kind[r] = "wsgi" /\ rpc[r] \in {"body", "done"}
      BY <3>1 DEF Placed
    <3>3. kind'[r] = kind[r] /\ rpc'[r] = rpc[r]
      BY <2>1 DEF OthersStay
    <3> QED BY <1>2, <2>1, <3>2, <3>3
  <2>2. CASE r = s
    BY <1>1, <2>2
  <2> QED BY <2>1, <2>2
<1>5. \A d \in Contexts : \A t \in Tasks : Within(open'[d], t) => tpc'[t] = "running"
  BY <1>1 DEF Placed, OthersStay
<1>6. \A r \in Requests : rpc'[r] \in {"inside", "streaming"} => home'[r] \in Threads
  BY DEF Placed, OthersStay
<1> QED BY <1>1, <1>3, <1>4, <1>5, <1>6 DEF Placed

\* A request goes on while its code, if it runs at all, stays where it is.
LEMMA PlacedRests ==
  ASSUME ScopesTypeOK, Placed, open' = open, NEW s \in Scopes, OthersStay(s),
         s \in Requests =>
           /\ rpc'[s] \in {"inside", "streaming"} => home'[s] \in Threads
           /\ \A c \in Contexts : Within(open[c], s) =>
                /\ c = Where(s)'
                /\ \/ rpc'[s] \in {"inside", "streaming"}
                   \/ kind'[s] = "wsgi" /\ rpc'[s] \in {"body", "done"},
         s \in Tasks => tpc[s] # "running" \/ tpc'[s] = "running"
  PROVE  Placed'
<1>1. \A r \in Requests : r # s => Where(r)' = Where(r)
  BY DEF OthersStay, Where
<1> QED BY <1>1 DEF Placed, OthersStay

-----------------------------------------------------------------------------
(* What a step of each kind keeps, whoever takes it.                       *)

MoveTypes ==
  /\ bound \in [Contexts -> Snapshot \cup {None}]
  /\ open \in [Contexts -> Seq(Scopes)]
  /\ token \in [Scopes -> Token \cup {None}]

LEMMA PushTypes ==
  ASSUME ScopesTypeOK, NEW c \in Contexts, NEW s \in Scopes, NEW x \in Snapshot, Push(c, s, x)
  PROVE  /\ bound' \in [Contexts -> Snapshot \cup {None}] /\ token' \in [Scopes -> Token \cup {None}]
         /\ bound'[c] = x /\ \A d \in Contexts : d # c => bound'[d] = bound[d]
         /\ token'[s] # None /\ \A o \in Scopes : o # s => token'[o] = token[o]
<1>1. [at |-> c, old |-> bound[c]] \in Token /\ [at |-> c, old |-> bound[c]] # None
  BY Types, ContextAssumption DEF Token
<1>2. bound \in [Contexts -> Snapshot \cup {None}] /\ token \in [Scopes -> Token \cup {None}]
  BY DEF ScopesTypeOK
<1>3. PICK v \in Token : v = [at |-> c, old |-> bound[c]] /\ v # None
  BY <1>1
<1>4. token' = [token EXCEPT ![s] = v] /\ bound' = [bound EXCEPT ![c] = x]
  BY <1>3 DEF Push
<1> QED BY <1>2, <1>3, <1>4

LEMMA PopTypes ==
  ASSUME ScopesTypeOK, NEW c \in Contexts, NEW s \in Scopes, token[s] # None, Pop(c, s)
  PROVE  /\ bound' \in [Contexts -> Snapshot \cup {None}] /\ token' \in [Scopes -> Token \cup {None}]
         /\ \A d \in Contexts : d # c => bound'[d] = bound[d]
         /\ token'[s] = None /\ \A o \in Scopes : o # s => token'[o] = token[o]
<1>1. bound \in [Contexts -> Snapshot \cup {None}] /\ token \in [Scopes -> Token \cup {None}]
  BY DEF ScopesTypeOK
<1>2. token[s].old \in Snapshot \cup {None}
  BY <1>1 DEF Token
<1> QED BY <1>1, <1>2 DEF Pop

LEMMA StartsTypes ==
  ASSUME ScopesTypeOK, NEW c \in Contexts, NEW s \in Scopes, Starts(c, s)
  PROVE  open' \in [Contexts -> Seq(Scopes)]
<1>1. Append(open[c], s) \in Seq(Scopes)
  <2>1. PICK q \in Seq(Scopes) : q = open[c]
    BY Types
  <2> QED BY <2>1, Appended
<1> QED BY <1>1 DEF Starts, ScopesTypeOK

LEMMA EndsTypes ==
  ASSUME ScopesTypeOK, NEW c \in Contexts, NEW s \in Scopes, Innermost(c, s), Ends(c)
  PROVE  open' \in [Contexts -> Seq(Scopes)]
<1>1. Front(open[c]) \in Seq(Scopes)
  <2>1. PICK q \in Seq(Scopes) : q = open[c] /\ q # <<>>
    BY Types DEF Innermost
  <2> QED BY <2>1, FrontLast
<1> QED BY <1>1 DEF Ends, ScopesTypeOK

LEMMA MoveTyped ==
  ASSUME ScopesTypeOK, ScopeMove
  PROVE  MoveTypes'
<1>1. CASE Rests
  BY <1>1 DEF Rests, MoveTypes, ScopesTypeOK
<1>2. ASSUME NEW c \in Contexts, Bind(c) PROVE MoveTypes'
  <2>1. Last(Scoping(c)) \in Scopes
    <3>1. PICK q \in Seq(Scopes) : q = Scoping(c) /\ q # <<>>
      BY <1>2, ScopingShape DEF Bind
    <3> QED BY <3>1, FrontLast
  <2>2. bound[c] \in Snapshot
    BY <1>2, Types DEF Bind
  <2>3. PICK a \in Scopes : a = Last(Scoping(c))
    BY <2>1
  <2>4. [bound[c] EXCEPT !.attributes = @ \cup {a}] \in Snapshot
    BY <2>2 DEF Snapshot
  <2>5. bound' = [bound EXCEPT ![c] = [bound[c] EXCEPT !.attributes = @ \cup {a}]]
        /\ UNCHANGED <<open, token>>
    BY <1>2, <2>3 DEF Bind
  <2> QED BY <2>4, <2>5 DEF MoveTypes, ScopesTypeOK
<1>3. ASSUME NEW c \in Contexts, NEW s \in Scopes, NEW x \in Snapshot, Enters(c, s, x)
      PROVE  MoveTypes'
  BY <1>3, PushTypes, StartsTypes DEF Enters, MoveTypes
<1>4. ASSUME NEW c \in Contexts, NEW s \in Scopes, SlipsIn(c, s) PROVE MoveTypes'
  BY <1>4, StartsTypes DEF SlipsIn, MoveTypes, ScopesTypeOK
<1>5. ASSUME NEW c \in Contexts, NEW s \in Scopes, Leaves(c, s) PROVE MoveTypes'
  BY <1>5, PopTypes, EndsTypes DEF Leaves, MoveTypes
<1>6. ASSUME NEW c \in Contexts, NEW s \in Scopes, SlipsOut(c, s) PROVE MoveTypes'
  BY <1>6, EndsTypes DEF SlipsOut, MoveTypes, ScopesTypeOK
<1>7. ASSUME NEW r \in Requests, Abandons(r) PROVE MoveTypes'
  BY <1>7, EndsTypes, Sorts DEF Abandons, MoveTypes, ScopesTypeOK
<1> QED BY <1>1, <1>2, <1>3, <1>4, <1>5, <1>6, <1>7 DEF ScopeMove

\* The context of a request has code only once the request has begun.
LEMMA Busy ==
  ASSUME ScopesTypeOK, Placed, NEW r \in Requests, open[r] # <<>>
  PROVE  Within(open[r], r) /\ rpc[r] # "new"
<1>1. PICK q \in Seq(Scopes) : q = open[r]
  BY Types, Sorts
<1>2. q # <<>> => 1 \in 1 .. Len(q)
  OBVIOUS
<1>3. Within(open[r], r)
  BY <1>1, <1>2 DEF Placed, Within
<1> QED BY <1>3, Sorts DEF Placed

\* Code comes.
Comes(c, s) == SlipsIn(c, s) \/ \E x \in Snapshot : Enters(c, s, x)

LEMMA ComesKeeps ==
  ASSUME ScopesTypeOK, Placed, Held, NEW c \in Contexts, NEW s \in Scopes, Comes(c, s),
         c \in Requests /\ open[c] = <<>> => s = c, OthersStay(s), dark \subseteq dark',
         s \in Requests => /\ c = Where(s)' /\ rpc'[s] \in {"inside", "streaming"}
                           /\ home'[s] \in Threads
                           /\ token'[s] # None \/ (s \in dark' /\ rpc'[s] = "inside"),
         s \in Tasks => tpc'[s] = "running"
  PROVE  Placed' /\ Held' /\ \A o \in Scopes : o # s => token'[o] = token[o]
<1>1. /\ Clear(c, s) /\ Starts(c, s)
      /\ \A o \in Scopes : o # s => token'[o] = token[o]
      /\ \A d \in Contexts : d # c => bound'[d] = bound[d]
  BY PushTypes DEF Comes, SlipsIn, Enters
<1>2. Placed'
  BY <1>1, PlacedStarts DEF Clear
<1>3. \A d \in Contexts : \A o : Within(open'[d], o) => Within(open[d], o) \/ o = s
  BY <1>1, OpenStarts DEF Clear
<1>4. \A r \in Requests : rpc'[r] = "new" => token'[r] = None /\ bound'[r] = None
  <2> SUFFICES ASSUME NEW r \in Requests, rpc'[r] = "new" PROVE token'[r] = None /\ bound'[r] = None
    OBVIOUS
  <2>1. r # s /\ rpc[r] = "new"
    BY DEF OthersStay
  <2>2. r # c
    BY <2>1, Busy
  <2> QED BY <1>1, <2>1, <2>2, Sorts DEF Held
<1>5. \A t \in Tasks : token'[t] # None => tpc'[t] = "running"
  BY <1>1, Sorts DEF Held, OthersStay
<1>6. \A r \in Requests :
        rpc'[r] = "streaming" \/ (rpc'[r] = "body" /\ kind'[r] = "wsgi") => token'[r] # None
  BY <1>1, Sorts DEF Held, OthersStay
<1>7. \A d \in Contexts : \A r \in Requests \ dark' : Within(open'[d], r) => token'[r] # None
  BY <1>1, <1>3, Sorts DEF Held
<1> QED BY <1>1, <1>2, <1>4, <1>5, <1>6, <1>7 DEF Held

\* Code goes.
Goes(c, s) == Leaves(c, s) \/ SlipsOut(c, s) \/ (c = s /\ s \in Requests /\ Abandons(s))

LEMMA GoesKeeps ==
  ASSUME ScopesTypeOK, Placed, Held, NEW c \in Contexts, NEW s \in Scopes, Goes(c, s),
         OthersStay(s), dark \subseteq dark',
         s \in Requests => /\ rpc'[s] \notin {"new", "inside", "streaming"}
                           /\ rpc'[s] = "body" => kind'[s] # "wsgi"
  PROVE  Placed' /\ Held' /\ \A o \in Scopes : o # s => token'[o] = token[o]
<1>1. /\ Innermost(c, s) /\ Ends(c)
      /\ \A o \in Scopes : o # s => token'[o] = token[o]
      /\ s \notin Requests => token'[s] = None
      /\ \A d \in Contexts : d # c => bound'[d] = bound[d]
  BY PopTypes DEF Goes, Leaves, SlipsOut, Abandons
<1>2. Placed'
  BY <1>1, PlacedEnds
<1>3. \A d \in Contexts : \A o : Within(open'[d], o) => Within(open[d], o) /\ o # s
  BY <1>1, OpenEnds
<1>4. \A r \in Requests : rpc'[r] = "new" => token'[r] = None /\ bound'[r] = None
  <2> SUFFICES ASSUME NEW r \in Requests, rpc'[r] = "new" PROVE token'[r] = None /\ bound'[r] = None
    OBVIOUS
  <2>1. r # s /\ rpc[r] = "new"
    BY DEF OthersStay
  <2>2. r # c
    BY <1>1, <2>1, Busy DEF Innermost
  <2> QED BY <1>1, <2>1, <2>2, Sorts DEF Held
<1>5. \A t \in Tasks : token'[t] # None => tpc'[t] = "running"
  BY <1>1, Sorts DEF Held, OthersStay
<1>6. \A r \in Requests :
        rpc'[r] = "streaming" \/ (rpc'[r] = "body" /\ kind'[r] = "wsgi") => token'[r] # None
  BY <1>1, Sorts DEF Held, OthersStay
<1>7. \A d \in Contexts : \A r \in Requests \ dark' : Within(open'[d], r) => token'[r] # None
  BY <1>1, <1>3, Sorts DEF Held
<1> QED BY <1>1, <1>2, <1>4, <1>5, <1>6, <1>7 DEF Held

\* The code that runs is the same.
LEMMA RestsKeeps ==
  ASSUME ScopesTypeOK, Placed, Held, Rests, NEW s \in Scopes, OthersStay(s),
         dark \subseteq dark',
         s \in Requests =>
           /\ rpc'[s] \in {"inside", "streaming"} => home'[s] \in Threads
           /\ rpc'[s] = "new" => rpc[s] = "new"
           /\ rpc'[s] = "streaming" \/ (rpc'[s] = "body" /\ kind'[s] = "wsgi") => token[s] # None
           /\ \A c \in Contexts : Within(open[c], s) =>
                /\ c = Where(s)'
                /\ \/ rpc'[s] \in {"inside", "streaming"}
                   \/ kind'[s] = "wsgi" /\ rpc'[s] \in {"body", "done"},
         s \in Tasks => tpc[s] # "running" \/ tpc'[s] = "running"
  PROVE  Placed' /\ Held'
<1>1. UNCHANGED <<bound, token, open>>
  BY DEF Rests
<1>2. Placed'
  BY <1>1, PlacedRests
<1>3. \A r \in Requests : rpc'[r] = "new" => token'[r] = None /\ bound'[r] = None
  BY <1>1 DEF Held, OthersStay
<1>4. \A t \in Tasks : token'[t] # None => tpc'[t] = "running"
  BY <1>1 DEF Held, OthersStay
<1>5. \A r \in Requests :
        rpc'[r] = "streaming" \/ (rpc'[r] = "body" /\ kind'[r] = "wsgi") => token'[r] # None
  BY <1>1 DEF Held, OthersStay
<1>6. \A d \in Contexts : \A r \in Requests \ dark' : Within(open'[d], r) => token'[r] # None
  BY <1>1 DEF Held
<1> QED BY <1>2, <1>3, <1>4, <1>5, <1>6 DEF Held

-----------------------------------------------------------------------------
(* The invariant, part by part.                                            *)

RequestTypes ==
  /\ kind \in [Requests -> Kinds] /\ home \in [Requests -> Threads \cup {None}]
  /\ rpc \in [Requests -> {"new", "inside", "body", "streaming", "done"}]
  /\ stashed \in [Requests -> BOOLEAN] /\ dark \subseteq Requests
  /\ events \in [Requests -> Seq([level : {"INFO", "ERROR"}, snapshot : Snapshot \cup {None}])]
  /\ outcome \in [Requests -> {"none", "answered", "raised", "response", "quit", "unread",
                               "body", "close"}]
TaskTypes ==
  /\ tpc \in [Tasks -> {"new", "sent", "running", "done"}]
  /\ header \in [Tasks -> Scopes \cup {None}] /\ origin \in [Tasks -> Scopes \cup {None}]
  /\ idOf \in [Tasks -> Ids \cup {None}] /\ scopes \in [Ids -> Tasks \cup {None}]

LEMMA TypeParts ==
  /\ ScopesTypeOK <=> /\ off \in BOOLEAN /\ flips \in 0 .. Flips
                      /\ MoveTypes /\ RequestTypes /\ TaskTypes
  /\ ScopesTypeOK' <=> /\ off' \in BOOLEAN /\ flips' \in 0 .. Flips
                       /\ MoveTypes' /\ RequestTypes' /\ TaskTypes'
BY DEF ScopesTypeOK, MoveTypes, RequestTypes, TaskTypes

\* The code that runs in a scope sees the scope's own snapshot.
LEMMA Sees ==
  ASSUME ScopesTypeOK, Chained, NEW c \in Contexts, NEW s \in Scopes,
         Innermost(c, s), token[s] # None
  PROVE  /\ bound[c] # None /\ bound[c].span = s
         /\ s \in Tasks /\ origin[s] # None => bound[c].trace = origin[s]
<1>1. PICK q \in Seq(Scopes) : q = open[c] /\ q # <<>> /\ Last(q) = s
  BY Types DEF Innermost
<1>2. PICK p \in Seq(Scopes) : q = Append(p, s)
  BY <1>1, FrontLast
<1>3. PICK S : S = Bound(token) /\ s \in S
  BY DEF Bound
<1>4. Scoping(c) = Append(Among(p, S), s) /\ Among(p, S) \in Seq(Scopes)
  <2>1. Scoping(c) = Among(Append(p, s), S)
    BY <1>1, <1>2, <1>3, ScopingIs
  <2>2. Among(Append(p, s), S) = Append(Among(p, S), s)
    BY <1>3, AmongAppend
  <2>3. Among(p, S) \in Seq(Scopes)
    BY AmongContents
  <2> QED BY <2>1, <2>2, <2>3
<1>5. Scoping(c) # <<>> /\ Scoping(c)[Len(Scoping(c))] = s
  <2>1. PICK a \in Seq(Scopes) : a = Among(p, S)
    BY <1>4
  <2> QED BY <1>4, <2>1, Appended
<1>6. Chain(c)
  BY DEF Chained, CodeRuns, Innermost
<1> QED BY <1>5, <1>6, TopOfChain DEF Own

\* What one request may say of itself, before it is over and after.
Says(r) ==
  /\ rpc[r] # "done" => events[r] = <<>>
  /\ stashed[r] => kind[r] = "django" /\ rpc[r] # "new"
  /\ r \notin dark /\ InProgress(r) => ~ off
  /\ Len(events[r]) <= 1
  /\ \A i \in DOMAIN events[r] :
       /\ events[r][i].snapshot # None /\ events[r][i].snapshot.span = r
       /\ events[r][i].level = "ERROR" <=> outcome[r] = "raised" \/ stashed[r]
  /\ rpc[r] = "done" /\ r \in Logged \ dark =>
       events[r] = <<>> <=> outcome[r] \in {"quit", "unread", "close"}

LEMMA AllSay ==
  /\ Silent /\ OneEvent <=> \A r \in Requests : Says(r)
  /\ (Silent /\ OneEvent)' <=> \A r \in Requests : Says(r)'
BY DEF Silent, OneEvent, Says

OnlyOf(r) ==
  \A q \in Requests : q # r =>
    /\ kind'[q] = kind[q] /\ home'[q] = home[q] /\ rpc'[q] = rpc[q] /\ stashed'[q] = stashed[q]
    /\ events'[q] = events[q] /\ outcome'[q] = outcome[q] /\ (q \in dark' <=> q \in dark)

LEMMA OthersSay ==
  ASSUME Silent, OneEvent, NEW r \in Requests, OnlyOf(r), off' = off, Says(r)'
  PROVE  Silent' /\ OneEvent'
<1>1. ASSUME NEW q \in Requests, q # r PROVE Says(q)'
  BY <1>1, AllSay DEF OnlyOf, Says, InProgress
<1> QED BY <1>1, AllSay

\* What a step keeps, but for the chains.
Kept == /\ ScopesTypeOK' /\ ScopeMove /\ OriginStays /\ Placed' /\ Held'
        /\ Registered' /\ Carried' /\ Silent' /\ OneEvent'

LEMMA TasksRest ==
  ASSUME ScopesTypeOK, Registered, Carried, UNCHANGED celeryVars,
         \A t \in Tasks : token'[t] = token[t]
  PROVE  OriginStays /\ Registered' /\ Carried' /\ TaskTypes'
<1>1. Registered'
  BY DEF Registered, celeryVars, ScopesTypeOK
<1>2. OriginStays /\ Carried' /\ TaskTypes'
  BY TypeParts DEF Carried, celeryVars, OriginStays, TaskTypes
<1> QED BY <1>1, <1>2

LEMMA RequestsRest ==
  ASSUME ScopesTypeOK, Silent, OneEvent, UNCHANGED <<requestVars, off>>
  PROVE  Silent' /\ OneEvent' /\ RequestTypes'
<1>1. RequestTypes'
  BY TypeParts DEF RequestTypes, requestVars
<1>2. ASSUME NEW r \in Requests PROVE Says(r)'
  <2>1. Says(r)
    BY AllSay
  <2> QED BY <2>1 DEF Says, requestVars, InProgress
<1> QED BY <1>1, <1>2, AllSay

-----------------------------------------------------------------------------
(* bind() and operation().                                                 *)

LEMMA BindKeeps ==
  ASSUME ScopesInv, NEW c \in Contexts, Bind(c), UNCHANGED <<requestVars, celeryVars, flips>>
  PROVE  Kept
<1>1. /\ open' = open /\ token' = token /\ off' = off
      /\ \A d \in Contexts : d # c => bound'[d] = bound[d]
  BY DEF Bind, ScopesInv, ScopesTypeOK
<1>2. ScopeMove /\ MoveTypes'
  BY MoveTyped DEF ScopeMove, ScopesInv
<1>3. OriginStays /\ Registered' /\ Carried' /\ TaskTypes'
  BY <1>1, TasksRest DEF ScopesInv
<1>4. Silent' /\ OneEvent' /\ RequestTypes'
  BY <1>1, RequestsRest DEF ScopesInv
<1>5. Placed'
  BY <1>1 DEF ScopesInv, Placed, requestVars, celeryVars, Where
<1>6. c \in Requests => rpc[c] # "new"
  BY DEF Bind, ScopesInv, Held
<1>7. Held'
  BY <1>1, <1>6, Sorts DEF ScopesInv, Held, requestVars, celeryVars
<1> QED BY <1>1, <1>2, <1>3, <1>4, <1>5, <1>7, TypeParts DEF Kept, ScopesInv

LEMMA WithKeeps ==
  ASSUME ScopesInv, NEW c \in Contexts, NEW o \in Operations \ Tasks, With(o, c),
         UNCHANGED <<requestVars, celeryVars, flips>>
  PROVE  Kept
<1> USE DEF ScopesInv
<1>1. o \in Scopes /\ o \notin Requests /\ o \notin Tasks /\ off' = off
  BY Sorts DEF With
<1>2. Clear(c, o)
  BY <1>1, Types, Members DEF With, Unused, Clear
<1>3. Comes(c, o)
  <2>1. CASE off
    BY <1>2, <2>1 DEF With, Unused, EnterOperation, Comes, SlipsIn
  <2>2. CASE ~ off
    <3> DEFINE x == Opening(o, None, bound[c])
    <3>1. x \in Snapshot /\ Fits(x, c, o)
      BY <1>1, Types DEF Opening, Fresh, Snapshot, Fits
    <3>2. Push(c, o, x) /\ Starts(c, o)
      BY <2>2 DEF With, EnterOperation
    <3> HIDE DEF x
    <3>3. Enters(c, o, x)
      BY <1>1, <1>2, <3>1, <3>2 DEF Enters
    <3> QED BY <3>1, <3>3 DEF Comes
  <2> QED BY <2>1, <2>2
<1>4. ScopeMove /\ MoveTypes'
  BY <1>1, <1>3, MoveTyped DEF Comes, ScopeMove
<1>5. OthersStay(o) /\ dark' = dark
  BY DEF OthersStay, requestVars, celeryVars
<1>6. c \in Requests => open[c] # <<>>
  BY Sorts DEF With, CodeRuns
<1>7. Placed' /\ Held' /\ \A s \in Scopes : s # o => token'[s] = token[s]
  BY <1>1, <1>3, <1>5, <1>6, ComesKeeps
<1>8. OriginStays /\ Registered' /\ Carried' /\ TaskTypes'
  BY <1>1, <1>7, Sorts, TasksRest
<1>9. Silent' /\ OneEvent' /\ RequestTypes'
  BY <1>1, RequestsRest
<1> QED BY <1>1, <1>4, <1>7, <1>8, <1>9, TypeParts DEF Kept

LEMMA EndWithKeeps ==
  ASSUME ScopesInv, NEW c \in Contexts, NEW o \in Operations \ Tasks, EndWith(o, c),
         UNCHANGED <<requestVars, celeryVars, flips>>
  PROVE  Kept
<1> USE DEF ScopesInv
<1>1. o \in Scopes /\ o \notin Requests /\ o \notin Tasks /\ off' = off
  BY Sorts DEF EndWith
<1>2. Goes(c, o)
  BY DEF EndWith, ExitOperation, Goes, Leaves, SlipsOut
<1>3. ScopeMove /\ MoveTypes'
  BY <1>1, <1>2, MoveTyped DEF Goes, ScopeMove
<1>4. OthersStay(o) /\ dark' = dark
  BY DEF OthersStay, requestVars, celeryVars
<1>5. Placed' /\ Held' /\ \A s \in Scopes : s # o => token'[s] = token[s]
  BY <1>1, <1>2, <1>4, GoesKeeps
<1>6. OriginStays /\ Registered' /\ Carried' /\ TaskTypes'
  BY <1>1, <1>5, Sorts, TasksRest
<1>7. Silent' /\ OneEvent' /\ RequestTypes'
  BY <1>1, RequestsRest
<1> QED BY <1>1, <1>3, <1>5, <1>6, <1>7, TypeParts DEF Kept

-----------------------------------------------------------------------------
(* Requests.                                                               *)

LEMMA RequestKeeps ==
  ASSUME ScopesInv, NEW r \in Requests, UNCHANGED <<celeryVars, flips>>, off' = off,
         ScopeMove, \A t \in Tasks : token'[t] = token[t],
         RequestTypes', Placed', Held', OnlyOf(r), Says(r)'
  PROVE  Kept
<1> USE DEF ScopesInv
<1>1. OriginStays /\ Registered' /\ Carried' /\ TaskTypes'
  BY TasksRest
<1>2. Silent' /\ OneEvent'
  BY OthersSay
<1>3. MoveTypes'
  BY MoveTyped
<1>4. flips' = flips
  OBVIOUS
<1> QED BY <1>1, <1>2, <1>3, <1>4, TypeParts DEF Kept

LEMMA InPlace ==
  ASSUME ScopesTypeOK, Placed, NEW r \in Requests, rpc[r] \in {"inside", "streaming"}
  PROVE  /\ Where(r) \in Contexts /\ home[r] \in Threads
         /\ kind[r] = "wsgi" => Where(r) = r
         /\ kind[r] # "wsgi" => Where(r) = home[r]
<1>1. home[r] \in Threads
  BY DEF Placed
<1> QED BY <1>1, Sorts DEF Where, Place

Event == [level : {"INFO", "ERROR"}, snapshot : Snapshot \cup {None}]

LEMMA Emitted ==
  ASSUME ScopesTypeOK, NEW r \in Requests, events[r] = <<>>, Where(r) \in Contexts,
         NEW level \in {"INFO", "ERROR"}, Emit(r, level)
  PROVE  /\ events' \in [Requests -> Seq(Event)]
         /\ \A q \in Requests : q # r => events'[q] = events[q]
         /\ off \/ r \notin Logged => events'[r] = <<>>
         /\ ~ off /\ r \in Logged =>
              /\ events'[r] # <<>> /\ Len(events'[r]) = 1 /\ DOMAIN events'[r] = {1}
              /\ events'[r][1] = [level |-> level, snapshot |-> bound[Where(r)]]
<1>1. events \in [Requests -> Seq(Event)]
  BY DEF ScopesTypeOK, Event
<1>2. CASE off \/ r \notin Logged
  BY <1>1, <1>2 DEF Emit
<1>3. CASE ~ off /\ r \in Logged
  <2>1. PICK e \in Event : e = [level |-> level, snapshot |-> bound[Where(r)]]
    BY Types DEF Event
  <2>a. <<>> \in Seq(Event)
    OBVIOUS
  <2>2. PICK p \in Seq(Event) : p = <<>>
    BY <2>a
  <2>3. /\ Append(p, e) \in Seq(Event) /\ Append(p, e) # <<>> /\ Len(Append(p, e)) = 1
        /\ DOMAIN Append(p, e) = {1} /\ Append(p, e)[1] = e
    BY <2>2
  <2>4. events' = [events EXCEPT ![r] = Append(p, e)]
    BY <1>3, <2>1, <2>2 DEF Emit
  <2> QED BY <1>1, <1>3, <2>1, <2>3, <2>4
<1> QED BY <1>2, <1>3

LEMMA BeginKeeps ==
  ASSUME ScopesInv, NEW r \in Requests, NEW k \in Kinds, NEW t \in Threads, Begin(r, k, t),
         UNCHANGED <<celeryVars, flips>>
  PROVE  Kept
<1> USE DEF ScopesInv
<1> DEFINE c == Place(k, r, t)
<1>1. c \in Contexts /\ r \in Scopes /\ r \notin Tasks /\ (c \in Threads \/ c = r)
  BY Sorts DEF Place
<1>2. /\ rpc[r] = "new" /\ off' = off
      /\ kind' = [kind EXCEPT ![r] = k] /\ home' = [home EXCEPT ![r] = t]
      /\ rpc' = [rpc EXCEPT ![r] = "inside"]
      /\ dark' = IF off THEN dark \cup {r} ELSE dark
      /\ UNCHANGED <<stashed, events, outcome>>
      /\ Starts(c, r) /\ IF off THEN UNCHANGED <<bound, token>> ELSE Push(c, r, Fresh(r, r))
  BY DEF Begin
<1>3. kind'[r] = k /\ home'[r] = t /\ rpc'[r] = "inside" /\ c = Where(r)'
  BY <1>2 DEF ScopesTypeOK, Where
<1>4. token[r] = None /\ bound[r] = None
  BY <1>2 DEF Held
<1> HIDE DEF c
<1>5. Clear(c, r)
  <2>1. \A d \in Contexts : ~ Within(open[d], r)
    BY <1>2 DEF Placed
  <2>2. ~ CodeRuns(c) => bound[c] = None
    BY <1>1, <1>4 DEF CodeRuns
  <2> QED BY <2>1, <2>2 DEF Clear
<1>6. Comes(c, r) /\ (~ off => token'[r] # None)
  <2>1. CASE off
    BY <1>2, <1>4, <1>5, <2>1 DEF Comes, SlipsIn
  <2>2. CASE ~ off
    <3>1. Fresh(r, r) \in Snapshot /\ Fits(Fresh(r, r), c, r)
      BY <1>1 DEF Fresh, Snapshot, Fits
    <3>2. Push(c, r, Fresh(r, r)) /\ Starts(c, r)
      BY <1>2, <2>2
    <3>3. Enters(c, r, Fresh(r, r))
      BY <1>1, <1>5, <3>1, <3>2 DEF Enters
    <3> QED BY <1>1, <3>1, <3>2, <3>3, PushTypes DEF Comes
  <2> QED BY <2>1, <2>2
<1>7. ScopeMove
  BY <1>1, <1>6 DEF Comes, ScopeMove
<1>8. OnlyOf(r) /\ OthersStay(r) /\ dark \subseteq dark'
  BY <1>2 DEF OnlyOf, OthersStay, celeryVars, ScopesTypeOK
<1>9. Placed' /\ Held' /\ \A o \in Scopes : o # r => token'[o] = token[o]
  <2>1. c \in Requests => r = c
    BY <1>1, Sorts
  <2>2. token'[r] # None \/ r \in dark'
    BY <1>2, <1>6
  <2>3. rpc'[r] \in {"inside", "streaming"} /\ home'[r] \in Threads
    BY <1>3
  <2> QED BY <1>1, <1>3, <1>6, <1>8, <2>1, <2>2, <2>3, ComesKeeps
<1>10. RequestTypes'
  BY <1>2, TypeParts DEF RequestTypes
<1>11. Says(r)'
  BY <1>2, <1>3, AllSay DEF Says, InProgress
<1>12. \A u \in Tasks : token'[u] = token[u]
  BY <1>9, Sorts
<1> QED BY <1>2, <1>7, <1>8, <1>9, <1>10, <1>11, <1>12, RequestKeeps

LEMMA PassKeeps ==
  ASSUME ScopesInv, NEW r \in Requests, Pass(r), UNCHANGED <<celeryVars, flips>>
  PROVE  Kept
<1> USE DEF ScopesInv
<1> DEFINE c == Where(r)
<1>1. c \in Contexts /\ r \in Scopes
  BY InPlace, Sorts DEF Pass, Inside
<1>2. /\ rpc[r] = "inside" /\ Innermost(c, r) /\ token[r] = None /\ off' = off
      /\ Ends(c) /\ UNCHANGED <<bound, token, kind, stashed, events, dark>>
      /\ rpc' = [rpc EXCEPT ![r] = "done"] /\ home' = [home EXCEPT ![r] = None]
      /\ outcome' = [outcome EXCEPT ![r] = "answered"]
  BY DEF Pass, Inside, Scoped, Finish
<1> HIDE DEF c
<1>3. rpc'[r] = "done"
  BY <1>2 DEF ScopesTypeOK
<1>4. Goes(c, r)
  BY <1>2 DEF Goes, SlipsOut
<1>5. ScopeMove
  BY <1>1, <1>2 DEF SlipsOut, ScopeMove
<1>6. OnlyOf(r) /\ OthersStay(r) /\ dark \subseteq dark'
  BY <1>2 DEF OnlyOf, OthersStay, celeryVars, ScopesTypeOK
<1>7. Placed' /\ Held'
  BY <1>1, <1>3, <1>4, <1>6, GoesKeeps
<1>8. RequestTypes'
  BY <1>2, TypeParts DEF RequestTypes
<1>9. r \in dark
  <2>1. Within(open[c], r)
    BY <1>1, <1>2, OpenEnds
  <2> QED BY <1>1, <1>2, <2>1 DEF Held
<1>10. Says(r)'
  <2>1. events'[r] = <<>> /\ r \in dark'
    BY <1>2, <1>9, AllSay DEF Says
  <2>2. \A i \in DOMAIN <<>> : FALSE
    OBVIOUS
  <2>3. stashed'[r] => kind'[r] = "django" /\ rpc'[r] # "new"
    BY <1>2, <1>3, AllSay DEF Says
  <2> QED BY <1>3, <2>1, <2>2, <2>3 DEF Says
<1> QED BY <1>2, <1>5, <1>6, <1>7, <1>8, <1>10, RequestKeeps

LEMMA ViewRaisesKeeps ==
  ASSUME ScopesInv, NEW r \in Requests, ViewRaises(r), UNCHANGED <<celeryVars, flips>>
  PROVE  Kept
<1> USE DEF ScopesInv
<1>1. /\ rpc[r] = "inside" /\ kind[r] = "django"
      /\ stashed' = [stashed EXCEPT ![r] = TRUE]
      /\ UNCHANGED <<off, bound, open, token, kind, home, rpc, events, outcome, dark>>
  BY DEF ViewRaises, Inside, contextVars
<1>2. Rests /\ ScopeMove
  BY <1>1 DEF Rests, ScopeMove
<1>3. OnlyOf(r)
  BY <1>1 DEF OnlyOf, ScopesTypeOK
<1>4. Placed' /\ Held'
  BY <1>1 DEF Placed, Held, Where, celeryVars
<1>5. RequestTypes'
  BY <1>1, TypeParts DEF RequestTypes
<1>6. Says(r)'
  <2>1. events'[r] = <<>>
    BY <1>1, AllSay DEF Says
  <2>2. \A i \in DOMAIN <<>> : FALSE
    OBVIOUS
  <2>3. r \notin dark' /\ InProgress(r)' => ~ off'
    BY <1>1, AllSay DEF Says, InProgress
  <2>4. Len(<<>>) = 0
    OBVIOUS
  <2> QED BY <1>1, <2>1, <2>2, <2>3, <2>4 DEF Says
<1> QED BY <1>1, <1>2, <1>3, <1>4, <1>5, <1>6, RequestKeeps

\* The scope of a request is over, with the event that is due.
Due(r, how) ==
  \/ /\ how \notin {"quit", "unread", "close"}
     /\ \E level \in {"INFO", "ERROR"} :
          /\ Emit(r, level)
          /\ level = "ERROR" <=> how = "raised" \/ stashed[r]
  \/ how = "quit" /\ UNCHANGED events

LEMMA ClosesKeeps ==
  ASSUME ScopesInv, NEW r \in Requests,
         NEW how \in {"answered", "raised", "response", "quit", "body"},
         rpc[r] \in {"inside", "streaming"}, Innermost(Where(r), r), token[r] # None,
         Close(r), Finish(r, how), Due(r, how),
         UNCHANGED <<off, kind, stashed, dark, celeryVars, flips>>
  PROVE  Kept
<1> USE DEF ScopesInv
<1> DEFINE c == Where(r)
<1>1. c \in Contexts /\ r \in Scopes
  BY InPlace, Sorts
<1>2. /\ rpc' = [rpc EXCEPT ![r] = "done"] /\ home' = [home EXCEPT ![r] = None]
      /\ outcome' = [outcome EXCEPT ![r] = how]
  BY DEF Finish
<1>3. rpc'[r] = "done" /\ outcome'[r] = how
  BY <1>2 DEF ScopesTypeOK
<1>4. Leaves(c, r)
  BY DEF Leaves, Close
<1>5. events[r] = <<>> /\ (r \notin dark => ~ off)
  BY AllSay DEF Says, InProgress
<1>6. bound[c] # None /\ bound[c].span = r
  BY <1>1, Sees
<1>7. /\ events' \in [Requests -> Seq(Event)]
      /\ \A q \in Requests : q # r => events'[q] = events[q]
      /\ Says(r)'
  <2>1. \A i \in DOMAIN <<>> : FALSE
    OBVIOUS
  <2>2. stashed'[r] => kind'[r] = "django" /\ rpc'[r] # "new"
    BY <1>3, AllSay DEF Says
  <2>3. Len(<<>>) = 0
    OBVIOUS
  <2>4. CASE how = "quit" /\ UNCHANGED events
    <3>1. events'[r] = <<>> /\ outcome'[r] = "quit"
      BY <1>3, <1>5, <2>4
    <3>2. Says(r)'
      BY <1>3, <2>1, <2>2, <2>3, <3>1 DEF Says, InProgress
    <3> QED BY <2>4, <3>2 DEF ScopesTypeOK, Event
  <2>5. ASSUME how \notin {"quit", "unread", "close"}, NEW level \in {"INFO", "ERROR"},
               Emit(r, level), level = "ERROR" <=> how = "raised" \/ stashed[r]
        PROVE  /\ events' \in [Requests -> Seq(Event)]
               /\ \A q \in Requests : q # r => events'[q] = events[q]
               /\ Says(r)'
    <3>1. /\ events' \in [Requests -> Seq(Event)]
          /\ \A q \in Requests : q # r => events'[q] = events[q]
          /\ off \/ r \notin Logged => events'[r] = <<>>
          /\ ~ off /\ r \in Logged =>
              /\ events'[r] # <<>> /\ Len(events'[r]) = 1 /\ DOMAIN events'[r] = {1}
              /\ events'[r][1] = [level |-> level, snapshot |-> bound[c]]
      BY <1>1, <1>5, <2>5, Emitted
    <3>2. CASE off \/ r \notin Logged
      <4>1. events'[r] = <<>> /\ r \notin Logged \ dark'
        BY <1>5, <3>1, <3>2
      <4> QED BY <1>3, <2>1, <2>2, <2>3, <3>1, <4>1 DEF Says, InProgress
    <3>3. CASE ~ off /\ r \in Logged
      <4>1. /\ events'[r] # <<>> /\ Len(events'[r]) = 1 /\ DOMAIN events'[r] = {1}
            /\ events'[r][1].snapshot # None /\ events'[r][1].snapshot.span = r
            /\ events'[r][1].level = "ERROR" <=> how = "raised" \/ stashed[r]
        BY <1>6, <2>5, <3>1, <3>3
      <4>2. outcome'[r] \notin {"quit", "unread", "close"}
        BY <1>3, <2>5
      <4> QED BY <1>3, <2>2, <3>1, <4>1, <4>2 DEF Says, InProgress
    <3> QED BY <3>2, <3>3
  <2> QED BY <2>4, <2>5 DEF Due
<1> HIDE DEF c
<1>8. ScopeMove
  BY <1>1, <1>4 DEF ScopeMove
<1>9. OnlyOf(r) /\ OthersStay(r) /\ dark \subseteq dark'
  BY <1>2, <1>7 DEF OnlyOf, OthersStay, celeryVars, ScopesTypeOK
<1>10. Placed' /\ Held' /\ \A o \in Scopes : o # r => token'[o] = token[o]
  BY <1>1, <1>3, <1>4, <1>9, GoesKeeps DEF Goes
<1>11. RequestTypes'
  BY <1>2, <1>7, TypeParts DEF RequestTypes, Event
<1>12. \A u \in Tasks : token'[u] = token[u]
  BY <1>10, Sorts
<1> QED BY <1>7, <1>8, <1>9, <1>10, <1>11, <1>12, RequestKeeps

LEMMA AnswerKeeps ==
  ASSUME ScopesInv, NEW r \in Requests, Answer(r), UNCHANGED <<celeryVars, flips>>
  PROVE  Kept
<1>1. Level(r) \in {"INFO", "ERROR"} /\ (Level(r) = "ERROR" <=> stashed[r])
  BY DEF Level
<1>2. Emit(r, Level(r))
  BY DEF Answer
<1>3. Due(r, "answered")
  BY <1>1, <1>2 DEF Due
<1> QED BY <1>3, ClosesKeeps DEF Answer, Inside, Scoped

LEMMA RaiseKeeps ==
  ASSUME ScopesInv, NEW r \in Requests, NEW how \in {"raised", "response", "quit"}, Raise(r, how),
         UNCHANGED <<celeryVars, flips>>
  PROVE  Kept
<1>1. stashed[r] => kind[r] = "django"
  BY DEF ScopesInv, Silent
<1>2. Due(r, how)
  BY <1>1 DEF Raise, EmitFailure, Due
<1> QED BY <1>2, ClosesKeeps DEF Raise, Inside, Scoped

LEMMA EndKeeps ==
  ASSUME ScopesInv, NEW r \in Requests, NEW how \in {"answered", "body", "close"}, End(r, how),
         UNCHANGED <<celeryVars, flips>>
  PROVE  Kept
<1>1. token[r] # None /\ rpc[r] = "streaming" /\ Innermost(Where(r), r)
  BY DEF End, ScopesInv, Held
<1>2. CASE how # "close"
  <2>1. Level(r) \in {"INFO", "ERROR"} /\ (Level(r) = "ERROR" <=> stashed[r])
    BY DEF Level
  <2>2. Emit(r, Level(r)) /\ Close(r)
    BY <1>2 DEF End
  <2>3. Due(r, how)
    BY <1>2, <2>1, <2>2 DEF Due
  <2> QED BY <1>1, <1>2, <2>2, <2>3, ClosesKeeps DEF End
<1>3. CASE how = "close"
  <2> USE DEF ScopesInv
  <2>1. /\ kind[r] = "wsgi" /\ Ends(Where(r))
        /\ UNCHANGED <<off, bound, token, events, kind, stashed, dark>>
        /\ rpc' = [rpc EXCEPT ![r] = "done"] /\ home' = [home EXCEPT ![r] = None]
        /\ outcome' = [outcome EXCEPT ![r] = how]
    BY <1>3 DEF End, Finish
  <2>2. Where(r) = r /\ r \in Contexts /\ r \in Scopes
    BY <1>1, <2>1, InPlace, Sorts
  <2>3. rpc'[r] = "done" /\ outcome'[r] = "close"
    BY <1>3, <2>1 DEF ScopesTypeOK
  <2>4. Abandons(r)
    BY <1>1, <2>1, <2>2 DEF Abandons
  <2>5. ScopeMove
    BY <2>4 DEF ScopeMove
  <2>6. OnlyOf(r) /\ OthersStay(r) /\ dark \subseteq dark'
    BY <2>1 DEF OnlyOf, OthersStay, celeryVars, ScopesTypeOK
  <2>7. Placed' /\ Held'
    BY <2>2, <2>3, <2>4, <2>6, GoesKeeps DEF Goes
  <2>8. RequestTypes'
    BY <2>1, TypeParts DEF RequestTypes
  <2>9. Says(r)'
    <3>1. events'[r] = <<>> /\ (stashed'[r] => kind'[r] = "django")
      BY <1>1, <2>1, AllSay DEF Says
    <3>2. \A i \in DOMAIN <<>> : FALSE
      OBVIOUS
    <3>3. Len(<<>>) = 0
      OBVIOUS
    <3> QED BY <2>3, <3>1, <3>2, <3>3 DEF Says, InProgress
  <2> QED BY <2>1, <2>5, <2>6, <2>7, <2>8, <2>9, RequestKeeps
<1> QED BY <1>2, <1>3

LEMMA SaysNothing ==
  ASSUME ScopesInv, NEW r \in Requests, rpc[r] # "done", events' = events,
         r \notin dark' /\ InProgress(r)' => ~ off',
         stashed'[r] => kind'[r] = "django" /\ rpc'[r] # "new",
         rpc'[r] # "done" \/ outcome'[r] \in {"quit", "unread", "close"}
  PROVE  Says(r)'
<1>1. events'[r] = <<>>
  BY AllSay DEF ScopesInv, Says
<1>2. \A i \in DOMAIN <<>> : FALSE
  OBVIOUS
<1>3. Len(<<>>) = 0
  OBVIOUS
<1> QED BY <1>1, <1>2, <1>3 DEF Says

LEMMA AnswerStreamKeeps ==
  ASSUME ScopesInv, NEW r \in Requests, AnswerStream(r), UNCHANGED <<celeryVars, flips>>
  PROVE  Kept
<1> USE DEF ScopesInv
<1> DEFINE c == Where(r)
<1>1. c \in Contexts /\ r \in Scopes
  BY InPlace, Sorts DEF AnswerStream, Inside
<1>2. /\ rpc[r] = "inside" /\ Innermost(c, r) /\ token[r] # None
      /\ rpc' = [rpc EXCEPT ![r] = "body"]
      /\ UNCHANGED <<off, kind, home, stashed, events, outcome, dark>>
      /\ IF kind[r] = "wsgi" THEN UNCHANGED <<bound, open, token>> ELSE Close(r)
  BY DEF AnswerStream, Inside, Scoped
<1>3. rpc'[r] = "body" /\ c = Where(r)'
  BY <1>2 DEF ScopesTypeOK, Where
<1>4. OnlyOf(r) /\ OthersStay(r) /\ dark \subseteq dark'
  BY <1>2 DEF OnlyOf, OthersStay, celeryVars, ScopesTypeOK
<1>5. RequestTypes'
  BY <1>2, TypeParts DEF RequestTypes
<1>6. Says(r)'
  <2>1. r \notin dark' => ~ off'
    BY <1>2, AllSay DEF Says, InProgress
  <2>2. stashed'[r] => kind'[r] = "django"
    BY <1>2, AllSay DEF Says
  <2> QED BY <1>2, <1>3, <2>1, <2>2, SaysNothing
<1>7. CASE kind[r] = "wsgi"
  <2>1. Rests /\ ScopeMove
    BY <1>2, <1>7 DEF Rests, ScopeMove
  <2>2. \A d \in Contexts : Within(open[d], r) => d = Where(r)'
    BY <1>3 DEF Placed
  <2>3. Placed' /\ Held'
    <3>1. kind'[r] = "wsgi"
      BY <1>2, <1>7
    <3> QED BY <1>1, <1>2, <1>3, <1>4, <2>1, <2>2, <3>1, RestsKeeps, Sorts
  <2>4. \A u \in Tasks : token'[u] = token[u]
    BY <2>1 DEF Rests
  <2> QED BY <1>2, <1>4, <1>5, <1>6, <2>1, <2>3, <2>4, RequestKeeps
<1>8. CASE kind[r] # "wsgi"
  <2>1. Leaves(c, r)
    BY <1>2, <1>8 DEF Leaves, Close
  <2>2. ScopeMove
    BY <1>1, <2>1 DEF ScopeMove
  <2>3. kind'[r] # "wsgi"
    BY <1>2, <1>8
  <2> HIDE DEF c
  <2>4. Placed' /\ Held' /\ \A o \in Scopes : o # r => token'[o] = token[o]
    BY <1>1, <1>3, <1>4, <2>1, <2>3, GoesKeeps DEF Goes
  <2>5. \A u \in Tasks : token'[u] = token[u]
    BY <2>4, Sorts
  <2> QED BY <1>2, <1>4, <1>5, <1>6, <2>2, <2>4, <2>5, RequestKeeps
<1> QED BY <1>7, <1>8

LEMMA StartKeeps ==
  ASSUME ScopesInv, NEW r \in Requests, NEW t \in Threads, Start(r, t),
         UNCHANGED <<celeryVars, flips>>
  PROVE  Kept
<1> USE DEF ScopesInv
<1>1. /\ rpc[r] = "body" /\ (kind[r] = "wsgi" => t = home[r])
      /\ home' = [home EXCEPT ![r] = t] /\ rpc' = [rpc EXCEPT ![r] = "streaming"]
      /\ UNCHANGED <<off, kind, stashed, events, outcome, dark>>
      /\ IF kind[r] = "wsgi" THEN UNCHANGED <<bound, open, token>>
         ELSE Push(t, r, Fresh(r, r)) /\ Starts(t, r)
  BY DEF Start
<1>2. rpc'[r] = "streaming" /\ home'[r] = t /\ Where(r)' = Place(kind[r], r, t)
  BY <1>1 DEF ScopesTypeOK, Where
<1>3. t \in Contexts /\ t \notin Requests /\ r \in Scopes
  BY Sorts
<1>4. OnlyOf(r) /\ OthersStay(r) /\ dark \subseteq dark'
  BY <1>1 DEF OnlyOf, OthersStay, celeryVars, ScopesTypeOK
<1>5. RequestTypes'
  BY <1>1, TypeParts DEF RequestTypes
<1>6. Says(r)'
  <2>1. r \notin dark' => ~ off'
    BY <1>1, AllSay DEF Says, InProgress
  <2>2. stashed'[r] => kind'[r] = "django"
    BY <1>1, AllSay DEF Says
  <2> QED BY <1>1, <1>2, <2>1, <2>2, SaysNothing
<1>7. CASE kind[r] = "wsgi"
  <2>1. Rests /\ ScopeMove
    BY <1>1, <1>7 DEF Rests, ScopeMove
  <2>2. \A d \in Contexts : Within(open[d], r) => d = Where(r)'
    BY <1>2, <1>7 DEF Placed, Where, Place
  <2>3. token[r] # None
    BY <1>1, <1>7 DEF Held
  <2>4. Placed' /\ Held'
    BY <1>2, <1>3, <1>4, <2>1, <2>2, <2>3, RestsKeeps, Sorts
  <2>5. \A u \in Tasks : token'[u] = token[u]
    BY <2>1 DEF Rests
  <2> QED BY <1>1, <1>4, <1>5, <1>6, <2>1, <2>4, <2>5, RequestKeeps
<1>8. CASE kind[r] # "wsgi"
  <2>1. Clear(t, r)
    BY <1>1, <1>8 DEF Clear, CodeRuns, Placed
  <2>2. Fresh(r, r) \in Snapshot /\ Fits(Fresh(r, r), t, r)
    BY <1>3 DEF Fresh, Snapshot, Fits
  <2>3. Push(t, r, Fresh(r, r)) /\ Starts(t, r)
    BY <1>1, <1>8
  <2>4. Enters(t, r, Fresh(r, r))
    BY <2>1, <2>2, <2>3, Sorts DEF Enters
  <2>5. ScopeMove
    BY <1>3, <2>2, <2>4 DEF ScopeMove
  <2>6. Comes(t, r) /\ token'[r] # None
    BY <1>3, <2>2, <2>3, <2>4, PushTypes DEF Comes
  <2>7. t = Where(r)'
    BY <1>2, <1>8 DEF Place
  <2>8. Placed' /\ Held' /\ \A o \in Scopes : o # r => token'[o] = token[o]
    BY <1>2, <1>3, <1>4, <2>6, <2>7, ComesKeeps, Sorts
  <2>9. \A u \in Tasks : token'[u] = token[u]
    BY <2>8, Sorts
  <2> QED BY <1>1, <1>4, <1>5, <1>6, <2>5, <2>8, <2>9, RequestKeeps
<1> QED BY <1>7, <1>8

LEMMA DropKeeps ==
  ASSUME ScopesInv, NEW r \in Requests, Drop(r), UNCHANGED <<celeryVars, flips>>
  PROVE  Kept
<1> USE DEF ScopesInv
<1>1. /\ rpc[r] = "body"
      /\ rpc' = [rpc EXCEPT ![r] = "done"] /\ home' = [home EXCEPT ![r] = None]
      /\ outcome' = [outcome EXCEPT ![r] = "unread"]
      /\ UNCHANGED <<off, bound, open, token, kind, stashed, events, dark>>
  BY DEF Drop, Finish, contextVars
<1>2. rpc'[r] = "done" /\ outcome'[r] = "unread" /\ r \in Scopes
  BY <1>1, Sorts DEF ScopesTypeOK
<1>3. Rests /\ ScopeMove
  BY <1>1 DEF Rests, ScopeMove
<1>4. OnlyOf(r) /\ OthersStay(r) /\ dark \subseteq dark'
  BY <1>1 DEF OnlyOf, OthersStay, celeryVars, ScopesTypeOK
<1>5. \A d \in Contexts : Within(open[d], r) => d = Where(r)' /\ kind'[r] = "wsgi"
  BY <1>1 DEF Placed, Where, Place
<1>6. Placed' /\ Held'
  BY <1>2, <1>3, <1>4, <1>5, RestsKeeps, Sorts
<1>7. RequestTypes'
  BY <1>1, TypeParts DEF RequestTypes
<1>8. Says(r)'
  <2>1. stashed'[r] => kind'[r] = "django"
    BY <1>1, AllSay DEF Says
  <2> QED BY <1>1, <1>2, <2>1, SaysNothing DEF InProgress
<1> QED BY <1>1, <1>3, <1>4, <1>6, <1>7, <1>8, RequestKeeps

LEMMA FlipKeeps ==
  ASSUME ScopesInv, Flip, flips < Flips, flips' = flips + 1, UNCHANGED celeryVars
  PROVE  Kept
<1> USE DEF ScopesInv
<1>1. /\ off' = ~ off /\ UNCHANGED <<bound, open, token>>
      /\ dark' = dark \cup {r \in Requests : InProgress(r)}
      /\ UNCHANGED <<kind, home, rpc, stashed, events, outcome>>
  BY DEF Flip, Switch
<1>2. Rests /\ ScopeMove
  BY <1>1 DEF Rests, ScopeMove
<1>3. MoveTypes' /\ RequestTypes'
  BY <1>1, <1>2, MoveTyped, TypeParts DEF RequestTypes
<1>4. off' \in BOOLEAN /\ flips' \in 0 .. Flips
  BY <1>1, ScopesAssumption, TypeParts
<1>5. Placed' /\ Held'
  BY <1>1 DEF Placed, Held, Where, celeryVars
<1>6. OriginStays /\ Registered' /\ Carried' /\ TaskTypes'
  BY <1>1, TasksRest
<1>7. ASSUME NEW r \in Requests PROVE Says(r)'
  <2>1. Says(r)
    BY AllSay
  <2>2. r \notin dark' => r \notin dark /\ ~ InProgress(r)'
    BY <1>1 DEF InProgress
  <2> QED BY <1>1, <2>1, <2>2 DEF Says
<1>8. Silent' /\ OneEvent'
  BY <1>7, AllSay
<1> QED BY <1>2, <1>3, <1>4, <1>5, <1>6, <1>8, TypeParts DEF Kept

-----------------------------------------------------------------------------
(* Tasks.                                                                  *)

LEMMA TaskKeeps ==
  ASSUME ScopesInv, UNCHANGED <<requestVars, off, flips>>, ScopeMove, OriginStays,
         Placed', Held', Registered', Carried', TaskTypes'
  PROVE  Kept
<1> USE DEF ScopesInv
<1>1. Silent' /\ OneEvent' /\ RequestTypes'
  BY RequestsRest
<1>2. MoveTypes'
  BY MoveTyped
<1>3. off' = off /\ flips' = flips
  OBVIOUS
<1> QED BY <1>1, <1>2, <1>3, TypeParts DEF Kept

\* The trace of the code that runs is a scope's.
LEMMA TraceTyped ==
  ASSUME ScopesTypeOK, NEW c \in Contexts
  PROVE  TraceOf(c) \in Scopes \cup {None} /\ PublishHeader(c) = TraceOf(c)
<1>1. bound[c] # None => bound[c].trace \in Scopes
  BY Types DEF Snapshot
<1> QED BY <1>1 DEF TraceOf, PublishHeader, Injected

LEMMA PublishKeeps ==
  ASSUME ScopesInv, NEW t \in Tasks, NEW c \in Contexts, Publish(t, c),
         UNCHANGED <<requestVars, flips>>
  PROVE  Kept
<1> USE DEF ScopesInv
<1>1. /\ tpc[t] = "new" /\ tpc' = [tpc EXCEPT ![t] = "sent"]
      /\ header' = [header EXCEPT ![t] = TraceOf(c)] /\ origin' = [origin EXCEPT ![t] = TraceOf(c)]
      /\ UNCHANGED <<off, bound, open, token, idOf, scopes>>
  BY TraceTyped DEF Publish, contextVars
<1>2. Rests /\ ScopeMove
  BY <1>1 DEF Rests, ScopeMove
<1>3. /\ tpc'[t] = "sent" /\ header'[t] = origin'[t]
      /\ \A u \in Tasks : u # t =>
           tpc'[u] = tpc[u] /\ header'[u] = header[u] /\ origin'[u] = origin[u]
  BY <1>1 DEF ScopesTypeOK
<1>4. OriginStays
  BY <1>1, <1>3 DEF OriginStays
<1>5. t \in Scopes /\ t \notin Requests
  BY Sorts
<1>6. OthersStay(t) /\ dark \subseteq dark'
  BY <1>3 DEF OthersStay, requestVars
<1>7. Placed' /\ Held'
  BY <1>1, <1>2, <1>5, <1>6, RestsKeeps
<1>8. Registered'
  <2>1. \A i \in Ids : scopes[i] # None => scopes[i] \in Tasks
    BY DEF ScopesTypeOK
  <2> QED BY <1>1, <1>3, <2>1 DEF Registered
<1>9. Carried'
  BY <1>3 DEF Carried
<1>10. TaskTypes'
  BY <1>1, TraceTyped, TypeParts DEF TaskTypes
<1> QED BY <1>1, <1>2, <1>4, <1>7, <1>8, <1>9, <1>10, TaskKeeps

\* A task starts to run: its trace is that of its message, or of the code that calls it.
LEMMA RunKeeps ==
  ASSUME ScopesInv, NEW t \in Tasks, NEW c \in Contexts, NEW i \in Ids, Run(t, c, i),
         tpc[t] \in {"new", "sent"}, CodeRuns(c),
         origin' \in [Tasks -> Scopes \cup {None}],
         \A u \in Tasks : u # t => origin'[u] = origin[u],
         origin'[t] # None /\ ~ off =>
           \/ header[t] = origin'[t]
           \/ header[t] = None /\ bound[c] # None /\ bound[c].trace = origin'[t],
         UNCHANGED <<requestVars, flips>>
  PROVE  Kept
<1> USE DEF ScopesInv
<1>1. /\ Free(i) /\ Starts(c, t) /\ off' = off /\ header' = header
      /\ idOf' = [idOf EXCEPT ![t] = i] /\ tpc' = [tpc EXCEPT ![t] = "running"]
  BY DEF Run, Prerun, PrerunFails, EnterOperation
<1>2. /\ tpc'[t] = "running" /\ idOf'[t] = i
      /\ \A u \in Tasks : u # t => tpc'[u] = tpc[u] /\ idOf'[u] = idOf[u]
  BY <1>1 DEF ScopesTypeOK
<1>3. t \in Scopes /\ t \notin Requests /\ token[t] = None
  BY Sorts DEF Held
<1>4. Clear(c, t)
  BY <1>3 DEF Clear, Placed
<1>5. \/ UNCHANGED <<bound, token, scopes>> /\ SlipsIn(c, t)
      \/ /\ scopes' = [scopes EXCEPT ![i] = t]
         /\ \E x \in Snapshot : Enters(c, t, x)
  <2>1. CASE PrerunFails(t, c, i)
    BY <1>1, <1>3, <1>4, <2>1 DEF PrerunFails, SlipsIn
  <2>2. CASE Prerun(t, c, i) /\ off
    BY <1>1, <1>3, <1>4, <2>2 DEF Prerun, EnterOperation, SlipsIn
  <2>3. CASE Prerun(t, c, i) /\ ~ off
    <3> DEFINE x == Opening(t, header[t], bound[c])
    <3>1. x \in Snapshot /\ Fits(x, c, t)
      <4>1. header[t] \in Scopes \cup {None} /\ bound[c] \in Snapshot \cup {None}
        BY Types DEF ScopesTypeOK
      <4> QED BY <1>3, <4>1 DEF Opening, Fresh, Snapshot, Fits
    <3>2. origin'[t] # None => x.trace = origin'[t]
      <4>1. CASE header[t] # None
        BY <2>3, <4>1 DEF Opening, Fresh
      <4>2. CASE header[t] = None
        <5>1. origin'[t] # None => bound[c] # None /\ bound[c].trace = origin'[t]
          BY <2>3, <4>2
        <5>2. bound[c] # None => bound[c] \in Snapshot
          BY Types
        <5>3. bound[c] # None => x = [bound[c] EXCEPT !.span = t]
          BY <4>2 DEF Opening
        <5>4. bound[c] # None => x.trace = bound[c].trace
          BY <5>2, <5>3 DEF Snapshot
        <5> QED BY <5>1, <5>4
      <4> QED BY <4>1, <4>2
    <3>3. /\ Push(c, t, x) /\ scopes' = [scopes EXCEPT ![i] = t]
      BY <2>3 DEF Prerun, EnterOperation, Carrier, Key
    <3> HIDE DEF x
    <3>4. Enters(c, t, x)
      BY <1>1, <1>4, <3>1, <3>2, <3>3 DEF Enters
    <3> QED BY <3>1, <3>3, <3>4
  <2> QED BY <2>1, <2>2, <2>3 DEF Run
<1>6. Comes(c, t) /\ ScopeMove
  BY <1>3, <1>5 DEF Comes, ScopeMove
<1>7. OriginStays
  BY DEF OriginStays
<1>8. OthersStay(t) /\ dark \subseteq dark'
  BY <1>2 DEF OthersStay, requestVars
<1>9. c \in Requests => open[c] # <<>>
  BY Sorts DEF CodeRuns
<1>10. Placed' /\ Held' /\ \A o \in Scopes : o # t => token'[o] = token[o]
  BY <1>2, <1>3, <1>6, <1>8, <1>9, ComesKeeps
<1>11. \A u \in Tasks : u # t => token'[u] = token[u]
  BY <1>10, Sorts
<1>12. Registered' /\ scopes' \in [Ids -> Tasks \cup {None}]
  <2>1. \A u \in Tasks : tpc[u] = "running" => idOf[u] # i
    BY <1>1 DEF Free
  <2>2. /\ scopes \in [Ids -> Tasks \cup {None}]
        /\ \A j \in Ids : scopes[j] # None =>
             scopes[j] \in Tasks /\ scopes[j] # t /\ j # i
    BY <2>1 DEF ScopesTypeOK, Registered
  <2>3. CASE UNCHANGED <<bound, token, scopes>>
    BY <1>2, <1>3, <1>11, <2>1, <2>2, <2>3 DEF Registered
  <2>4. CASE scopes' = [scopes EXCEPT ![i] = t] /\ \E x \in Snapshot : Enters(c, t, x)
    <3>1. token'[t] # None
      BY <1>3, <2>4, PushTypes DEF Enters
    <3>2. scopes'[i] = t /\ \A j \in Ids : j # i => scopes'[j] = scopes[j]
      BY <2>2, <2>4
    <3>3. \A j \in Ids : scopes'[j] # None =>
            tpc'[scopes'[j]] = "running" /\ idOf'[scopes'[j]] = j /\ token'[scopes'[j]] # None
      BY <1>2, <1>11, <2>2, <3>1, <3>2 DEF Registered
    <3>4. \A u \in Tasks : tpc'[u] = "running" =>
            idOf'[u] \in Ids /\ (token'[u] # None => scopes'[idOf'[u]] = u)
      BY <1>2, <1>11, <2>1, <3>2 DEF Registered
    <3>5. \A u, v \in Tasks :
            tpc'[u] = "running" /\ tpc'[v] = "running" /\ idOf'[u] = idOf'[v] => u = v
      BY <1>2, <2>1 DEF Registered
    <3>6. scopes' \in [Ids -> Tasks \cup {None}]
      BY <2>2, <2>4
    <3> QED BY <3>3, <3>4, <3>5, <3>6 DEF Registered
  <2> QED BY <1>5, <2>3, <2>4
<1>13. Carried'
  BY <1>1, <1>2 DEF Carried
<1>14. TaskTypes'
  BY <1>1, <1>12, TypeParts DEF TaskTypes
<1> QED BY <1>1, <1>6, <1>7, <1>10, <1>12, <1>13, <1>14, TaskKeeps

LEMMA RunSentKeeps ==
  ASSUME ScopesInv, NEW t \in Tasks, NEW c \in Contexts, RunSent(t, c),
         UNCHANGED <<requestVars, flips>>
  PROVE  Kept
<1>1. PICK i \in Ids : Run(t, c, i)
  BY DEF RunSent
<1>2. tpc[t] = "sent" /\ CodeRuns(c) /\ origin' = origin
  BY DEF RunSent, CodeRuns
<1>3. header[t] = origin'[t] /\ origin' \in [Tasks -> Scopes \cup {None}]
  BY <1>2 DEF ScopesInv, Carried, ScopesTypeOK
<1> QED BY <1>1, <1>2, <1>3, RunKeeps

LEMMA RunEagerlyKeeps ==
  ASSUME ScopesInv, NEW t \in Tasks, NEW c \in Contexts, RunEagerly(t, c),
         UNCHANGED <<requestVars, flips>>
  PROVE  Kept
<1>1. PICK i \in Ids : Run(t, c, i)
  BY DEF RunEagerly
<1>2. tpc[t] = "new" /\ CodeRuns(c) /\ origin' = [origin EXCEPT ![t] = TraceOf(c)]
  BY DEF RunEagerly
<1>3. header[t] = None
  BY <1>2 DEF ScopesInv, Carried
<1>4. /\ origin' \in [Tasks -> Scopes \cup {None}] /\ origin'[t] = TraceOf(c)
      /\ \A u \in Tasks : u # t => origin'[u] = origin[u]
  BY <1>2, TraceTyped DEF ScopesInv, ScopesTypeOK
<1>5. TraceOf(c) # None => bound[c] # None /\ bound[c].trace = TraceOf(c)
  BY DEF TraceOf
<1> QED BY <1>1, <1>2, <1>3, <1>4, <1>5, RunKeeps

LEMMA PostrunKeeps ==
  ASSUME ScopesInv, NEW t \in Tasks, Postrun(t), UNCHANGED <<requestVars, flips>>
  PROVE  Kept
<1> USE DEF ScopesInv
<1>1. PICK c \in Contexts :
        /\ Innermost(c, t) /\ Ends(c)
        /\ IF scopes[idOf[t]] = None THEN UNCHANGED <<bound, token>> ELSE Pop(c, scopes[idOf[t]])
  BY DEF Postrun, Key
<1>2. /\ tpc[t] = "running" /\ UNCHANGED <<off, header, origin>>
      /\ scopes' = [scopes EXCEPT ![idOf[t]] = None]
      /\ idOf' = [idOf EXCEPT ![t] = None] /\ tpc' = [tpc EXCEPT ![t] = "done"]
  BY DEF Postrun, Key
<1>3. t \in Scopes /\ t \notin Requests /\ idOf[t] \in Ids
  BY <1>2, Sorts DEF Registered
<1>4. /\ tpc'[t] = "done"
      /\ \A u \in Tasks : u # t => tpc'[u] = tpc[u] /\ idOf'[u] = idOf[u]
      /\ \A j \in Ids : scopes'[j] = IF j = idOf[t] THEN None ELSE scopes[j]
      /\ scopes \in [Ids -> Tasks \cup {None}]
  BY <1>2, <1>3 DEF ScopesTypeOK
<1>5. scopes[idOf[t]] = IF token[t] = None THEN None ELSE t
  <2>1. CASE scopes[idOf[t]] = None
    BY <1>2, <1>3, <2>1, Sorts DEF Registered
  <2>2. CASE scopes[idOf[t]] # None
    <3>1. PICK u \in Tasks : u = scopes[idOf[t]]
      BY <1>3, <1>4, <2>2
    <3>2. tpc[u] = "running" /\ idOf[u] = idOf[t] /\ token[u] # None
      BY <1>3, <2>2, <3>1 DEF Registered
    <3>3. u = t
      BY <1>2, <3>2 DEF Registered
    <3> QED BY <3>1, <3>2, <3>3
  <2> QED BY <2>1, <2>2
<1>6. Leaves(c, t) \/ SlipsOut(c, t)
  BY <1>1, <1>3, <1>5, Sorts DEF Leaves, SlipsOut
<1>7. ScopeMove
  BY <1>3, <1>6 DEF ScopeMove
<1>8. OriginStays
  BY <1>2 DEF OriginStays
<1>9. OthersStay(t) /\ dark \subseteq dark'
  BY <1>4 DEF OthersStay, requestVars
<1>10. Placed' /\ Held' /\ \A o \in Scopes : o # t => token'[o] = token[o]
  BY <1>3, <1>6, <1>9, GoesKeeps DEF Goes
<1>11. \A u \in Tasks : u # t => token'[u] = token[u]
  BY <1>10, Sorts
<1>12. Registered'
  <2>1. \A j \in Ids : j # idOf[t] /\ scopes[j] # None => scopes[j] \in Tasks /\ scopes[j] # t
    BY <1>4 DEF Registered
  <2>2. \A j \in Ids : scopes'[j] # None =>
          tpc'[scopes'[j]] = "running" /\ idOf'[scopes'[j]] = j /\ token'[scopes'[j]] # None
    BY <1>4, <1>11, <2>1 DEF Registered
  <2>3. \A u \in Tasks : tpc'[u] = "running" =>
          idOf'[u] \in Ids /\ (token'[u] # None => scopes'[idOf'[u]] = u)
    BY <1>2, <1>4, <1>11 DEF Registered
  <2>4. \A u, v \in Tasks :
          tpc'[u] = "running" /\ tpc'[v] = "running" /\ idOf'[u] = idOf'[v] => u = v
    BY <1>4 DEF Registered
  <2> QED BY <2>2, <2>3, <2>4 DEF Registered
<1>13. Carried'
  BY <1>2, <1>4 DEF Carried
<1>14. TaskTypes'
  BY <1>2, <1>3, TypeParts DEF TaskTypes
<1> QED BY <1>2, <1>7, <1>8, <1>10, <1>12, <1>13, <1>14, TaskKeeps

-----------------------------------------------------------------------------
(* The invariant holds, and what follows from it.                          *)

LEMMA InitHolds == Init => ScopesInv /\ Stacks!Init
<1> SUFFICES ASSUME Init PROVE ScopesInv /\ Stacks!Init
  OBVIOUS
<1> USE DEF Init, ContextInit, RequestsInit, CeleryInit
<1>1. ScopesTypeOK
  <2>1. <<>> \in Seq(Scopes) /\ <<>> \in Seq(Event)
    OBVIOUS
  <2>2. "wsgi" \in Kinds /\ flips \in 0 .. Flips
    BY ScopesAssumption DEF Kinds
  <2>3. events \in [Requests -> Seq(Event)]
    BY <2>1
  <2> QED BY <2>1, <2>2, <2>3 DEF ScopesTypeOK, Event
<1>2. \A c \in Contexts : open[c] = <<>> /\ bound[c] = None
  OBVIOUS
<1>3. \A x : ~ Within(<<>>, x)
  BY DEF Within
<1>4. Distinct(<<>>)
  BY DEF Distinct
<1>5. Placed
  <2>1. \A r \in Requests : open[r] = <<>> /\ rpc[r] = "new"
    BY Sorts
  <2> QED BY <1>2, <1>3, <1>4, <2>1 DEF Placed
<1>6. Held
  BY <1>2, <1>3, Sorts DEF Held
<1>7. Registered /\ Carried
  BY DEF Registered, Carried
<1>8. \A c \in Contexts : Scoping(c) = <<>>
  BY <1>2, ScopingIs, AmongNone
<1>9. Chained
  <2>1. Len(<<>>) = 0
    OBVIOUS
  <2> QED BY <1>2, <1>8, <2>1 DEF Chained, Chain
<1>10. Silent /\ OneEvent
  <2>1. Len(<<>>) = 0 /\ \A i \in DOMAIN <<>> : FALSE
    OBVIOUS
  <2> QED BY <2>1 DEF Silent, OneEvent, InProgress
<1>11. Stacks!Init
  <2>1. \A top, tok : Layers(<<>>, top, tok) = <<>>
    BY DEF Layers
  <2> QED BY <1>8, <2>1 DEF Stacks!Init, StackOf
<1> QED BY <1>1, <1>5, <1>6, <1>7, <1>9, <1>10, <1>11 DEF ScopesInv

LEMMA StepKeeps ==
  ASSUME ScopesInv, [Next]_vars
  PROVE  Kept
<1>1. ASSUME NEW c \in Contexts, CodeStep(c), UNCHANGED <<requestVars, celeryVars, flips>>
      PROVE  Kept
  BY <1>1, BindKeeps, WithKeeps, EndWithKeeps DEF CodeStep
<1>2. ASSUME NEW r \in Requests, RequestStep(r), UNCHANGED <<celeryVars, flips>>
      PROVE  Kept
  BY <1>2, BeginKeeps, PassKeeps, ViewRaisesKeeps, AnswerKeeps, AnswerStreamKeeps, RaiseKeeps,
     StartKeeps, EndKeeps, DropKeeps DEF RequestStep
<1>3. ASSUME NEW t \in Tasks, TaskStep(t), UNCHANGED <<requestVars, flips>>
      PROVE  Kept
  BY <1>3, PublishKeeps, RunSentKeeps, RunEagerlyKeeps, PostrunKeeps DEF TaskStep
<1>4. CASE Flip /\ flips < Flips /\ flips' = flips + 1 /\ UNCHANGED celeryVars
  BY <1>4, FlipKeeps
<1>5. CASE UNCHANGED vars
  <2> USE DEF ScopesInv
  <2>1. UNCHANGED <<off, bound, open, token, requestVars, celeryVars, flips>>
    BY <1>5 DEF vars, contextVars
  <2>2. Rests /\ ScopeMove
    BY <2>1 DEF Rests, ScopeMove
  <2>3. OriginStays /\ Registered' /\ Carried' /\ TaskTypes'
    BY <2>1, TasksRest
  <2>4. Placed' /\ Held'
    BY <2>1 DEF Placed, Held, Where, requestVars, celeryVars
  <2> QED BY <2>1, <2>2, <2>3, <2>4, TaskKeeps
<1> QED BY <1>1, <1>2, <1>3, <1>4, <1>5 DEF Next

LEMMA InvariantStep ==
  ASSUME ScopesInv, [Next]_vars
  PROVE  ScopesInv' /\ [Stacks!Next]_stacks
<1>1. Kept
  BY StepKeeps
<1>2. Chained' /\ StackMove
  BY <1>1, MoveKeeps DEF Kept, ScopesInv
<1>3. [Stacks!Next]_stacks
  BY <1>2, StackStep DEF ScopesInv
<1> QED BY <1>1, <1>2, <1>3 DEF Kept, ScopesInv

LEMMA ScopesHold == Spec => []ScopesInv
<1>1. ScopesInv /\ [Next]_vars => ScopesInv'
  BY InvariantStep
<1> QED BY <1>1, InitHolds, PTL DEF Spec

\* The variables keep their types.
THEOREM ScopesTyped == Spec => []ScopesTypeOK
<1>1. ScopesInv => ScopesTypeOK
  BY DEF ScopesInv
<1> QED BY <1>1, ScopesHold, PTL

\* TCP-005, HTM-003, 004, 006, 013, 014: whatever code runs in a context sees the snapshot
\* of the innermost scope there, with attributes bound in that scope or around it, and a
\* thread that has left all its scopes sees none.
THEOREM ScopesSeen == Spec => []InScope
<1>1. ASSUME ScopesInv PROVE InScope
  <2> USE <1>1 DEF ScopesInv
  <2>1. ASSUME NEW c \in Contexts, Scoping(c) = <<>>, c \in Threads PROVE bound[c] = None
    BY <2>1 DEF Chained, Chain, CodeRuns
  <2>2. ASSUME NEW c \in Contexts, Scoping(c) # <<>>
        PROVE  /\ bound[c] # None
               /\ bound[c].span = Last(Scoping(c))
               /\ bound[c].attributes \subseteq ToSet(Scoping(c))
    <3>1. PICK q \in Seq(Scopes) : q = Scoping(c) /\ q # <<>>
      BY <2>2, ScopingShape
    <3>2. /\ Last(q) = q[Len(q)] /\ Len(q) \in Nat /\ Len(q) >= 1
          /\ \A j \in 1 .. Len(q) : q[j] \in ToSet(q)
      BY <3>1, FrontLast, Members DEF Within
    <3>3. CodeRuns(c)
      <4>1. Within(q, q[Len(q)])
        BY <3>2 DEF Within
      <4>2. Within(open[c], q[Len(q)])
        BY <3>1, <4>1, ScopingShape
      <4>3. \A x : ~ Within(<<>>, x)
        BY DEF Within
      <4> QED BY <4>2, <4>3 DEF CodeRuns
    <3>4. Own(bound[c], q, Len(q), origin)
      BY <2>2, <3>1, <3>3, TopOfChain DEF Chained
    <3> QED BY <3>1, <3>2, <3>4 DEF Own
  <2>3. ASSUME NEW c \in Contexts
        PROVE  ToSet(open[c]) \cap (Requests \ dark) \subseteq ToSet(Scoping(c))
    <3> SUFFICES ASSUME NEW r \in Requests \ dark, r \in ToSet(open[c])
                 PROVE  r \in ToSet(Scoping(c))
      OBVIOUS
    <3>1. Within(open[c], r)
      BY Types, Members
    <3>2. r \in Bound(token)
      BY <3>1, Sorts DEF Held, Bound
    <3>3. Within(Scoping(c), r)
      BY <3>1, <3>2, ScopingShape
    <3>4. PICK q \in Seq(Scopes) : q = Scoping(c)
      BY ScopingShape
    <3> QED BY <3>3, <3>4, Members
  <2> QED BY <2>1, <2>2, <2>3 DEF InScope
<1> QED BY <1>1, ScopesHold, PTL

\* TCP-005: tokens implement stacks of snapshots, which ScopeStack promises.
THEOREM StacksImplemented == Spec => ImplementsStacks
<1>1. ScopesInv /\ [Next]_vars => [Stacks!Next]_stacks
  BY InvariantStep
<1>2. Init => Stacks!Init
  BY InitHolds
<1> QED BY <1>1, <1>2, ScopesHold, PTL DEF Spec, ImplementsStacks, Stacks!Spec, stacks

\* HTM-007, 011, 015: one event for each request, in its own scope, with its level.
THEOREM EventsCounted == Spec => []OneEvent
<1>1. ScopesInv => OneEvent
  BY DEF ScopesInv
<1> QED BY <1>1, ScopesHold, PTL

\* CEL-005: a task belongs to the trace of the code that published or called it.
THEOREM TracesContinue == Spec => []TraceContinues
<1>1. ASSUME ScopesInv PROVE TraceContinues
  <2> SUFFICES ASSUME NEW t \in Tasks, NEW c \in Contexts,
                      Innermost(c, t), token[t] # None, origin[t] # None
               PROVE  bound[c].trace = origin[t]
    BY DEF TraceContinues
  <2> QED BY <1>1, Sees, Sorts DEF ScopesInv
<1> QED BY <1>1, ScopesHold, PTL
=============================================================================
