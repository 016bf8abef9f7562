---------------------------- MODULE FormatProofs ----------------------------
(***************************************************************************)
(* What holds of every line of Format, whatever is logged, bound and       *)
(* received, for any limits, catalog, names and identity.                  *)
(***************************************************************************)
EXTENDS Format, Facts, TLAPS

\* f begins with base and goes on with F, which is a function of the position and of the
\* value before.
Steps(F, n, A) == \A i \in 1 .. n, x \in A : F[<<i, x>>] \in A
Runs(f, n, A, base, F) ==
  f \in [0 .. n -> A] /\ f[0] = base /\ \A i \in 1 .. n : f[i] = F[<<i, f[i - 1]>>]

\* A recursive function of that form exists.
LEMMA Recursion ==
  ASSUME NEW n \in Nat, NEW A, NEW base \in A, NEW F, Steps(F, n, A)
  PROVE  \E f : Runs(f, n, A, base, F)
<1> DEFINE T == {k \in Nat : k <= n => \E f : Runs(f, k, A, base, F)}
<1>1. 0 \in T
  <2>1. Runs([i \in 0 .. 0 |-> base], 0, A, base, F)
    BY DEF Runs
  <2> QED BY <2>1
<1>2. ASSUME NEW k \in Nat, k \in T PROVE k + 1 \in T
  <2> SUFFICES ASSUME k + 1 <= n PROVE \E f : Runs(f, k + 1, A, base, F)
    OBVIOUS
  <2>1. PICK f : Runs(f, k, A, base, F)
    BY <1>2
  <2>2. k + 1 \in 1 .. n /\ f[k] \in A
    BY <2>1 DEF Runs
  <2>3. F[<<k + 1, f[k]>>] \in A
    BY <2>2 DEF Steps
  <2> DEFINE g == [i \in 0 .. k + 1 |-> IF i = k + 1 THEN F[<<k + 1, f[k]>>] ELSE f[i]]
  <2>4. g \in [0 .. k + 1 -> A] /\ g[0] = base
    BY <2>1, <2>3 DEF Runs
  <2>5. ASSUME NEW i \in 1 .. k + 1 PROVE g[i] = F[<<i, g[i - 1]>>]
    <3>1. CASE i = k + 1
      <4>1. i \in 0 .. k + 1 /\ i - 1 \in 0 .. k + 1 /\ i - 1 # k + 1 /\ i - 1 = k
        BY <3>1
      <4>2. g[i] = F[<<k + 1, f[k]>>] /\ g[i - 1] = f[k]
        BY <3>1, <4>1
      <4> QED BY <3>1, <4>2
    <3>2. CASE i # k + 1
      <4>1. i \in 1 .. k /\ i \in 0 .. k + 1 /\ i - 1 \in 0 .. k + 1 /\ i - 1 # k + 1
        BY <3>2
      <4>2. g[i] = f[i] /\ g[i - 1] = f[i - 1]
        BY <3>2, <4>1
      <4>3. f[i] = F[<<i, f[i - 1]>>]
        BY <2>1, <4>1 DEF Runs
      <4> QED BY <4>2, <4>3
    <3> QED BY <3>1, <3>2
  <2> HIDE DEF g
  <2> QED BY <2>4, <2>5 DEF Runs
<1> HIDE DEF T
<1>3. n \in T
  BY <1>1, <1>2, Induction
<1> QED BY <1>3 DEF T

-----------------------------------------------------------------------------
(* Dicts.                                                                  *)

\* The names of a sequence's members that are in N and stand before the first one named n.
Before(s, N, n) ==
  {s[j].name : j \in {k \in DOMAIN s : s[k].name \in N /\ \A l \in 1 .. k : s[l].name # n}}

\* Put keeps a dict a dict, in the order it has.
LEMMA PutFacts ==
  ASSUME NEW X, NEW d \in Seq(X), NEW m \in X, IsDict(d)
  PROVE  /\ Put(d, m) \in Seq(X)
         /\ IsDict(Put(d, m))
         /\ NamesOf(Put(d, m)) = NamesOf(d) \cup {m.name}
         /\ Len(Put(d, m)) >= Len(d)
         /\ \A i \in DOMAIN d : Put(d, m)[i] = IF d[i].name = m.name THEN m ELSE d[i]
         /\ \A i \in DOMAIN Put(d, m) \ DOMAIN d : 
              Put(d, m)[i] = m /\ i = Len(d) + 1 /\ m.name \notin NamesOf(d)
<1>1. CASE m.name \in NamesOf(d)
  <2> DEFINE r == [i \in DOMAIN d |-> IF d[i].name = m.name THEN m ELSE d[i]]
  <2>1. Put(d, m) = r
    BY <1>1 DEF Put
  <2>2. r \in Seq(X) /\ DOMAIN r = DOMAIN d /\ Len(r) = Len(d)
    OBVIOUS
  <2>3. \A i \in DOMAIN r : r[i].name = d[i].name
    OBVIOUS
  <2>4. NamesOf(r) = NamesOf(d)
    BY <2>2, <2>3 DEF NamesOf
  <2>5. IsDict(r)
    BY <2>2, <2>3 DEF IsDict
  <2> QED BY <1>1, <2>1, <2>2, <2>4, <2>5
<1>2. CASE m.name \notin NamesOf(d)
  <2> DEFINE r == Append(d, m)
  <2>1. Put(d, m) = r
    BY <1>2 DEF Put
  <2>2. r \in Seq(X) /\ DOMAIN r = 1 .. Len(d) + 1 /\ Len(r) = Len(d) + 1 /\ DOMAIN d = 1 .. Len(d)
    OBVIOUS
  <2>3. r[Len(d) + 1] = m /\ \A i \in DOMAIN d : r[i] = d[i]
    OBVIOUS
  <2> HIDE DEF r
  <2>4. \A i \in DOMAIN d : d[i].name # m.name /\ r[i] = d[i]
    BY <1>2, <2>3 DEF NamesOf
  <2>5. NamesOf(r) = NamesOf(d) \cup {m.name}
    <3>1. ASSUME NEW i \in DOMAIN r PROVE r[i].name \in NamesOf(d) \cup {m.name}
      BY <2>2, <2>3 DEF NamesOf
    <3>2. ASSUME NEW i \in DOMAIN d PROVE d[i].name \in NamesOf(r)
      BY <2>2, <2>3 DEF NamesOf
    <3>3. m.name \in NamesOf(r)
      <4>1. Len(d) + 1 \in DOMAIN r
        BY <2>2
      <4> QED BY <2>3, <4>1 DEF NamesOf
    <3> QED BY <3>1, <3>2, <3>3 DEF NamesOf
  <2>6. IsDict(r)
    <3> SUFFICES ASSUME NEW i \in DOMAIN r, NEW j \in DOMAIN r, r[i].name = r[j].name
                 PROVE  i = j
      BY DEF IsDict
    <3>1. CASE i \in DOMAIN d /\ j \in DOMAIN d
      BY <2>4, <3>1 DEF IsDict
    <3>2. CASE i \notin DOMAIN d \/ j \notin DOMAIN d
      BY <2>2, <2>3, <2>4, <3>2
    <3> QED BY <3>1, <3>2
  <2>7. \A i \in DOMAIN r \ DOMAIN d : r[i] = m /\ i = Len(d) + 1
    BY <2>2, <2>3
  <2> QED BY <1>2, <2>1, <2>2, <2>4, <2>5, <2>6, <2>7
<1> QED BY <1>1, <1>2

\* What the first k of the members s have made of the dict d, those with a name in N.
Made(r, d, s, N, k, X) ==
  /\ r \in Seq(X) /\ IsDict(r) /\ Len(d) <= Len(r)
  /\ NamesOf(r) = NamesOf(d) \cup {s[j].name : j \in {l \in 1 .. k : s[l].name \in N}}
  /\ \A i \in DOMAIN d : r[i].name = d[i].name
  /\ \A i \in DOMAIN r :
       \/ i \in DOMAIN d /\ r[i] = d[i] /\ \A j \in 1 .. k : s[j].name \in N => s[j].name # d[i].name
       \/ \E j \in 1 .. k : /\ s[j].name \in N /\ r[i] = s[j]
                            /\ \A l \in j + 1 .. k : s[l].name # s[j].name
  /\ \A i \in DOMAIN r \ DOMAIN d :
       {r[j].name : j \in 1 .. i - 1} = NamesOf(d) \cup Before(s, N, r[i].name)

\* The next member adds what it does.
LEMMA MadeNext ==
  ASSUME NEW X, NEW d \in Seq(X), NEW s \in Seq(X), NEW N, NEW k \in Nat, k + 1 \in DOMAIN s,
         NEW r, Made(r, d, s, N, k, X)
  PROVE  Made(IF s[k + 1].name \in N THEN Put(r, s[k + 1]) ELSE r, d, s, N, k + 1, X)
<1> DEFINE m == s[k + 1]
<1>0. m \in X /\ r \in Seq(X) /\ IsDict(r) /\ Len(d) <= Len(r) /\ 1 .. k + 1 = (1 .. k) \cup {k + 1}
      /\ DOMAIN s = 1 .. Len(s) /\ DOMAIN r = 1 .. Len(r) /\ DOMAIN d = 1 .. Len(d)
      /\ m = s[k + 1]
  BY DEF Made
<1> HIDE DEF m
<1>1. CASE m.name \notin N
  <2>1. {s[j].name : j \in {l \in 1 .. k + 1 : s[l].name \in N}}
          = {s[j].name : j \in {l \in 1 .. k : s[l].name \in N}}
    BY <1>0, <1>1
  <2>2. ASSUME NEW i \in DOMAIN r
        PROVE  \/ i \in DOMAIN d /\ r[i] = d[i]
                    /\ \A j \in 1 .. k + 1 : s[j].name \in N => s[j].name # d[i].name
               \/ \E j \in 1 .. k + 1 : /\ s[j].name \in N /\ r[i] = s[j]
                                        /\ \A l \in j + 1 .. k + 1 : s[l].name # s[j].name
    <3>1. CASE i \in DOMAIN d /\ r[i] = d[i]
                 /\ \A j \in 1 .. k : s[j].name \in N => s[j].name # d[i].name
      BY <1>0, <1>1, <3>1
    <3>2. CASE \E j \in 1 .. k : /\ s[j].name \in N /\ r[i] = s[j]
                                 /\ \A l \in j + 1 .. k : s[l].name # s[j].name
      <4>1. PICK j \in 1 .. k : /\ s[j].name \in N /\ r[i] = s[j]
                                /\ \A l \in j + 1 .. k : s[l].name # s[j].name
        BY <3>2
      <4>2. \A l \in j + 1 .. k + 1 : s[l].name # s[j].name
        <5> TAKE l \in j + 1 .. k + 1
        <5>1. CASE l = k + 1
          BY <1>0, <1>1, <4>1, <5>1
        <5>2. CASE l # k + 1
          <6>1. l \in j + 1 .. k
            BY <5>2
          <6> QED BY <4>1, <6>1
        <5> QED BY <5>1, <5>2
      <4>3. j \in 1 .. k + 1
        OBVIOUS
      <4> QED BY <4>1, <4>2, <4>3
    <3> QED BY <3>1, <3>2 DEF Made
  <2>3. Made(r, d, s, N, k + 1, X)
    BY <1>0, <2>1, <2>2 DEF Made
  <2> QED BY <1>1, <2>3 DEF m
<1>2. CASE m.name \in N
  <2> DEFINE q == Put(r, m)
  <2>1. /\ q \in Seq(X) /\ IsDict(q) /\ NamesOf(q) = NamesOf(r) \cup {m.name}
        /\ Len(q) >= Len(r)
        /\ \A i \in DOMAIN r : q[i] = IF r[i].name = m.name THEN m ELSE r[i]
        /\ \A i \in DOMAIN q \ DOMAIN r : q[i] = m /\ i = Len(r) + 1 /\ m.name \notin NamesOf(r)
    <3>1. m \in X /\ r \in Seq(X) /\ IsDict(r)
      BY <1>0
    <3> HIDE <1>0
    <3> QED BY ONLY <3>1, PutFacts
  <2> HIDE DEF q
  <2>2. DOMAIN q = 1 .. Len(q)
    BY <2>1
  <2>3. {s[j].name : j \in {l \in 1 .. k + 1 : s[l].name \in N}}
          = {s[j].name : j \in {l \in 1 .. k : s[l].name \in N}} \cup {m.name}
    BY <1>0, <1>2
  <2>4. NamesOf(q) = NamesOf(d) \cup {s[j].name : j \in {l \in 1 .. k + 1 : s[l].name \in N}}
    BY <2>1, <2>3 DEF Made
  <2>5. \A i \in DOMAIN r : q[i].name = r[i].name
    BY <2>1
  <2>6. \A i \in DOMAIN d : i \in DOMAIN r /\ q[i].name = d[i].name
    BY <1>0, <2>5 DEF Made
  <2>7. ASSUME NEW i \in DOMAIN q
        PROVE  \/ i \in DOMAIN d /\ q[i] = d[i]
                    /\ \A j \in 1 .. k + 1 : s[j].name \in N => s[j].name # d[i].name
               \/ \E j \in 1 .. k + 1 : /\ s[j].name \in N /\ q[i] = s[j]
                                        /\ \A l \in j + 1 .. k + 1 : s[l].name # s[j].name
    <3>1. CASE q[i] = m
      <4>1. k + 1 \in 1 .. k + 1 /\ \A l \in (k + 1) + 1 .. k + 1 : FALSE
        OBVIOUS
      <4> QED BY <1>0, <1>2, <3>1, <4>1
    <3>2. CASE q[i] # m
      <4>1. i \in DOMAIN r /\ q[i] = r[i] /\ r[i].name # m.name
        BY <2>1, <3>2
      <4>2. CASE i \in DOMAIN d /\ r[i] = d[i]
                   /\ \A j \in 1 .. k : s[j].name \in N => s[j].name # d[i].name
        BY <1>0, <4>1, <4>2
      <4>3. CASE \E j \in 1 .. k : /\ s[j].name \in N /\ r[i] = s[j]
                                   /\ \A l \in j + 1 .. k : s[l].name # s[j].name
        <5>1. PICK j \in 1 .. k : /\ s[j].name \in N /\ r[i] = s[j]
                                  /\ \A l \in j + 1 .. k : s[l].name # s[j].name
          BY <4>3
        <5>2. \A l \in j + 1 .. k + 1 : s[l].name # s[j].name
          <6> TAKE l \in j + 1 .. k + 1
          <6>1. CASE l = k + 1
            BY <1>0, <4>1, <5>1, <6>1
          <6>2. CASE l # k + 1
            <7>1. l \in j + 1 .. k
              BY <6>2
            <7> QED BY <5>1, <7>1
          <6> QED BY <6>1, <6>2
        <5>3. j \in 1 .. k + 1
          OBVIOUS
        <5> QED BY <4>1, <5>1, <5>2, <5>3
      <4> QED BY <4>1, <4>2, <4>3 DEF Made
    <3> QED BY <3>1, <3>2
  <2>8. ASSUME NEW i \in DOMAIN q \ DOMAIN d
        PROVE  {q[j].name : j \in 1 .. i - 1} = NamesOf(d) \cup Before(s, N, q[i].name)
    <3>1. CASE i \in DOMAIN r
      <4>1. {q[j].name : j \in 1 .. i - 1} = {r[j].name : j \in 1 .. i - 1}
        <5>1. \A j \in 1 .. i - 1 : j \in DOMAIN r /\ q[j].name = r[j].name
          BY <1>0, <2>5, <3>1
        <5> QED BY <5>1
      <4> QED BY <2>5, <3>1, <4>1 DEF Made
    <3>2. CASE i \notin DOMAIN r
      <4>1. q[i] = m /\ i = Len(r) + 1 /\ m.name \notin NamesOf(r)
        BY <2>1, <3>2
      <4>2. {q[j].name : j \in 1 .. i - 1} = NamesOf(r)
        <5>1. 1 .. i - 1 = DOMAIN r
          BY <1>0, <4>1
        <5> QED BY <2>5, <5>1 DEF NamesOf
      <4>3. \A l \in 1 .. k : s[l].name # m.name
        <5>1. \A l \in 1 .. k : s[l].name \in N => s[l].name \in NamesOf(r)
          BY DEF Made
        <5> QED BY <1>2, <4>1, <5>1
      <4>4. {l \in DOMAIN s : s[l].name \in N /\ \A o \in 1 .. l : s[o].name # m.name}
              = {l \in 1 .. k : s[l].name \in N}
        <5>1. ASSUME NEW l \in 1 .. k, s[l].name \in N
              PROVE  l \in DOMAIN s /\ \A o \in 1 .. l : s[o].name # m.name
          BY <1>0, <4>3
        <5>2. ASSUME NEW l \in DOMAIN s, \A o \in 1 .. l : s[o].name # m.name PROVE l \in 1 .. k
          <6>1. k + 1 \notin 1 .. l
            BY <1>0, <5>2
          <6> QED BY <1>0, <6>1
        <5> QED BY <5>1, <5>2
      <4>5. NamesOf(r) = NamesOf(d) \cup Before(s, N, m.name)
        BY <4>4 DEF Made, Before
      <4> QED BY <4>1, <4>2, <4>5
    <3> QED BY <3>1, <3>2
  <2>9. Made(q, d, s, N, k + 1, X)
    <3>1. Len(d) <= Len(q)
      BY <1>0, <2>1
    <3>2. q \in Seq(X) /\ IsDict(q)
      BY <2>1
    <3> HIDE DEF NamesOf, Before
    <3> QED BY ONLY <2>4, <2>6, <2>7, <2>8, <3>1, <3>2, Zenon DEF Made
  <2> QED BY <1>0, <1>2, <2>9 DEF q
<1> QED BY <1>1, <1>2

\* Assign makes of d what all of the members do.
LEMMA Assigned ==
  ASSUME NEW X, NEW d \in Seq(X), IsDict(d), NEW s \in Seq(X), NEW N
  PROVE  Made(Assign(d, s, N), d, s, N, Len(s), X)
<1> DEFINE Step(u, i) == IF s[i].name \in N THEN Put(u, s[i]) ELSE u
           Is(u) == u = [i \in 0 .. Len(s) |-> IF i = 0 THEN d ELSE Step(u[i - 1], i)]
           D == {r \in Seq(X) : IsDict(r)}
           F == [p \in (1 .. Len(s)) \X D |-> Step(p[2], p[1])]
<1>1. Len(s) \in Nat /\ d \in D
  OBVIOUS
<1>2. \A i \in 1 .. Len(s), r \in D : Step(r, i) \in D
  BY PutFacts
<1> HIDE DEF Step
<1>3. \A i \in 1 .. Len(s), r \in D : F[<<i, r>>] = Step(r, i)
  OBVIOUS
<1> HIDE DEF F, D
<1>4. Steps(F, Len(s), D)
  BY <1>2, <1>3 DEF Steps
<1>5. PICK f : Runs(f, Len(s), D, d, F)
  BY <1>1, <1>4, Recursion
<1>6. \A i \in 1 .. Len(s) : f[i] = Step(f[i - 1], i)
  <2>1. \A i \in 1 .. Len(s) : f[i - 1] \in D
    BY <1>1, <1>5 DEF Runs
  <2> QED BY <1>3, <1>5, <2>1 DEF Runs
<1>7. Is(f)
  <2>1. f = [i \in 0 .. Len(s) |-> f[i]]
    BY <1>5 DEF Runs
  <2>2. \A i \in 0 .. Len(s) : f[i] = IF i = 0 THEN d ELSE Step(f[i - 1], i)
    BY <1>5, <1>6 DEF Runs
  <2> QED BY <2>1, <2>2
<1> DEFINE u == CHOOSE g : Is(g)
<1>8. Is(u)
  BY <1>7
<1>9. Assign(d, s, N) = u[Len(s)]
  BY DEF Assign, Step
<1> HIDE DEF u
<1>10. u[0] = d /\ \A i \in 1 .. Len(s) : u[i] = Step(u[i - 1], i)
  <2>1. \A i \in 0 .. Len(s) : u[i] = IF i = 0 THEN d ELSE Step(u[i - 1], i)
    BY <1>8
  <2> QED BY <1>1, <2>1
<1> HIDE DEF Is
<1> DEFINE T == {k \in Nat : k <= Len(s) => Made(u[k], d, s, N, k, X)}
<1>11. 0 \in T
  <2>1. Made(d, d, s, N, 0, X)
    BY DEF Made
  <2> QED BY <1>10, <2>1
<1>12. ASSUME NEW k \in Nat, k \in T PROVE k + 1 \in T
  <2> SUFFICES ASSUME k + 1 <= Len(s) PROVE Made(u[k + 1], d, s, N, k + 1, X)
    OBVIOUS
  <2>1. k + 1 \in DOMAIN s /\ k + 1 \in 1 .. Len(s) /\ (k + 1) - 1 = k /\ k <= Len(s)
    OBVIOUS
  <2>2. Made(u[k], d, s, N, k, X)
    BY <1>12, <2>1
  <2>3. u[k + 1] = Step(u[k], k + 1)
    BY <1>10, <2>1
  <2> QED BY <2>1, <2>2, <2>3, MadeNext DEF Step
<1> HIDE DEF T
<1>13. Len(s) \in T
  BY <1>1, <1>11, <1>12, Induction
<1> QED BY <1>9, <1>13 DEF T

IsSeq(s) == s \in Seq(ToSet(s))

\* v is the value of the last member of s that is named n.
Val(s, n, v) ==
  \E i \in DOMAIN s : s[i].name = n /\ s[i].value = v /\ \A j \in DOMAIN s : i < j => s[j].name # n

\* The names of the members before the first one that is named n.
Prior(s, n) == Before(s, NamesOf(s), n)

LEMMA SeqGrows ==
  ASSUME NEW S, NEW T, S \subseteq T, NEW s \in Seq(S)
  PROVE  s \in Seq(T)
OBVIOUS

\* Every name has a value.
LEMMA ValExists ==
  ASSUME NEW s, IsSeq(s), NEW n \in NamesOf(s)
  PROVE  \E v : Val(s, n, v)
<1> DEFINE T == {i \in DOMAIN s : s[i].name = n}
<1>1. DOMAIN s = 1 .. Len(s) /\ Len(s) \in Nat
  BY DEF IsSeq
<1>2. T # {} /\ T \in SUBSET Nat /\ \A i \in T : i <= Len(s)
  BY <1>1 DEF NamesOf
<1>3. PICK i \in T : \A j \in T : j <= i
  <2> HIDE DEF T
  <2> QED BY <1>1, <1>2, GreatestNumber
<1>4. \A j \in DOMAIN s : i < j => s[j].name # n
  BY <1>1, <1>3
<1>5. Val(s, n, s[i].value)
  BY <1>3, <1>4 DEF Val
<1> QED BY <1>5

LEMMA UpTo ==
  ASSUME NEW n \in Nat
  PROVE  IsFiniteSet(1 .. n) /\ Cardinality(1 .. n) = n
<1>1. 1 \in Int /\ n \in Int
  OBVIOUS
<1>2. IsFiniteSet(1 .. n) /\ Cardinality(1 .. n) = IF 1 > n THEN 0 ELSE n - 1 + 1
  BY <1>1, FS_Interval
<1> QED BY <1>2

\* Of a dict, k members have k names.
LEMMA FirstNames ==
  ASSUME NEW d, IsSeq(d), IsDict(d), NEW k \in Nat, k <= Len(d)
  PROVE  LET T == {d[j].name : j \in 1 .. k} IN IsFiniteSet(T) /\ Cardinality(T) = k
<1> DEFINE S == 1 .. k
           T == {d[j].name : j \in S}
           f == [j \in S |-> d[j].name]
<1>1. DOMAIN d = 1 .. Len(d) /\ Len(d) \in Nat
  BY DEF IsSeq
<1>2. IsFiniteSet(S) /\ Cardinality(S) = k
  BY UpTo
<1>3. f \in [S -> T] /\ \A z \in T : \E j \in S : f[j] = z
  OBVIOUS
<1>4. \A j, l \in S : f[j] = f[l] => j = l
  <2>1. \A j \in S : j \in DOMAIN d /\ f[j] = d[j].name
    BY <1>1
  <2> QED BY <2>1 DEF IsDict
<1> HIDE DEF f, T, S
<1>5. IsFiniteSet(T) /\ Cardinality(T) = Cardinality(S)
  BY <1>2, <1>3, <1>4, SameSize
<1> QED BY <1>2, <1>5 DEF T, S

\* In a dict a name has one value, and the members before its own are counted by position.
LEMMA DictFacts ==
  ASSUME NEW d, IsSeq(d), IsDict(d), NEW i \in DOMAIN d
  PROVE  /\ d[i].name \in NamesOf(d)
         /\ \A v : Val(d, d[i].name, v) <=> v = d[i].value
         /\ Prior(d, d[i].name) = {d[j].name : j \in 1 .. i - 1}
         /\ IsFiniteSet(Prior(d, d[i].name)) /\ Cardinality(Prior(d, d[i].name)) = i - 1
<1>1. DOMAIN d = 1 .. Len(d) /\ Len(d) \in Nat /\ i \in Nat
  BY DEF IsSeq
<1>2. d[i].name \in NamesOf(d)
  BY DEF NamesOf
<1>3. ASSUME NEW v PROVE Val(d, d[i].name, v) <=> v = d[i].value
  <2>1. ASSUME Val(d, d[i].name, v) PROVE v = d[i].value
    BY <2>1 DEF Val, IsDict
  <2>2. ASSUME v = d[i].value PROVE Val(d, d[i].name, v)
    <3>1. \A j \in DOMAIN d : i < j => d[j].name # d[i].name
      BY <1>1 DEF IsDict
    <3> QED BY <2>2, <3>1 DEF Val
  <2> QED BY <2>1, <2>2
<1>4. {k \in DOMAIN d : d[k].name \in NamesOf(d) /\ \A l \in 1 .. k : d[l].name # d[i].name}
        = 1 .. i - 1
  <2>1. ASSUME NEW k \in DOMAIN d, \A l \in 1 .. k : d[l].name # d[i].name PROVE k \in 1 .. i - 1
    <3>1. i \notin 1 .. k
      BY <2>1
    <3> QED BY <1>1, <3>1
  <2>2. ASSUME NEW k \in 1 .. i - 1
        PROVE  k \in DOMAIN d /\ d[k].name \in NamesOf(d) /\ \A l \in 1 .. k : d[l].name # d[i].name
    <3>1. k \in DOMAIN d /\ \A l \in 1 .. k : l \in DOMAIN d /\ l # i
      BY <1>1
    <3> QED BY <3>1 DEF IsDict, NamesOf
  <2> QED BY <2>1, <2>2
<1>5. Prior(d, d[i].name) = {d[j].name : j \in 1 .. i - 1}
  BY <1>4 DEF Prior, Before
<1>6. IsFiniteSet(Prior(d, d[i].name)) /\ Cardinality(Prior(d, d[i].name)) = i - 1
  <2>1. i - 1 \in Nat /\ i - 1 <= Len(d)
    BY <1>1
  <2> QED BY <1>5, <2>1, FirstNames
<1> QED BY <1>2, <1>3, <1>5, <1>6

\* A dict has as many names as members.
LEMMA DictSize ==
  ASSUME NEW d, IsSeq(d), IsDict(d)
  PROVE  IsFiniteSet(NamesOf(d)) /\ Cardinality(NamesOf(d)) = Len(d)
<1>1. DOMAIN d = 1 .. Len(d) /\ Len(d) \in Nat
  BY DEF IsSeq
<1>2. NamesOf(d) = {d[j].name : j \in 1 .. Len(d)}
  BY <1>1 DEF NamesOf
<1> DEFINE n == Len(d)
<1>3. n \in Nat /\ n <= Len(d)
  BY <1>1
<1> HIDE DEF n
<1>4. IsFiniteSet({d[j].name : j \in 1 .. n}) /\ Cardinality({d[j].name : j \in 1 .. n}) = n
  BY <1>3, FirstNames
<1> QED BY <1>2, <1>4 DEF n

\* What assigning the members of s with a name in N makes of a dict.
LEMMA AssignFacts ==
  ASSUME NEW d, IsSeq(d), IsDict(d), NEW s, IsSeq(s), NEW N, NEW r, r = Assign(d, s, N)
  PROVE  /\ IsSeq(r) /\ IsDict(r)
         /\ NamesOf(r) = NamesOf(d) \cup (NamesOf(s) \cap N)
         /\ \A n, v : Val(r, n, v) => IF n \in NamesOf(s) \cap N THEN Val(s, n, v) ELSE Val(d, n, v)
         /\ \A n \in NamesOf(d) : Prior(r, n) = Prior(d, n)
         /\ \A n \in NamesOf(r) \ NamesOf(d) : Prior(r, n) = NamesOf(d) \cup Before(s, N, n)
         /\ ToSet(r) \subseteq ToSet(d) \cup ToSet(s)
<1> DEFINE X == ToSet(d) \cup ToSet(s)
<1>1. d \in Seq(X) /\ s \in Seq(X)
  <2>1. ToSet(d) \subseteq X /\ ToSet(s) \subseteq X
    OBVIOUS
  <2> HIDE DEF X
  <2> QED BY <2>1, SeqGrows DEF IsSeq
<1>2. Made(r, d, s, N, Len(s), X)
  BY <1>1, Assigned
<1>3. DOMAIN s = 1 .. Len(s) /\ DOMAIN d = 1 .. Len(d) /\ Len(s) \in Nat /\ Len(d) \in Nat
  BY DEF IsSeq
<1>4. r \in Seq(X) /\ IsDict(r) /\ DOMAIN r = 1 .. Len(r) /\ Len(r) \in Nat /\ Len(d) <= Len(r)
  BY <1>2 DEF Made
<1>5. IsSeq(r) /\ ToSet(r) \subseteq X
  <2>1. \A i \in DOMAIN r : r[i] \in ToSet(r) /\ r[i] \in X
    BY <1>4 DEF ToSet
  <2>2. ToSet(r) \subseteq X
    BY <2>1 DEF ToSet
  <2>3. r = [i \in 1 .. Len(r) |-> r[i]]
    BY <1>4
  <2> QED BY <1>4, <2>1, <2>2, <2>3 DEF IsSeq
<1>6. {s[j].name : j \in {l \in 1 .. Len(s) : s[l].name \in N}} = NamesOf(s) \cap N
  BY <1>3 DEF NamesOf
<1>7. NamesOf(r) = NamesOf(d) \cup (NamesOf(s) \cap N)
  BY <1>2, <1>6 DEF Made
<1>8. ASSUME NEW n, NEW v, Val(r, n, v)
      PROVE  IF n \in NamesOf(s) \cap N THEN Val(s, n, v) ELSE Val(d, n, v)
  <2>1. PICK i \in DOMAIN r : r[i].name = n /\ r[i].value = v
    BY <1>8 DEF Val
  <2>2. CASE i \in DOMAIN d /\ r[i] = d[i] /\ \A j \in 1 .. Len(s) : s[j].name \in N => s[j].name # d[i].name
    <3>1. n \notin NamesOf(s) \cap N
      BY <1>3, <2>1, <2>2 DEF NamesOf
    <3>2. Val(d, n, v)
      BY <2>1, <2>2, DictFacts
    <3> QED BY <3>1, <3>2
  <2>3. CASE \E j \in 1 .. Len(s) : /\ s[j].name \in N /\ r[i] = s[j]
                                    /\ \A l \in j + 1 .. Len(s) : s[l].name # s[j].name
    <3>1. PICK j \in 1 .. Len(s) : /\ s[j].name \in N /\ r[i] = s[j]
                                   /\ \A l \in j + 1 .. Len(s) : s[l].name # s[j].name
      BY <2>3
    <3>2. n \in NamesOf(s) \cap N
      BY <1>3, <2>1, <3>1 DEF NamesOf
    <3>3. \A l \in DOMAIN s : j < l => s[l].name # n
      BY <1>3, <2>1, <3>1
    <3>4. Val(s, n, v)
      BY <1>3, <2>1, <3>1, <3>3 DEF Val
    <3> QED BY <3>2, <3>4
  <2> QED BY <1>2, <2>2, <2>3 DEF Made
<1>9. ASSUME NEW n \in NamesOf(d) PROVE Prior(r, n) = Prior(d, n)
  <2>1. PICK i \in DOMAIN d : d[i].name = n
    BY DEF NamesOf
  <2>2. i \in DOMAIN r /\ r[i].name = n
    BY <1>2, <1>3, <1>4, <2>1 DEF Made
  <2>3. Prior(d, n) = {d[j].name : j \in 1 .. i - 1}
    BY <2>1, DictFacts
  <2>4. Prior(r, n) = {r[j].name : j \in 1 .. i - 1}
    <3>1. IsSeq(r) /\ IsDict(r)
      BY <1>4, <1>5
    <3> QED BY ONLY <2>2, <3>1, DictFacts
  <2>5. \A j \in 1 .. i - 1 : r[j].name = d[j].name
    BY <1>2, <1>3, <2>1 DEF Made
  <2> QED BY <2>3, <2>4, <2>5
<1>10. ASSUME NEW n \in NamesOf(r) \ NamesOf(d)
       PROVE  Prior(r, n) = NamesOf(d) \cup Before(s, N, n)
  <2>1. PICK i \in DOMAIN r : r[i].name = n
    BY DEF NamesOf
  <2>2. i \notin DOMAIN d
    BY <1>2, <2>1 DEF Made, NamesOf
  <2>3. Prior(r, n) = {r[j].name : j \in 1 .. i - 1}
    <3>1. IsSeq(r) /\ IsDict(r)
      BY <1>4, <1>5
    <3> QED BY ONLY <2>1, <3>1, DictFacts
  <2> QED BY <1>2, <2>1, <2>2, <2>3 DEF Made
<1> QED BY <1>4, <1>5, <1>7, <1>8, <1>9, <1>10

-----------------------------------------------------------------------------
(* The header.                                                             *)

IsHeader(h) ==
  /\ IsSeq(h)
  /\ \A i \in DOMAIN h : h[i].size \in Nat /\ h[i].valid \in BOOLEAN /\ IsValue(h[i].value)

Size(h, i) == IF h[i].valid THEN h[i].size ELSE 0
Valid(h, i) == {j \in 1 .. i : h[j].valid}
IsBytes(b, h) == b = [i \in 0 .. Len(h) |-> IF i = 0 THEN 0 ELSE b[i - 1] + Size(h, i)]

\* The members that parse_baggage takes, allowed or not.
Accepted(h, b) ==
  {i \in DOMAIN h : /\ h[i].valid
                    /\ Cardinality(Valid(h, i - 1)) < MaxMembers
                    /\ \A j \in 1 .. i : b[j - 1] + h[j].size <= MaxBytes}

\* The bytes counted so far, of valid members, are a number at every position.
LEMMA BytesExist ==
  ASSUME NEW h, IsHeader(h)
  PROVE  LET b == CHOOSE f : IsBytes(f, h) IN
         /\ b[0] = 0 /\ \A i \in 1 .. Len(h) : b[i] = b[i - 1] + Size(h, i)
         /\ \A i \in 0 .. Len(h) : b[i] \in Nat
<1>1. DOMAIN h = 1 .. Len(h) /\ Len(h) \in Nat
  BY DEF IsHeader, IsSeq
<1> DEFINE v == [i \in 1 .. Len(h) |-> Size(h, i)]
           n == Len(h)
<1>2. PICK f : IsTotal(f, v, n)
  <2> HIDE DEF v, n
  <2>1. n \in Nat
    BY <1>1 DEF n
  <2> QED BY <2>1, TotalExists
<1>3. IsBytes(f, h)
  <2>1. \A i \in 0 .. n : (IF i = 0 THEN 0 ELSE f[i - 1] + v[i]) = (IF i = 0 THEN 0 ELSE f[i - 1] + Size(h, i))
    OBVIOUS
  <2>2. f = [i \in 0 .. n |-> IF i = 0 THEN 0 ELSE f[i - 1] + v[i]]
    BY <1>2 DEF IsTotal
  <2>3. f = [i \in 0 .. n |-> IF i = 0 THEN 0 ELSE f[i - 1] + Size(h, i)]
    BY <2>1, <2>2
  <2> QED BY <2>3 DEF IsBytes
<1> DEFINE b == CHOOSE g : IsBytes(g, h)
<1>4. IsBytes(b, h)
  BY <1>3
<1> HIDE DEF b
<1>5. b[0] = 0 /\ \A i \in 1 .. Len(h) : b[i] = b[i - 1] + Size(h, i)
  <2>1. \A i \in 0 .. Len(h) : b[i] = IF i = 0 THEN 0 ELSE b[i - 1] + Size(h, i)
    BY <1>4 DEF IsBytes
  <2> QED BY <1>1, <2>1
<1>6. \A i \in 1 .. Len(h) : Size(h, i) \in Nat
  BY <1>1 DEF IsHeader, Size
<1> DEFINE T == {i \in Nat : i <= Len(h) => b[i] \in Nat}
<1>7. 0 \in T
  BY <1>5
<1>8. ASSUME NEW i \in Nat, i \in T PROVE i + 1 \in T
  <2> SUFFICES ASSUME i + 1 <= Len(h) PROVE b[i + 1] \in Nat
    OBVIOUS
  <2>1. i + 1 \in 1 .. Len(h) /\ (i + 1) - 1 = i /\ i <= Len(h)
    BY <1>1
  <2>2. b[i + 1] = b[i] + Size(h, i + 1) /\ Size(h, i + 1) \in Nat
    BY <1>5, <1>6, <2>1
  <2>3. b[i] \in Nat
    BY <1>8, <2>1
  <2> QED BY <2>2, <2>3
<1> HIDE DEF T
<1>9. \A i \in Nat : i \in T
  BY <1>7, <1>8, Induction
<1>10. \A i \in 0 .. Len(h) : b[i] \in Nat
  BY <1>1, <1>9 DEF T
<1> QED BY <1>5, <1>10 DEF b

\* How many members are valid grows by one with each.
LEMMA ValidSize ==
  ASSUME NEW h, IsHeader(h), NEW i \in Nat, i <= Len(h)
  PROVE  /\ IsFiniteSet(Valid(h, i)) /\ Cardinality(Valid(h, i)) \in Nat
         /\ \A k \in 0 .. i : Cardinality(Valid(h, k)) <= Cardinality(Valid(h, i))
         /\ i + 1 <= Len(h) =>
              Cardinality(Valid(h, i + 1)) = Cardinality(Valid(h, i)) + (IF h[i + 1].valid THEN 1 ELSE 0)
<1>1. IsFiniteSet(Valid(h, i))
  <2>1. IsFiniteSet(1 .. i) /\ Valid(h, i) \subseteq 1 .. i
    BY UpTo DEF Valid
  <2> QED BY <2>1, FS_Subset
<1>2. Cardinality(Valid(h, i)) \in Nat
  BY <1>1, FS_CardinalityType
<1>3. ASSUME NEW k \in 0 .. i PROVE Cardinality(Valid(h, k)) <= Cardinality(Valid(h, i))
  <2>1. Valid(h, k) \subseteq Valid(h, i)
    BY DEF Valid
  <2> QED BY <1>1, <2>1, FS_Subset
<1>4. ASSUME i + 1 <= Len(h)
      PROVE  Cardinality(Valid(h, i + 1)) = Cardinality(Valid(h, i)) + (IF h[i + 1].valid THEN 1 ELSE 0)
  <2>1. CASE h[i + 1].valid
    <3>1. Valid(h, i + 1) = Valid(h, i) \cup {i + 1} /\ i + 1 \notin Valid(h, i)
      BY <2>1 DEF Valid
    <3> QED BY <1>1, <2>1, <3>1, Added
  <2>2. CASE ~ h[i + 1].valid
    <3>1. Valid(h, i + 1) = Valid(h, i)
      BY <2>2 DEF Valid
    <3> QED BY <1>2, <2>2, <3>1
  <2> QED BY <2>1, <2>2
<1> QED BY <1>1, <1>2, <1>3, <1>4

\* t lists the members of h at the positions in S, in their order.
Enumerates(e, t, h, S) ==
  /\ e \in Seq(Nat) /\ Len(e) = Len(t)
  /\ \A k \in 1 .. Len(t) : e[k] \in S /\ t[k] = Item(h[e[k]].key, h[e[k]].value)
  /\ \A k, l \in 1 .. Len(t) : k < l => e[k] < e[l]
  /\ \A j \in S : \E k \in 1 .. Len(t) : e[k] = j
Lists(t, h, S) == IsSeq(t) /\ \E e : Enumerates(e, t, h, S)

\* A list goes on with the next member.
LEMMA ListsNext ==
  ASSUME NEW h, NEW t, NEW i \in Nat, NEW S \in SUBSET (1 .. i), Lists(t, h, S)
  PROVE  Lists(Append(t, Item(h[i + 1].key, h[i + 1].value)), h, S \cup {i + 1})
<1> DEFINE m == Item(h[i + 1].key, h[i + 1].value)
           q == Append(t, m)
<1>1. PICK e : Enumerates(e, t, h, S)
  BY DEF Lists
<1> DEFINE f == Append(e, i + 1)
<1>2. t \in Seq(ToSet(t)) /\ Len(t) \in Nat /\ DOMAIN t = 1 .. Len(t)
  BY DEF Lists, IsSeq
<1>3. Len(q) = Len(t) + 1 /\ q[Len(t) + 1] = m /\ \A k \in 1 .. Len(t) : q[k] = t[k]
  BY <1>2
<1>4. IsSeq(q)
  <2>1. t \in Seq(ToSet(t) \cup {m})
    BY <1>2, SeqGrows
  <2>2. q \in Seq(ToSet(t) \cup {m})
    BY <2>1
  <2> HIDE DEF q
  <2>3. q = [k \in 1 .. Len(q) |-> q[k]] /\ Len(q) \in Nat /\ DOMAIN q = 1 .. Len(q)
    BY <2>2
  <2>4. \A k \in DOMAIN q : q[k] \in ToSet(q)
    BY DEF ToSet
  <2> QED BY <2>3, <2>4 DEF IsSeq
<1>5. f \in Seq(Nat) /\ Len(f) = Len(t) + 1 /\ f[Len(t) + 1] = i + 1
      /\ \A k \in 1 .. Len(t) : f[k] = e[k] /\ e[k] \in S /\ e[k] \in 1 .. i
  BY <1>1 DEF Enumerates
<1> HIDE DEF q, f, m
<1>6. \A k \in 1 .. Len(q) : k \in 1 .. Len(t) \/ k = Len(t) + 1
  BY <1>2, <1>3
<1>7. \A k \in 1 .. Len(q) : f[k] \in S \cup {i + 1} /\ q[k] = Item(h[f[k]].key, h[f[k]].value)
  <2> TAKE k \in 1 .. Len(q)
  <2>1. CASE k \in 1 .. Len(t)
    BY <1>1, <1>3, <1>5, <2>1 DEF Enumerates
  <2>2. CASE k = Len(t) + 1
    BY <1>3, <1>5, <2>2 DEF m
  <2> QED BY <1>6, <2>1, <2>2
<1>8. \A k, l \in 1 .. Len(q) : k < l => f[k] < f[l]
  <2> TAKE k, l \in 1 .. Len(q)
  <2> HAVE k < l
  <2>1. k \in 1 .. Len(t)
    BY <1>2, <1>3
  <2>2. CASE l \in 1 .. Len(t)
    BY <1>1, <1>5, <2>1, <2>2 DEF Enumerates
  <2>3. CASE l = Len(t) + 1
    BY <1>5, <2>1, <2>3
  <2> QED BY <1>6, <2>2, <2>3
<1>9. \A j \in S \cup {i + 1} : \E k \in 1 .. Len(q) : f[k] = j
  <2> TAKE j \in S \cup {i + 1}
  <2>1. CASE j \in S
    <3>1. PICK k \in 1 .. Len(t) : e[k] = j
      BY <1>1, <2>1 DEF Enumerates
    <3>2. k \in 1 .. Len(q) /\ f[k] = j
      BY <1>2, <1>3, <1>5, <3>1
    <3> QED BY <3>2
  <2>2. CASE j = i + 1
    <3>1. Len(t) + 1 \in 1 .. Len(q) /\ f[Len(t) + 1] = j
      BY <1>2, <1>3, <1>5, <2>2
    <3> QED BY <3>1
  <2> QED BY <2>1, <2>2
<1>10. Enumerates(f, q, h, S \cup {i + 1})
  BY <1>3, <1>5, <1>7, <1>8, <1>9 DEF Enumerates
<1> QED BY <1>4, <1>10 DEF Lists, q, m

\* What a proof needs to know of a list.
LEMMA ListFacts ==
  ASSUME NEW h, NEW t, NEW S \in SUBSET Nat, Lists(t, h, S)
  PROVE  /\ NamesOf(t) = {h[j].key : j \in S}
         /\ \A n, v : Val(t, n, v) => 
              \E j \in S : h[j].key = n /\ h[j].value = v /\ \A l \in S : j < l => h[l].key # n
         /\ \A N, n : Before(t, N, n) =
              {h[j].key : j \in {k \in S : h[k].key \in N /\ \A l \in S : l <= k => h[l].key # n}}
<1>1. PICK e : Enumerates(e, t, h, S)
  BY DEF Lists
<1>2. Len(t) \in Nat /\ DOMAIN t = 1 .. Len(t)
  BY DEF Lists, IsSeq
<1>3. \A k \in 1 .. Len(t) : e[k] \in S /\ e[k] \in Nat /\ t[k].name = h[e[k]].key /\ t[k].value = h[e[k]].value
  <2> TAKE k \in 1 .. Len(t)
  <2>1. e[k] \in S /\ t[k] = Item(h[e[k]].key, h[e[k]].value)
    BY <1>1 DEF Enumerates
  <2>2. t[k].name = h[e[k]].key /\ t[k].value = h[e[k]].value
    BY <2>1 DEF Item
  <2> QED BY <2>1, <2>2
<1>4. \A k, l \in 1 .. Len(t) : k < l <=> e[k] < e[l]
  BY <1>1, <1>3 DEF Enumerates
<1>5. \A j \in S : \E k \in 1 .. Len(t) : e[k] = j
  BY <1>1 DEF Enumerates
<1>6. NamesOf(t) = {h[j].key : j \in S}
  <2>1. \A k \in DOMAIN t : t[k].name \in {h[j].key : j \in S}
    BY <1>2, <1>3
  <2>2. \A j \in S : h[j].key \in NamesOf(t)
    <3> TAKE j \in S
    <3>1. PICK k \in 1 .. Len(t) : e[k] = j
      BY <1>5
    <3>2. k \in DOMAIN t /\ t[k].name = h[j].key
      BY <1>2, <1>3, <3>1
    <3> QED BY <3>2 DEF NamesOf
  <2> QED BY <2>1, <2>2 DEF NamesOf
<1>7. ASSUME NEW n, NEW v, Val(t, n, v)
      PROVE  \E j \in S : h[j].key = n /\ h[j].value = v /\ \A l \in S : j < l => h[l].key # n
  <2>1. PICK k \in DOMAIN t : t[k].name = n /\ t[k].value = v /\ \A l \in DOMAIN t : k < l => t[l].name # n
    BY <1>7 DEF Val
  <2>2. e[k] \in S /\ h[e[k]].key = n /\ h[e[k]].value = v
    BY <1>2, <1>3, <2>1
  <2>3. \A l \in S : e[k] < l => h[l].key # n
    <3> TAKE l \in S
    <3>1. PICK o \in 1 .. Len(t) : e[o] = l
      BY <1>5
    <3> QED BY <1>2, <1>3, <1>4, <2>1, <3>1
  <2> QED BY <2>2, <2>3
<1>8. ASSUME NEW N, NEW n
      PROVE  Before(t, N, n) =
               {h[j].key : j \in {k \in S : h[k].key \in N /\ \A l \in S : l <= k => h[l].key # n}}
  <2> DEFINE P == {k \in DOMAIN t : t[k].name \in N /\ \A l \in 1 .. k : t[l].name # n}
             Q == {k \in S : h[k].key \in N /\ \A l \in S : l <= k => h[l].key # n}
  <2>1. \A k \in P : e[k] \in Q
    <3> TAKE k \in P
    <3>1. ASSUME NEW l \in S, l <= e[k] PROVE h[l].key # n
      <4>1. PICK o \in 1 .. Len(t) : e[o] = l
        BY <1>5
      <4>2. o \in 1 .. k
        BY <1>2, <1>3, <1>4, <3>1, <4>1
      <4> QED BY <1>3, <4>1, <4>2
    <3> QED BY <1>2, <1>3, <3>1
  <2>2. \A j \in Q : \E k \in P : e[k] = j
    <3> TAKE j \in Q
    <3>1. PICK k \in 1 .. Len(t) : e[k] = j
      BY <1>5
    <3>2. ASSUME NEW l \in 1 .. k PROVE t[l].name # n
      <4>1. l \in 1 .. Len(t) /\ e[l] \in S /\ e[l] <= j
        BY <1>2, <1>3, <1>4, <3>1
      <4> QED BY <1>3, <4>1
    <3> QED BY <1>2, <1>3, <3>1, <3>2
  <2>3. \A k \in P : t[k].name = h[e[k]].key
    BY <1>2, <1>3
  <2>4. Before(t, N, n) = {t[k].name : k \in P}
    BY DEF Before
  <2> HIDE DEF P, Q
  <2>5. {t[k].name : k \in P} = {h[j].key : j \in Q}
    BY <2>1, <2>2, <2>3
  <2> QED BY <2>4, <2>5 DEF Q
<1> QED BY <1>6, <1>7, <1>8

Members(h) == {Item(h[i].key, h[i].value) : i \in DOMAIN h}
Accs(h) == [members : Seq(Members(h)), bytes : Nat, end : BOOLEAN]

\* What parse_baggage knows after i members, while it goes on and when it has stopped.
Running(acc, i, h, b) ==
  /\ ~ acc.end /\ Len(acc.members) < MaxMembers
  /\ Len(acc.members) = Cardinality(Valid(h, i)) /\ acc.bytes = b[i]
  /\ \A j \in 1 .. i : b[j - 1] + h[j].size <= MaxBytes
Stopped(acc, i, h, b) ==
  /\ acc.end \/ Len(acc.members) >= MaxMembers
  /\ \/ Cardinality(Valid(h, i)) >= MaxMembers
     \/ \E j \in 1 .. i : b[j - 1] + h[j].size > MaxBytes
Parsed(acc, i, h, b) ==
  /\ acc \in Accs(h)
  /\ Lists(acc.members, h, Accepted(h, b) \cap 1 .. i)
  /\ Running(acc, i, h, b) \/ Stopped(acc, i, h, b)

LEMMA TakenType ==
  ASSUME NEW h, IsHeader(h), NEW i \in DOMAIN h, NEW acc \in Accs(h)
  PROVE  Taken(acc, h[i]) \in Accs(h)
<1>1. h[i].size \in Nat /\ h[i].valid \in BOOLEAN /\ Item(h[i].key, h[i].value) \in Members(h)
  BY DEF IsHeader, Members
<1>2. MaxBytes \in Nat /\ MaxMembers \in Nat
  BY FormatAssumption
<1> DEFINE m == Item(h[i].key, h[i].value)
<1>3. [acc EXCEPT !.end = TRUE] \in Accs(h)
  BY DEF Accs
<1>4. [acc EXCEPT !.members = Append(@, m), !.bytes = @ + h[i].size] \in Accs(h)
  <2>1. Append(acc.members, m) \in Seq(Members(h)) /\ acc.bytes + h[i].size \in Nat
    <3>1. acc.members \in Seq(Members(h)) /\ acc.bytes \in Nat
      BY DEF Accs
    <3> HIDE DEF m
    <3> QED BY <1>1, <3>1 DEF m
  <2> HIDE DEF m
  <2> QED BY <2>1 DEF Accs
<1> HIDE DEF m
<1> QED BY <1>3, <1>4 DEF Taken, m

\* One more member of the header: what Parsed says goes on to hold.
LEMMA ParseStep ==
  ASSUME NEW h, IsHeader(h), NEW b, b[0] = 0, \A l \in 1 .. Len(h) : b[l] = b[l - 1] + Size(h, l),
         \A l \in 0 .. Len(h) : b[l] \in Nat,
         NEW i \in Nat, i + 1 <= Len(h), NEW acc, Parsed(acc, i, h, b)
  PROVE  Parsed(Taken(acc, h[i + 1]), i + 1, h, b)
<1> DEFINE m == h[i + 1]
           new == Taken(acc, m)
           card == Cardinality(Valid(h, i))
<1>0. m = h[i + 1] /\ new = Taken(acc, m) /\ card = Cardinality(Valid(h, i))
  OBVIOUS
<1>1. DOMAIN h = 1 .. Len(h) /\ Len(h) \in Nat /\ i + 1 \in DOMAIN h /\ i <= Len(h) /\ (i + 1) - 1 = i
      /\ 1 .. i + 1 = (1 .. i) \cup {i + 1}
  BY DEF IsHeader, IsSeq
<1>2. acc \in Accs(h) /\ acc.members \in Seq(Members(h)) /\ acc.bytes \in Nat /\ acc.end \in BOOLEAN
      /\ Len(acc.members) \in Nat
  BY DEF Parsed, Accs
<1>3. m.size \in Nat /\ m.valid \in BOOLEAN /\ b[i] \in Nat /\ MaxMembers \in Nat /\ MaxBytes \in Nat
  BY <1>1, FormatAssumption DEF IsHeader
<1>4. new \in Accs(h)
  BY <1>1, <1>2, TakenType
<1>5. card \in Nat /\ Cardinality(Valid(h, i + 1)) = card + (IF m.valid THEN 1 ELSE 0)
  BY <1>1, ValidSize
<1>6. b[i + 1] = b[i] + (IF m.valid THEN m.size ELSE 0)
  BY <1>1 DEF Size
<1>7. i + 1 \in Accepted(h, b) <=>
        m.valid /\ card < MaxMembers /\ \A j \in 1 .. i + 1 : b[j - 1] + h[j].size <= MaxBytes
  BY <1>1 DEF Accepted
<1>8. i + 1 \notin Accepted(h, b) => Accepted(h, b) \cap 1 .. i + 1 = Accepted(h, b) \cap 1 .. i
  BY <1>1
<1>9. \A j \in 1 .. i + 1 : h[j].size \in Nat /\ b[j - 1] \in Nat
  <2> TAKE j \in 1 .. i + 1
  <2>1. j \in DOMAIN h /\ j - 1 \in 0 .. Len(h)
    BY <1>1
  <2> QED BY <2>1 DEF IsHeader
<1>31. Lists(acc.members, h, Accepted(h, b) \cap 1 .. i)
  BY DEF Parsed
<1> HIDE DEF m, new, card
<1>10. CASE Stopped(acc, i, h, b)
  <2>1. new = acc
    BY <1>0, <1>2, <1>3, <1>10 DEF Taken, Stopped
  <2>2. i + 1 \notin Accepted(h, b)
    <3>1. CASE card >= MaxMembers
      BY <1>3, <1>5, <1>7, <3>1
    <3>2. CASE \E j \in 1 .. i : b[j - 1] + h[j].size > MaxBytes
      BY <1>1, <1>3, <1>7, <1>9, <3>2
    <3> QED BY <1>0, <1>10, <3>1, <3>2 DEF Stopped
  <2>3. Stopped(acc, i + 1, h, b)
    <3>1. card >= MaxMembers => card + (IF m.valid THEN 1 ELSE 0) >= MaxMembers
      BY <1>3, <1>5
    <3> QED BY <1>0, <1>1, <1>5, <1>10, <3>1 DEF Stopped
  <2> QED BY <1>0, <1>4, <1>8, <1>31, <2>1, <2>2, <2>3 DEF Parsed
<1>11. CASE Running(acc, i, h, b)
  <2>1. ~ acc.end /\ Len(acc.members) < MaxMembers /\ Len(acc.members) = card /\ acc.bytes = b[i]
        /\ \A j \in 1 .. i : b[j - 1] + h[j].size <= MaxBytes
    BY <1>0, <1>11 DEF Running
  <2>2. ~ (acc.end \/ Len(acc.members) >= MaxMembers)
    BY <1>2, <1>3, <2>1
  <2>3. CASE b[i] + m.size > MaxBytes
    <3>1. new = [acc EXCEPT !.end = TRUE]
      BY <1>0, <2>1, <2>2, <2>3 DEF Taken
    <3>2. new.end /\ new.members = acc.members
      BY <1>2, <3>1 DEF Accs
    <3>3. \E j \in 1 .. i + 1 : b[j - 1] + h[j].size > MaxBytes
      BY <1>0, <1>1, <2>3
    <3>4. i + 1 \notin Accepted(h, b)
      BY <1>0, <1>1, <1>3, <1>7, <2>3
    <3>5. Stopped(new, i + 1, h, b)
      BY <3>2, <3>3 DEF Stopped
    <3> QED BY <1>0, <1>4, <1>8, <1>31, <3>2, <3>4, <3>5 DEF Parsed
  <2>4. CASE ~ (b[i] + m.size > MaxBytes) /\ ~ m.valid
    <3>1. new = acc
      BY <1>0, <2>1, <2>2, <2>4 DEF Taken
    <3>2. i + 1 \notin Accepted(h, b)
      BY <1>7, <2>4
    <3>3. \A j \in 1 .. i + 1 : b[j - 1] + h[j].size <= MaxBytes
      <4>0. b[i] + m.size <= MaxBytes
        BY <1>3, <2>4
      <4> TAKE j \in 1 .. i + 1
      <4>1. CASE j \in 1 .. i
        BY <2>1, <4>1
      <4>2. CASE j = i + 1
        BY <1>0, <1>1, <4>0, <4>2
      <4> QED BY <1>1, <4>1, <4>2
    <3>4. Running(acc, i + 1, h, b)
      BY <1>3, <1>5, <1>6, <2>1, <2>4, <3>3 DEF Running
    <3> QED BY <1>0, <1>4, <1>8, <1>31, <3>1, <3>2, <3>4 DEF Parsed
  <2>5. CASE ~ (b[i] + m.size > MaxBytes) /\ m.valid
    <3> DEFINE x == Item(m.key, m.value)
    <3>1. new = [acc EXCEPT !.members = Append(@, x), !.bytes = @ + m.size]
      BY <1>0, <2>1, <2>2, <2>5 DEF Taken
    <3> HIDE DEF x
    <3>2. new.members = Append(acc.members, x) /\ new.bytes = b[i] + m.size /\ new.end = acc.end
      BY <1>2, <2>1, <3>1 DEF Accs
    <3>3. Len(new.members) = Len(acc.members) + 1
      BY <1>2, <3>2
    <3>4. \A j \in 1 .. i + 1 : b[j - 1] + h[j].size <= MaxBytes
      <4>0. b[i] + m.size <= MaxBytes
        BY <1>3, <2>5
      <4> TAKE j \in 1 .. i + 1
      <4>1. CASE j \in 1 .. i
        BY <2>1, <4>1
      <4>2. CASE j = i + 1
        BY <1>0, <1>1, <4>0, <4>2
      <4> QED BY <1>1, <4>1, <4>2
    <3>5. i + 1 \in Accepted(h, b)
      BY <1>5, <1>7, <2>1, <2>5, <3>4
    <3>6. Accepted(h, b) \cap 1 .. i + 1 = (Accepted(h, b) \cap 1 .. i) \cup {i + 1}
      BY <1>1, <3>5
    <3>7. Lists(new.members, h, Accepted(h, b) \cap 1 .. i + 1)
      <4>1. Accepted(h, b) \cap 1 .. i \in SUBSET (1 .. i)
        OBVIOUS
      <4> DEFINE S == Accepted(h, b) \cap 1 .. i
      <4> HIDE DEF S
      <4>2. Lists(Append(acc.members, Item(h[i + 1].key, h[i + 1].value)), h, S \cup {i + 1})
        BY <1>31, <4>1, ListsNext DEF S
      <4> QED BY <1>0, <3>2, <3>6, <4>2 DEF S, x
    <3>8. Cardinality(Valid(h, i + 1)) = Len(new.members)
      BY <1>5, <2>1, <2>5, <3>3
    <3>9. CASE Len(new.members) < MaxMembers
      <4>1. Running(new, i + 1, h, b)
        BY <1>6, <2>1, <2>5, <3>2, <3>4, <3>8, <3>9 DEF Running
      <4> QED BY <1>0, <1>4, <3>7, <4>1 DEF Parsed
    <3>10. CASE ~ (Len(new.members) < MaxMembers)
      <4>1. Len(new.members) >= MaxMembers
        BY <1>2, <1>3, <3>3, <3>10
      <4>2. Stopped(new, i + 1, h, b)
        BY <3>8, <4>1 DEF Stopped
      <4> QED BY <1>0, <1>4, <3>7, <4>2 DEF Parsed
    <3> QED BY <3>9, <3>10
  <2> QED BY <2>3, <2>4, <2>5
<1> QED BY <1>10, <1>11 DEF Parsed

\* What parse_baggage returns: the members that are accepted, in their order.
LEMMA ParseFacts ==
  ASSUME NEW h, IsHeader(h)
  PROVE  LET b == CHOOSE f : IsBytes(f, h) IN
         Lists(Parse(h), h, Accepted(h, b)) /\ ToSet(Parse(h)) \subseteq Members(h)
<1> DEFINE b == CHOOSE f : IsBytes(f, h)
           start == [members |-> <<>>, bytes |-> 0, end |-> FALSE]
           Is(u) == u = [i \in 0 .. Len(h) |-> IF i = 0 THEN start ELSE Taken(u[i - 1], h[i])]
           F == [p \in (1 .. Len(h)) \X Accs(h) |-> Taken(p[2], h[p[1]])]
           n == Len(h)
<1>1. n \in Nat /\ DOMAIN h = 1 .. n /\ start \in Accs(h) /\ n = Len(h)
  BY DEF IsHeader, IsSeq, Accs
<1>2. b[0] = 0 /\ (\A i \in 1 .. Len(h) : b[i] = b[i - 1] + Size(h, i)) /\ \A i \in 0 .. Len(h) : b[i] \in Nat
  <2> HIDE DEF b
  <2> QED BY BytesExist DEF b
<1> HIDE DEF b
<1>3. \A i \in 1 .. n, a \in Accs(h) : F[<<i, a>>] = Taken(a, h[i])
  OBVIOUS
<1> HIDE DEF F
<1>4. Steps(F, n, Accs(h))
  <2>1. \A i \in 1 .. n, a \in Accs(h) : Taken(a, h[i]) \in Accs(h)
    BY <1>1, TakenType
  <2> QED BY <1>3, <2>1 DEF Steps
<1> HIDE DEF n, start
<1>5. PICK f : Runs(f, n, Accs(h), start, F)
  BY <1>1, <1>4, Recursion
<1>6. Is(f)
  <2>1. \A i \in 1 .. n : f[i - 1] \in Accs(h)
    BY <1>1, <1>5 DEF Runs
  <2>2. \A i \in 0 .. n : f[i] = IF i = 0 THEN start ELSE Taken(f[i - 1], h[i])
    <3> TAKE i \in 0 .. n
    <3>1. CASE i = 0
      BY <1>5, <3>1 DEF Runs
    <3>2. CASE i # 0
      <4>1. i \in 1 .. n
        BY <1>1, <3>2
      <4>2. f[i] = F[<<i, f[i - 1]>>]
        BY <1>5, <4>1 DEF Runs
      <4> QED BY <1>3, <2>1, <3>2, <4>1, <4>2
    <3> QED BY <3>1, <3>2
  <2>3. f = [i \in 0 .. n |-> f[i]]
    BY <1>5 DEF Runs
  <2> QED BY <1>1, <2>2, <2>3
<1> DEFINE u == CHOOSE g : Is(g)
<1>7. Is(u)
  BY <1>6
<1>8. Parse(h) = u[Len(h)].members
  BY DEF Parse, start
<1> HIDE DEF u
<1>9. u[0] = start /\ \A i \in 1 .. n : u[i] = Taken(u[i - 1], h[i])
  <2>1. \A i \in 0 .. n : u[i] = IF i = 0 THEN start ELSE Taken(u[i - 1], h[i])
    BY <1>1, <1>7
  <2> QED BY <1>1, <2>1
<1> HIDE DEF Is
<1> DEFINE T == {i \in Nat : i <= n => Parsed(u[i], i, h, b)}
<1>10. 0 \in T
  <2>1. Lists(<<>>, h, {})
    <3>1. Enumerates(<<>>, <<>>, h, {})
      BY DEF Enumerates
    <3>2. IsSeq(<<>>)
      BY DEF IsSeq
    <3> QED BY <3>1, <3>2 DEF Lists
  <2>2. Accepted(h, b) \cap 1 .. 0 = {}
    OBVIOUS
  <2>3. start.members = <<>> /\ start.bytes = 0 /\ ~ start.end
    BY DEF start
  <2>4. Cardinality(Valid(h, 0)) = 0
    <3>1. Valid(h, 0) = {}
      BY DEF Valid
    <3> QED BY <3>1, FS_EmptySet
  <2>5. Running(start, 0, h, b) \/ Stopped(start, 0, h, b)
    <3>1. CASE 0 < MaxMembers
      BY <1>2, <2>3, <2>4, <3>1 DEF Running
    <3>2. CASE ~ (0 < MaxMembers)
      <4>1. 0 >= MaxMembers
        BY <3>2, FormatAssumption
      <4> QED BY <2>3, <2>4, <4>1 DEF Stopped
    <3> QED BY <3>1, <3>2
  <2> QED BY <1>1, <1>9, <2>1, <2>2, <2>3, <2>5 DEF Parsed
<1>11. ASSUME NEW i \in Nat, i \in T PROVE i + 1 \in T
  <2> SUFFICES ASSUME i + 1 <= n PROVE Parsed(u[i + 1], i + 1, h, b)
    OBVIOUS
  <2>1. i + 1 \in 1 .. n /\ (i + 1) - 1 = i /\ i <= n /\ i + 1 <= Len(h)
    BY <1>1
  <2>2. Parsed(u[i], i, h, b) /\ u[i + 1] = Taken(u[i], h[i + 1])
    BY <1>9, <1>11, <2>1
  <2> HIDE DEF T
  <2>3. Parsed(Taken(u[i], h[i + 1]), i + 1, h, b)
    BY <1>2, <2>1, <2>2, ParseStep
  <2> QED BY <2>2, <2>3
<1> HIDE DEF T
<1>12. n \in T
  BY <1>1, <1>10, <1>11, Induction
<1>13. Parsed(u[n], n, h, b)
  BY <1>1, <1>12 DEF T
<1>14. Accepted(h, b) \cap 1 .. n = Accepted(h, b)
  BY <1>1 DEF Accepted
<1>15. u[n].members \in Seq(Members(h))
  BY <1>13 DEF Parsed, Accs
<1>16. ToSet(u[n].members) \subseteq Members(h)
  BY <1>15 DEF ToSet
<1> QED BY <1>1, <1>8, <1>13, <1>14, <1>16 DEF Parsed, b

-----------------------------------------------------------------------------
(* Where the attributes come from, named as the line names them.           *)

Xs(r) == [i \in DOMAIN r.extras |-> Item(Name[r.extras[i].name], r.extras[i].value)]
Gs(s) == [i \in Received(s.header) |-> Item(Prefixed[s.header[i].key], s.header[i].value)]

\* The names before the first one that is n; f may leave positions out.
First(f, n) == {f[j].name : j \in {k \in DOMAIN f : \A l \in DOMAIN f : l <= k => f[l].name # n}}

LEMMA ItemFacts ==
  ASSUME NEW n, NEW v
  PROVE  Item(n, v).name = n /\ Item(n, v).value = v
BY DEF Item

\* In a sequence, whose positions have no gaps, First is Prior.
LEMMA FirstPrior ==
  ASSUME NEW s, IsSeq(s), NEW n
  PROVE  Prior(s, n) = First(s, n)
<1>1. DOMAIN s = 1 .. Len(s) /\ Len(s) \in Nat
  BY DEF IsSeq
<1> DEFINE P == {k \in DOMAIN s : s[k].name \in NamesOf(s) /\ \A l \in 1 .. k : s[l].name # n}
           Q == {k \in DOMAIN s : \A l \in DOMAIN s : l <= k => s[l].name # n}
<1>2. P = Q
  <2>1. \A k \in DOMAIN s : s[k].name \in NamesOf(s)
    BY DEF NamesOf
  <2>2. \A k \in DOMAIN s : \A l : l \in 1 .. k <=> l \in DOMAIN s /\ l <= k
    BY <1>1
  <2> QED BY <2>1, <2>2
<1>3. Prior(s, n) = {s[k].name : k \in P} /\ First(s, n) = {s[k].name : k \in Q}
  BY DEF Prior, Before, First
<1> QED BY <1>2, <1>3

LEMMA EmptyDict ==
  /\ IsSeq(<<>>) /\ IsDict(<<>>) /\ NamesOf(<<>>) = {} /\ ToSet(<<>>) = {}
BY DEF IsSeq, IsDict, NamesOf, ToSet

LEMMA HeaderFacts ==
  ASSUME NEW s \in Snapshots
  PROVE  IsHeader(s.header)
<1>1. s.header \in Seq(ToSet(s.header))
      /\ \A m \in ToSet(s.header) : m.size \in Nat /\ m.valid \in BOOLEAN /\ IsValue(m.value)
  BY FormatAssumption
<1>2. \A i \in DOMAIN s.header : s.header[i] \in ToSet(s.header)
  BY DEF ToSet
<1> QED BY <1>1, <1>2 DEF IsHeader, IsSeq

\* Received, by the definitions used here.
LEMMA ReceivedFacts ==
  ASSUME NEW s \in Snapshots
  PROVE  LET h == s.header
             b == CHOOSE f : IsBytes(f, h)
         IN Received(h) = {i \in Accepted(h, b) : h[i].key \in Allowed}
<1> DEFINE h == s.header
           b == CHOOSE f : IsBytes(f, h)
<1>1. Received(h) = {i \in DOMAIN h :
        /\ h[i].valid /\ h[i].key \in Allowed
        /\ Cardinality(Valid(h, i - 1)) < MaxMembers
        /\ \A j \in 1 .. i : b[j - 1] + h[j].size <= MaxBytes}
  BY DEF Received, Valid, IsBytes, Size
<1> HIDE DEF b, h
<1>2. Received(h) = {i \in Accepted(h, b) : h[i].key \in Allowed}
  BY <1>1 DEF Accepted
<1> QED BY <1>2 DEF b, h

\* What the baggage adds: of each name received the last value, where the first one stands.
LEMMA BaggageFacts ==
  ASSUME NEW s \in Snapshots
  PROVE  /\ IsSeq(Baggage(s)) /\ IsDict(Baggage(s))
         /\ NamesOf(Baggage(s)) = NamesOf(Gs(s))
         /\ \A n, v : Val(Baggage(s), n, v) => Val(Gs(s), n, v)
         /\ \A n \in NamesOf(Baggage(s)) : Prior(Baggage(s), n) = First(Gs(s), n)
<1> DEFINE h == s.header
           b == CHOOSE f : IsBytes(f, h)
           t == Parse(h)
           a == Assign(<<>>, t, Allowed)
           G == Baggage(s)
           S == Accepted(h, b)
           R == Received(h)
           g == Gs(s)
<1>0. h = s.header /\ t = Parse(h) /\ a = Assign(<<>>, t, Allowed) /\ G = Baggage(s) /\ R = Received(h)
      /\ g = Gs(s)
  OBVIOUS
<1>1. Lists(t, h, S) /\ IsHeader(h)
  BY HeaderFacts, ParseFacts
<1>2. R = {i \in S : h[i].key \in Allowed}
  BY ReceivedFacts
<1>3. S \in SUBSET Nat
  <2>1. DOMAIN h = 1 .. Len(h) /\ Len(h) \in Nat
    BY <1>1 DEF IsHeader, IsSeq
  <2> HIDE DEF h, b
  <2> QED BY <2>1 DEF Accepted
<1>4. G = [i \in DOMAIN a |-> Item(Prefixed[a[i].name], a[i].value)]
  BY DEF Baggage
<1> HIDE DEF h, b, t, a, G, S, R, g
<1>5. IsSeq(t) /\ IsSeq(<<>>) /\ IsDict(<<>>)
  BY <1>1, EmptyDict DEF Lists
<1>6. /\ NamesOf(t) = {h[j].key : j \in S}
      /\ \A n, v : Val(t, n, v) =>
           \E j \in S : h[j].key = n /\ h[j].value = v /\ \A l \in S : j < l => h[l].key # n
      /\ \A n : Before(t, Allowed, n) =
           {h[j].key : j \in {k \in S : h[k].key \in Allowed /\ \A l \in S : l <= k => h[l].key # n}}
  BY <1>1, <1>3, ListFacts
<1>7. /\ IsSeq(a) /\ IsDict(a) /\ NamesOf(a) = NamesOf(t) \cap Allowed
      /\ \A n, v : Val(a, n, v) => IF n \in NamesOf(t) \cap Allowed THEN Val(t, n, v) ELSE Val(<<>>, n, v)
      /\ \A n \in NamesOf(a) : Prior(a, n) = Before(t, Allowed, n)
  <2>1. /\ IsSeq(a) /\ IsDict(a)
        /\ NamesOf(a) = NamesOf(<<>>) \cup (NamesOf(t) \cap Allowed)
        /\ \A n, v : Val(a, n, v) => IF n \in NamesOf(t) \cap Allowed THEN Val(t, n, v) ELSE Val(<<>>, n, v)
        /\ \A n \in NamesOf(a) \ NamesOf(<<>>) : Prior(a, n) = NamesOf(<<>>) \cup Before(t, Allowed, n)
    BY <1>0, <1>5, AssignFacts
  <2>2. NamesOf(<<>>) = {}
    BY EmptyDict
  <2> HIDE DEF NamesOf, Prior, Before
  <2> QED BY <2>1, <2>2
<1>8. DOMAIN a = 1 .. Len(a) /\ Len(a) \in Nat
  BY <1>7 DEF IsSeq
<1>9. \A i \in DOMAIN a : a[i].name \in Allowed /\ a[i].name \in DOMAIN Prefixed
  <2>1. \A i \in DOMAIN a : a[i].name \in Allowed
    BY <1>7 DEF NamesOf
  <2> QED BY <2>1, FormatAssumption
<1>10. DOMAIN G = DOMAIN a /\ \A i \in DOMAIN a : G[i].name = Prefixed[a[i].name] /\ G[i].value = a[i].value
  <2>1. \A i \in DOMAIN a : G[i] = Item(Prefixed[a[i].name], a[i].value)
    BY <1>4
  <2> QED BY <1>4, <2>1, ItemFacts
<1>11. IsSeq(G)
  <2>1. G = [i \in 1 .. Len(a) |-> G[i]] /\ \A i \in 1 .. Len(a) : G[i] \in ToSet(G)
    BY <1>4, <1>8 DEF ToSet
  <2>2. G \in Seq(ToSet(G))
    BY <1>8, <2>1
  <2> QED BY <2>2 DEF IsSeq
<1>32. \A k, l \in DOMAIN Prefixed : Prefixed[k] = Prefixed[l] => k = l
  BY FormatAssumption
<1>12. IsDict(G)
  <2> SUFFICES ASSUME NEW i \in DOMAIN G, NEW j \in DOMAIN G, G[i].name = G[j].name PROVE i = j
    BY DEF IsDict
  <2>1. a[i].name = a[j].name
    BY <1>9, <1>10, <1>32
  <2> QED BY <1>7, <1>10, <2>1 DEF IsDict
<1>13. DOMAIN g = R /\ \A j \in R : g[j].name = Prefixed[h[j].key] /\ g[j].value = h[j].value
  <2>1. g = [i \in R |-> Item(Prefixed[h[i].key], h[i].value)]
    BY <1>0 DEF Gs
  <2> QED BY <2>1, ItemFacts
<1>14. \A j \in R : h[j].key \in Allowed /\ h[j].key \in DOMAIN Prefixed
  BY <1>2, FormatAssumption
<1>15. NamesOf(G) = NamesOf(g)
  <2>1. \A i \in DOMAIN G : \E j \in R : g[j].name = G[i].name
    <3> TAKE i \in DOMAIN G
    <3>1. a[i].name \in {h[j].key : j \in S} /\ a[i].name \in Allowed
      <4>1. a[i].name \in NamesOf(a)
        BY <1>10 DEF NamesOf
      <4> QED BY <1>6, <1>7, <4>1
    <3>2. PICK j \in S : h[j].key = a[i].name
      BY <3>1
    <3>3. j \in R
      BY <1>2, <3>1, <3>2
    <3> QED BY <1>10, <1>13, <3>2, <3>3
  <2>2. \A j \in R : \E i \in DOMAIN G : g[j].name = G[i].name
    <3> TAKE j \in R
    <3>1. h[j].key \in NamesOf(a)
      BY <1>2, <1>6, <1>7, <1>14
    <3>2. PICK i \in DOMAIN a : a[i].name = h[j].key
      BY <3>1 DEF NamesOf
    <3> QED BY <1>10, <1>13, <3>2
  <2> QED BY <1>13, <2>1, <2>2 DEF NamesOf
<1>16. ASSUME NEW n, NEW v, Val(G, n, v) PROVE Val(g, n, v)
  <2>1. PICK i \in DOMAIN G : G[i].name = n /\ G[i].value = v
    BY <1>16 DEF Val
  <2> DEFINE k == a[i].name
  <2>2. Val(a, k, v)
    <3>1. i \in DOMAIN a /\ a[i].value = v
      BY <1>10, <2>1
    <3> QED BY <1>7, <3>1, DictFacts
  <2>3. k \in NamesOf(a) /\ Prefixed[k] = n /\ k \in Allowed /\ k \in DOMAIN Prefixed
    BY <1>9, <1>10, <2>1 DEF NamesOf
  <2> HIDE DEF k
  <2>4. Val(t, k, v)
    BY <1>7, <2>2, <2>3
  <2>5. PICK j \in S : h[j].key = k /\ h[j].value = v /\ \A l \in S : j < l => h[l].key # k
    BY <1>6, <2>4
  <2>6. j \in R /\ g[j].name = n /\ g[j].value = v
    BY <1>2, <1>13, <2>3, <2>5
  <2>7. \A l \in R : j < l => g[l].name # n
    BY <1>2, <1>13, <1>14, <1>32, <2>3, <2>5
  <2> QED BY <1>13, <2>6, <2>7 DEF Val
<1>17. ASSUME NEW n \in NamesOf(G) PROVE Prior(G, n) = First(g, n)
  <2>1. PICK i \in DOMAIN G : G[i].name = n
    BY DEF NamesOf
  <2> DEFINE k == a[i].name
             P == {o \in S : h[o].key \in Allowed /\ \A l \in S : l <= o => h[l].key # k}
             Q == {o \in R : \A l \in R : l <= o => g[l].name # n}
  <2>2. k \in NamesOf(a) /\ Prefixed[k] = n /\ k \in Allowed /\ k \in DOMAIN Prefixed
    BY <1>9, <1>10, <2>1 DEF NamesOf
  <2>3. Prior(G, n) = {G[j].name : j \in 1 .. i - 1}
    BY <1>11, <1>12, <2>1, DictFacts
  <2>4. Prior(a, k) = {a[j].name : j \in 1 .. i - 1}
    BY <1>7, <1>10, <2>1, DictFacts
  <2>5. \A j \in 1 .. i - 1 : G[j].name = Prefixed[a[j].name]
    BY <1>8, <1>10, <2>1
  <2>6. Prior(a, k) = {h[o].key : o \in P}
    BY <1>6, <1>7, <2>2
  <2>7. P = Q
    BY <1>2, <1>13, <1>14, <1>32, <2>2
  <2>8. \A o \in Q : g[o].name = Prefixed[h[o].key]
    BY <1>13
  <2>9. First(g, n) = {g[o].name : o \in Q}
    BY <1>13 DEF First
  <2> HIDE DEF P, Q, k
  <2>10. {G[j].name : j \in 1 .. i - 1} = {Prefixed[z] : z \in Prior(a, k)}
    <3>1. {G[j].name : j \in 1 .. i - 1} = {Prefixed[a[j].name] : j \in 1 .. i - 1}
      BY <2>5
    <3>2. {Prefixed[z] : z \in {a[j].name : j \in 1 .. i - 1}} = {Prefixed[a[j].name] : j \in 1 .. i - 1}
      OBVIOUS
    <3> QED BY <2>4, <3>1, <3>2
  <2>11. {Prefixed[z] : z \in {h[o].key : o \in Q}} = {g[o].name : o \in Q}
    BY <2>8
  <2> QED BY <2>3, <2>6, <2>7, <2>9, <2>10, <2>11
<1> QED BY <1>11, <1>12, <1>15, <1>16, <1>17 DEF G, g

\* What an update makes of a dict.
LEMMA UpdateFacts ==
  ASSUME NEW d, IsSeq(d), IsDict(d), NEW s, IsSeq(s)
  PROVE  /\ IsSeq(Update(d, s)) /\ IsDict(Update(d, s))
         /\ NamesOf(Update(d, s)) = NamesOf(d) \cup NamesOf(s)
         /\ \A n, v : Val(Update(d, s), n, v) => IF n \in NamesOf(s) THEN Val(s, n, v) ELSE Val(d, n, v)
         /\ \A n \in NamesOf(d) : Prior(Update(d, s), n) = Prior(d, n)
         /\ \A n \in NamesOf(s) \ NamesOf(d) : Prior(Update(d, s), n) = NamesOf(d) \cup Prior(s, n)
         /\ ToSet(Update(d, s)) \subseteq ToSet(d) \cup ToSet(s)
<1> DEFINE N == NamesOf(s)
           r == Update(d, s)
<1>1. r = Assign(d, s, N) /\ N = NamesOf(s)
  BY DEF Update
<1> HIDE DEF N, r
<1>2. /\ IsSeq(r) /\ IsDict(r)
      /\ NamesOf(r) = NamesOf(d) \cup (NamesOf(s) \cap N)
      /\ \A n, v : Val(r, n, v) => IF n \in NamesOf(s) \cap N THEN Val(s, n, v) ELSE Val(d, n, v)
      /\ \A n \in NamesOf(d) : Prior(r, n) = Prior(d, n)
      /\ \A n \in NamesOf(r) \ NamesOf(d) : Prior(r, n) = NamesOf(d) \cup Before(s, N, n)
      /\ ToSet(r) \subseteq ToSet(d) \cup ToSet(s)
  BY <1>1, AssignFacts
<1>3. NamesOf(s) \cap N = NamesOf(s) /\ \A n : Before(s, N, n) = Prior(s, n)
  BY <1>1 DEF Prior
<1> HIDE <1>1
<1> QED BY <1>2, <1>3 DEF r

\* A sequence of items, given by a function of the position.
LEMMA MappedSeq ==
  ASSUME NEW s, s \in Seq(ToSet(s)), NEW q, DOMAIN q = DOMAIN s, q = [i \in DOMAIN s |-> q[i]]
  PROVE  IsSeq(q)
<1>1. DOMAIN s = 1 .. Len(s) /\ Len(s) \in Nat
  OBVIOUS
<1>2. \A i \in 1 .. Len(s) : q[i] \in ToSet(q)
  BY <1>1 DEF ToSet
<1> QED BY <1>1, <1>2 DEF IsSeq

\* What a call site logs: the members of Xs are named and typed.
LEMMA RecordFacts ==
  ASSUME NEW r \in Records
  PROVE  /\ r.extras \in Seq(ToSet(r.extras))
         /\ IsSeq(Xs(r)) /\ DOMAIN Xs(r) = DOMAIN r.extras
         /\ \A i \in DOMAIN Xs(r) :
              /\ Xs(r)[i].name = Name[r.extras[i].name] /\ Xs(r)[i].value = r.extras[i].value
              /\ r.extras[i] \in ToSet(r.extras)
              /\ IsValue(Xs(r)[i].value)
<1>1. r.extras \in Seq(ToSet(r.extras)) /\ \A i \in DOMAIN r.extras : IsValue(r.extras[i].value)
  BY FormatAssumption DEF HoldsValues
<1>2. Xs(r) = [i \in DOMAIN r.extras |-> Item(Name[r.extras[i].name], r.extras[i].value)]
  BY DEF Xs
<1>3. DOMAIN Xs(r) = DOMAIN r.extras /\ Xs(r) = [i \in DOMAIN r.extras |-> Xs(r)[i]]
  BY <1>2
<1>4. IsSeq(Xs(r))
  BY <1>1, <1>3, MappedSeq
<1>5. \A i \in DOMAIN Xs(r) :
        /\ Xs(r)[i].name = Name[r.extras[i].name] /\ Xs(r)[i].value = r.extras[i].value
        /\ r.extras[i] \in ToSet(r.extras)
  BY <1>2, ItemFacts DEF ToSet
<1> QED BY <1>1, <1>3, <1>4, <1>5

\* What is bound and received has values.
LEMMA SnapshotFacts ==
  ASSUME NEW s \in Snapshots
  PROVE  /\ IsSeq(s.attributes) /\ IsDict(s.attributes)
         /\ \A i \in DOMAIN s.attributes : IsValue(s.attributes[i].value)
         /\ DOMAIN Gs(s) \subseteq DOMAIN s.header /\ DOMAIN Gs(s) \subseteq Nat
         /\ \A i \in DOMAIN Gs(s) : IsValue(Gs(s)[i].value)
<1>1. IsSeq(s.attributes) /\ IsDict(s.attributes)
      /\ \A i \in DOMAIN s.attributes : IsValue(s.attributes[i].value)
  BY FormatAssumption DEF HoldsValues, IsSeq
<1>2. IsHeader(s.header)
  BY HeaderFacts
<1>3. DOMAIN s.header = 1 .. Len(s.header) /\ Len(s.header) \in Nat
      /\ \A i \in DOMAIN s.header : IsValue(s.header[i].value)
  BY <1>2 DEF IsHeader, IsSeq
<1>4. Received(s.header) \subseteq DOMAIN s.header
  BY DEF Received
<1>5. DOMAIN Gs(s) = Received(s.header) /\ \A i \in DOMAIN Gs(s) : Gs(s)[i].value = s.header[i].value
  <2>1. Gs(s) = [i \in Received(s.header) |-> Item(Prefixed[s.header[i].key], s.header[i].value)]
    BY DEF Gs
  <2> QED BY <2>1, ItemFacts
<1> QED BY <1>1, <1>3, <1>4, <1>5

\* Extras keeps the later of two values of a name, at the place of the first, and no
\* sensitive one.
LEMMA ExtrasFacts ==
  ASSUME NEW r \in Records
  PROVE  /\ IsSeq(Extras(r)) /\ IsDict(Extras(r))
         /\ NamesOf(Extras(r)) = NamesOf(Xs(r))
         /\ \A n, v : Val(Extras(r), n, v) => IF n \in Sensitive THEN v = REDACTED ELSE Val(Xs(r), n, v)
         /\ \A n \in NamesOf(Extras(r)) : Prior(Extras(r), n) = First(Xs(r), n)
<1> DEFINE x == Xs(r)
           y == [i \in DOMAIN r.extras |->
                   Item(Name[r.extras[i].name],
                        IF Name[r.extras[i].name] \in Sensitive THEN REDACTED ELSE r.extras[i].value)]
<1>1. Extras(r) = Update(<<>>, y)
  BY DEF Extras
<1>2. DOMAIN y = DOMAIN r.extras /\ y = [i \in DOMAIN r.extras |-> y[i]]
  OBVIOUS
<1>3. \A i \in DOMAIN y :
        /\ y[i].name = Name[r.extras[i].name]
        /\ y[i].value = IF Name[r.extras[i].name] \in Sensitive THEN REDACTED ELSE r.extras[i].value
  BY ItemFacts
<1> HIDE DEF y
<1>4. IsSeq(y)
  BY <1>2, RecordFacts, MappedSeq
<1>5. IsSeq(x) /\ DOMAIN x = DOMAIN y /\ \A i \in DOMAIN x : x[i].name = y[i].name
                 /\ (y[i].name \in Sensitive => y[i].value = REDACTED)
                 /\ (y[i].name \notin Sensitive => y[i].value = x[i].value)
  BY <1>2, <1>3, RecordFacts
<1> HIDE DEF x
<1>6. /\ IsSeq(Extras(r)) /\ IsDict(Extras(r))
      /\ NamesOf(Extras(r)) = NamesOf(y)
      /\ \A n, v : Val(Extras(r), n, v) => IF n \in NamesOf(y) THEN Val(y, n, v) ELSE Val(<<>>, n, v)
      /\ \A n \in NamesOf(y) : Prior(Extras(r), n) = Prior(y, n)
  <2>1. IsSeq(<<>>) /\ IsDict(<<>>) /\ NamesOf(<<>>) = {}
    BY EmptyDict
  <2>2. /\ IsSeq(Update(<<>>, y)) /\ IsDict(Update(<<>>, y))
        /\ NamesOf(Update(<<>>, y)) = NamesOf(<<>>) \cup NamesOf(y)
        /\ \A n, v : Val(Update(<<>>, y), n, v) => IF n \in NamesOf(y) THEN Val(y, n, v) ELSE Val(<<>>, n, v)
        /\ \A n \in NamesOf(y) \ NamesOf(<<>>) : Prior(Update(<<>>, y), n) = NamesOf(<<>>) \cup Prior(y, n)
    BY <1>4, <2>1, UpdateFacts
  <2> HIDE DEF NamesOf, Prior
  <2> QED BY <1>1, <2>1, <2>2
<1>7. NamesOf(y) = NamesOf(x)
  BY <1>5 DEF NamesOf
<1>8. ASSUME NEW n, NEW v, Val(Extras(r), n, v)
      PROVE  IF n \in Sensitive THEN v = REDACTED ELSE Val(x, n, v)
  <2>1. n \in NamesOf(Extras(r))
    BY <1>8 DEF Val, NamesOf
  <2>2. Val(y, n, v)
    BY <1>6, <1>8, <2>1
  <2>3. PICK i \in DOMAIN y : y[i].name = n /\ y[i].value = v /\ \A j \in DOMAIN y : i < j => y[j].name # n
    BY <2>2 DEF Val
  <2>4. CASE n \in Sensitive
    BY <1>5, <2>3, <2>4
  <2>5. CASE n \notin Sensitive
    <3>1. i \in DOMAIN x /\ x[i].name = n /\ x[i].value = v /\ \A j \in DOMAIN x : i < j => x[j].name # n
      BY <1>5, <2>3, <2>5
    <3> QED BY <2>5, <3>1 DEF Val
  <2> QED BY <2>4, <2>5
<1>9. \A n : First(y, n) = First(x, n)
  <2> TAKE n
  <2>1. {k \in DOMAIN y : \A l \in DOMAIN y : l <= k => y[l].name # n}
          = {k \in DOMAIN x : \A l \in DOMAIN x : l <= k => x[l].name # n}
    BY <1>5
  <2> DEFINE Q == {k \in DOMAIN x : \A l \in DOMAIN x : l <= k => x[l].name # n}
  <2>2. \A k \in Q : y[k].name = x[k].name
    BY <1>5
  <2>3. First(y, n) = {y[k].name : k \in Q} /\ First(x, n) = {x[k].name : k \in Q}
    BY <2>1 DEF First
  <2> HIDE DEF Q
  <2> QED BY <2>2, <2>3
<1>10. \A n : Prior(y, n) = First(y, n)
  BY <1>4, FirstPrior
<1> QED BY <1>6, <1>7, <1>8, <1>9, <1>10 DEF x

\* The bound attributes that no call-site attribute has the name of, and the baggage.
LEMMA ContextFacts ==
  ASSUME NEW r \in Records, NEW s \in Snapshots
  PROVE  LET b == s.attributes
             N == NamesOf(b) \ NamesOf(Xs(r))
         IN /\ IsSeq(Context(r, s)) /\ IsDict(Context(r, s))
            /\ NamesOf(Context(r, s)) = N \cup NamesOf(Gs(s))
            /\ \A n, v : Val(Context(r, s), n, v) =>
                 IF n \in NamesOf(Gs(s)) THEN Val(Gs(s), n, v) ELSE Val(b, n, v)
            /\ \A n \in N : Prior(Context(r, s), n) = Before(b, N, n)
            /\ \A n \in NamesOf(Gs(s)) \ N : Prior(Context(r, s), n) = N \cup First(Gs(s), n)
<1> DEFINE b == s.attributes
           N == NamesOf(b) \ NamesOf(Xs(r))
           B == Assign(<<>>, b, N)
           G == Baggage(s)
           C == Context(r, s)
<1>0. B = Assign(<<>>, b, N) /\ NamesOf(b) \cap N = N
  OBVIOUS
<1>1. C = Update(B, G)
  <2>1. NamesOf(Extras(r)) = NamesOf(Xs(r))
    BY ExtrasFacts
  <2>2. C = Update(Assign(<<>>, b, NamesOf(b) \ NamesOf(Extras(r))), G)
    BY DEF Context
  <2> HIDE DEF C, G, b
  <2> QED BY <2>1, <2>2
<1>2. IsSeq(b) /\ IsDict(b) /\ IsSeq(<<>>) /\ IsDict(<<>>) /\ NamesOf(<<>>) = {}
  BY SnapshotFacts, EmptyDict
<1>3. /\ IsSeq(G) /\ IsDict(G)
      /\ NamesOf(G) = NamesOf(Gs(s))
      /\ \A n, v : Val(G, n, v) => Val(Gs(s), n, v)
      /\ \A n \in NamesOf(G) : Prior(G, n) = First(Gs(s), n)
  BY BaggageFacts
<1> HIDE DEF b, N, B, G, C
<1>4. /\ IsSeq(B) /\ IsDict(B)
      /\ NamesOf(B) = N
      /\ \A n, v : Val(B, n, v) => IF n \in N THEN Val(b, n, v) ELSE Val(<<>>, n, v)
      /\ \A n \in N : Prior(B, n) = Before(b, N, n)
  <2>1. /\ IsSeq(B) /\ IsDict(B)
        /\ NamesOf(B) = NamesOf(<<>>) \cup (NamesOf(b) \cap N)
        /\ \A n, v : Val(B, n, v) => IF n \in NamesOf(b) \cap N THEN Val(b, n, v) ELSE Val(<<>>, n, v)
        /\ \A n \in NamesOf(B) \ NamesOf(<<>>) : Prior(B, n) = NamesOf(<<>>) \cup Before(b, N, n)
    BY <1>0, <1>2, AssignFacts
  <2> QED BY <1>0, <1>2, <2>1
<1>5. /\ IsSeq(C) /\ IsDict(C)
      /\ NamesOf(C) = NamesOf(B) \cup NamesOf(G)
      /\ \A n, v : Val(C, n, v) => IF n \in NamesOf(G) THEN Val(G, n, v) ELSE Val(B, n, v)
      /\ \A n \in NamesOf(B) : Prior(C, n) = Prior(B, n)
      /\ \A n \in NamesOf(G) \ NamesOf(B) : Prior(C, n) = NamesOf(B) \cup Prior(G, n)
  BY <1>1, <1>3, <1>4, UpdateFacts
<1>6. ASSUME NEW n, NEW v, Val(C, n, v)
      PROVE  IF n \in NamesOf(Gs(s)) THEN Val(Gs(s), n, v) ELSE Val(b, n, v)
  <2>1. n \in NamesOf(C)
    BY <1>6 DEF Val, NamesOf
  <2> QED BY <1>3, <1>4, <1>5, <1>6, <2>1
<1> QED BY <1>3, <1>4, <1>5, <1>6 DEF C, N, b

\* All attributes, before any is redacted or left out.
All(r, s) == Update(Extras(r), Context(r, s))

\* Which attributes there are, in which order, and whose value each has.
LEMMA AllFacts ==
  ASSUME NEW r \in Records, NEW s \in Snapshots
  PROVE  LET X == NamesOf(Xs(r))
             B == NamesOf(s.attributes)
             G == NamesOf(Gs(s))
         IN /\ IsSeq(All(r, s)) /\ IsDict(All(r, s))
            /\ NamesOf(All(r, s)) = X \cup B \cup G
            /\ \A n \in X : Prior(All(r, s), n) = First(Xs(r), n)
            /\ \A n \in B \ X : Prior(All(r, s), n) = X \cup First(s.attributes, n)
            /\ \A n \in G \ (X \cup B) : Prior(All(r, s), n) = X \cup B \cup First(Gs(s), n)
            /\ \A n, v : Val(All(r, s), n, v) =>
                 /\ n \in G => Val(Gs(s), n, v)
                 /\ n \in X \ G => IF n \in Sensitive THEN v = REDACTED ELSE Val(Xs(r), n, v)
                 /\ n \notin G \cup X => Val(s.attributes, n, v)
<1> DEFINE b == s.attributes
           X == NamesOf(Xs(r))
           B == NamesOf(b)
           G == NamesOf(Gs(s))
           E == Extras(r)
           C == Context(r, s)
           A == All(r, s)
<1>1. A = Update(E, C) /\ B = NamesOf(b)
  BY DEF All
<1>2. /\ IsSeq(E) /\ IsDict(E) /\ NamesOf(E) = X
      /\ \A n, v : Val(E, n, v) => IF n \in Sensitive THEN v = REDACTED ELSE Val(Xs(r), n, v)
      /\ \A n \in X : Prior(E, n) = First(Xs(r), n)
  BY ExtrasFacts
<1>3. /\ IsSeq(C) /\ IsDict(C) /\ NamesOf(C) = (B \ X) \cup G
      /\ \A n, v : Val(C, n, v) => IF n \in G THEN Val(Gs(s), n, v) ELSE Val(b, n, v)
      /\ \A n \in B \ X : Prior(C, n) = Before(b, B \ X, n)
      /\ \A n \in G \ (B \ X) : Prior(C, n) = (B \ X) \cup First(Gs(s), n)
  BY ContextFacts
<1>4. IsSeq(b)
  BY SnapshotFacts
<1> HIDE DEF b, X, B, G, E, C, A
<1>5. /\ IsSeq(A) /\ IsDict(A)
      /\ NamesOf(A) = NamesOf(E) \cup NamesOf(C)
      /\ \A n, v : Val(A, n, v) => IF n \in NamesOf(C) THEN Val(C, n, v) ELSE Val(E, n, v)
      /\ \A n \in NamesOf(E) : Prior(A, n) = Prior(E, n)
      /\ \A n \in NamesOf(C) \ NamesOf(E) : Prior(A, n) = NamesOf(E) \cup Prior(C, n)
  BY <1>1, <1>2, <1>3, UpdateFacts
<1>6. NamesOf(A) = X \cup B \cup G
  BY <1>2, <1>3, <1>5
<1>7. ASSUME NEW n \in X PROVE Prior(A, n) = First(Xs(r), n)
  BY <1>2, <1>5
<1>8. ASSUME NEW n \in B \ X PROVE Prior(A, n) = X \cup First(b, n)
  <2>1. Prior(A, n) = X \cup Before(b, B \ X, n)
    BY <1>2, <1>3, <1>5
  <2>2. X \cup Before(b, B \ X, n) = X \cup Prior(b, n)
    <3>1. \A k \in DOMAIN b : b[k].name \in B
      BY <1>1 DEF NamesOf
    <3>2. Before(b, B \ X, n) \subseteq Prior(b, n)
      BY <1>1 DEF Before, Prior
    <3>3. Prior(b, n) \subseteq X \cup Before(b, B \ X, n)
      BY <1>1, <3>1 DEF Before, Prior
    <3> QED BY <3>2, <3>3
  <2>3. Prior(b, n) = First(b, n)
    BY <1>4, FirstPrior
  <2> QED BY <2>1, <2>2, <2>3
<1>9. ASSUME NEW n \in G \ (X \cup B) PROVE Prior(A, n) = X \cup B \cup First(Gs(s), n)
  <2>1. Prior(A, n) = X \cup ((B \ X) \cup First(Gs(s), n))
    BY <1>2, <1>3, <1>5
  <2> QED BY <2>1
<1>10. ASSUME NEW n, NEW v, Val(A, n, v)
       PROVE  /\ n \in G => Val(Gs(s), n, v)
              /\ n \in X \ G => IF n \in Sensitive THEN v = REDACTED ELSE Val(Xs(r), n, v)
              /\ n \notin G \cup X => Val(b, n, v)
  <2>1. n \in NamesOf(A)
    BY <1>10 DEF Val, NamesOf
  <2>2. n \in G => Val(Gs(s), n, v)
    BY <1>3, <1>5, <1>10
  <2>3. n \in X \ G => IF n \in Sensitive THEN v = REDACTED ELSE Val(Xs(r), n, v)
    BY <1>2, <1>3, <1>5, <1>10
  <2>4. n \notin G \cup X => Val(b, n, v)
    BY <1>3, <1>5, <1>6, <1>10, <2>1
  <2> QED BY <2>2, <2>3, <2>4
<1> QED BY <1>5, <1>6, <1>7, <1>8, <1>9, <1>10 DEF A, X, B, G, b

-----------------------------------------------------------------------------
(* What each step makes of a value.                                        *)

Fixed == Short \cup {"redacted"}
IsTree(v) ==
  /\ v = [p \in DOMAIN v |-> v[p]] /\ <<>> \in DOMAIN v
  /\ v[<<>>] \in Fixed => DOMAIN v = {<<>>}

\* A short text and REDACTED stay what they are and nothing else becomes one; what is
\* hidden stays hidden.
Keeps(v, w) == v[<<>>] \in Fixed \/ w[<<>>] \in Fixed => w = v
Carries(v, w) == IsTree(w) /\ Keeps(v, w) /\ (Hides(v) => Hides(w))
Cuts == {"cut", "cut bytes", "cut base64"}
NoCut(v) == \A p \in DOMAIN v : v[p] \notin Cuts
Plain(v) == NoCut(v) /\ v[<<>>] # "base64"
Final(v) == v[<<>>] \notin {"object", "enum", "long", "bytes", "base64"}

\* The kinds are apart.
LEMMA Kinds ==
  /\ \A k \in Fixed : k \notin {"object", "enum", "nan", "NaN", "long", "bytes", "base64", "deep", "map"}
  /\ \A k \in Scalar : k \notin {"object", "enum", "NaN", "bytes", "base64", "deep", "map", "redacted"}
  /\ \A k \in Fixed \cup Scalar \cup {"object", "enum", "bytes", "base64", "map"} : k \notin Cuts
  /\ Short \subseteq Scalar /\ "redacted" \notin Short
  /\ Fixed = Short \cup {"redacted"} /\ Len(<<>>) = 0
BY DEF Fixed, Short, Scalar, Cuts

\* A value with a fixed root is that leaf.
LEMMA TreeIsLeaf ==
  ASSUME NEW v, IsTree(v), v[<<>>] \in Fixed
  PROVE  v = Leaf(v[<<>>])
<1>1. DOMAIN v = {<<>>} /\ v = [p \in DOMAIN v |-> v[p]]
  BY DEF IsTree
<1>2. v = [p \in {<<>>} |-> v[p]]
  BY <1>1
<1>3. [p \in {<<>>} |-> v[p]] = [p \in {<<>>} |-> v[<<>>]]
  OBVIOUS
<1> QED BY <1>2, <1>3 DEF Leaf

LEMMA LeafFacts ==
  ASSUME NEW k
  PROVE  IsTree(Leaf(k)) /\ Leaf(k)[<<>>] = k /\ Hides(Leaf(k)) /\ (k \notin Cuts => NoCut(Leaf(k)))
<1>1. DOMAIN Leaf(k) = {<<>>} /\ Leaf(k)[<<>>] = k /\ Leaf(k) = [p \in {<<>>} |-> Leaf(k)[p]]
  BY DEF Leaf
<1>2. IsTree(Leaf(k))
  BY <1>1 DEF IsTree
<1>3. Hides(Leaf(k))
  BY <1>1, Kinds DEF Hides
<1>4. k \notin Cuts => NoCut(Leaf(k))
  BY <1>1 DEF NoCut
<1> QED BY <1>1, <1>2, <1>3, <1>4

\* A value that was logged, bound or received has not been treated yet; a scalar has
\* nothing to hide.
LEMMA ValueFacts ==
  ASSUME NEW v, IsValue(v)
  PROVE  /\ IsTree(v) /\ Plain(v) /\ v[<<>>] # "redacted"
         /\ v[<<>>] \in Scalar => Hides(v) /\ v[<<>>] \notin {"object", "enum"}
<1>1. v = [p \in DOMAIN v |-> v[p]] /\ <<>> \in DOMAIN v
      /\ (\A p \in DOMAIN v : v[p] \in Scalar \cup {"object", "enum", "bytes", "map"})
      /\ (v[<<>>] # "map" => DOMAIN v = {<<>>})
  BY DEF IsValue
<1>2. v[<<>>] \in Fixed => DOMAIN v = {<<>>}
  BY <1>1, Kinds
<1>3. IsTree(v)
  BY <1>1, <1>2 DEF IsTree
<1>4. Plain(v)
  BY <1>1, Kinds DEF NoCut, Plain
<1>5. v[<<>>] # "redacted"
  BY <1>1, Kinds
<1>6. ASSUME v[<<>>] \in Scalar PROVE Hides(v) /\ v[<<>>] \notin {"object", "enum"}
  <2>1. DOMAIN v = {<<>>}
    BY <1>1, <1>6, Kinds
  <2>2. Hides(v)
    BY <2>1, Kinds DEF Hides
  <2> QED BY <1>6, <2>2, Kinds
<1> QED BY <1>3, <1>4, <1>5, <1>6

LEMMA CarriesOn ==
  ASSUME NEW v, NEW w, NEW x, Carries(v, w), Carries(w, x)
  PROVE  Carries(v, x)
BY DEF Carries, Keeps

\* It is enough that the root is treated right.
LEMMA RootDecides ==
  ASSUME NEW v, IsTree(v), NEW w, w = [p \in DOMAIN w |-> w[p]], <<>> \in DOMAIN w,
         DOMAIN w \subseteq DOMAIN v,
         v[<<>>] \in Fixed \/ w[<<>>] \in Fixed => w[<<>>] = v[<<>>]
  PROVE  IsTree(w) /\ Keeps(v, w)
<1>1. IsTree(w)
  BY DEF IsTree
<1>2. ASSUME v[<<>>] \in Fixed \/ w[<<>>] \in Fixed PROVE w = v
  <2>1. v = Leaf(v[<<>>]) /\ w = Leaf(w[<<>>])
    BY <1>1, <1>2, TreeIsLeaf
  <2> QED BY <1>2, <2>1
<1> QED BY <1>1, <1>2 DEF Keeps

\* Redact hides what is to be hidden and leaves the root as it is.
LEMMA RedactFacts ==
  ASSUME NEW v, IsTree(v)
  PROVE  /\ Carries(v, Redact(v)) /\ Hides(Redact(v)) /\ (Plain(v) => Plain(Redact(v)))
         /\ Redact(v)[<<>>] = v[<<>>]
<1> DEFINE w == Redact(v)
           D == {q \in DOMAIN v : Hidden(q) \subseteq {Len(q)}}
<1>1. w = [p \in D |-> IF Hidden(p) = {} THEN v[p] ELSE "redacted"]
  BY DEF Redact
<1>2. Hidden(<<>>) = {}
  BY Kinds DEF Hidden
<1>3. <<>> \in D
  BY <1>2 DEF IsTree
<1> HIDE DEF w
<1>4. DOMAIN w = D /\ w = [p \in DOMAIN w |-> w[p]] /\ w[<<>>] = v[<<>>]
      /\ \A p \in D : w[p] = IF Hidden(p) = {} THEN v[p] ELSE "redacted"
  BY <1>1, <1>2, <1>3
<1>5. IsTree(w) /\ Keeps(v, w)
  BY <1>3, <1>4, RootDecides
<1>6. Hides(w)
  <2> SUFFICES ASSUME NEW p \in DOMAIN w, NEW i \in 1 .. Len(p), i <= MaxDepth, p[i] \in Sensitive
               PROVE  i = Len(p) /\ w[p] = "redacted"
    BY DEF Hides
  <2>1. i \in Hidden(p)
    BY DEF Hidden
  <2> QED BY <1>4, <2>1
<1>7. Plain(v) => Plain(w)
  BY <1>4, Kinds DEF NoCut, Plain
<1> QED BY <1>4, <1>5, <1>6, <1>7 DEF Carries, w

\* Coerce changes objects and enums only, and into neither.
LEMMA CoerceFacts ==
  /\ \A k : Coerce(k) \in Fixed \/ k \in Fixed => Coerce(k) = k
  /\ \A k : Coerce(k) \in Cuts \/ Coerce(k) = "base64" => Coerce(k) = k
  /\ \A k : Coerce(k) \notin {"object", "enum"}
  /\ \A k : k \notin {"object", "enum"} => Coerce(k) = k
  /\ Coerce("redacted") = "redacted" /\ Coerce("deep") = "deep"
<1>1. \A k : Coerce(k) = IF k = "object" THEN "long" ELSE IF k = "enum" THEN "nan" ELSE k
  BY DEF Coerce
<1>2. \A k : k \in Fixed => k \notin {"object", "enum", "nan", "long"}
  BY Kinds
<1> QED BY <1>1, <1>2 DEF Cuts

\* What the encoder writes is JSON; only of cut bytes does it make a cut text.
LEMMA TextFacts ==
  /\ \A k : Text(k) \in Fixed \/ k \in Fixed => Text(k) = k
  /\ \A k : Text(k) \in Cuts => k \in Cuts
  /\ \A k : Text(k) \notin {"object", "enum", "bytes", "cut bytes"}
  /\ \A k : Text(k) = "nan" => k \in {"enum", "nan"}
  /\ \A k : k \notin {"object", "enum", "long", "bytes", "base64"} =>
              Text(k) \notin {"object", "enum", "long", "bytes", "base64"}
  /\ Text("redacted") = "redacted" /\ Text("deep") = "deep"
<1>1. \A k : Text(k) = IF k = "bytes" THEN "base64" ELSE IF k = "cut bytes" THEN "cut base64"
                       ELSE Coerce(k)
  BY DEF Text
<1>2. \A k : Coerce(k) = IF k = "object" THEN "long" ELSE IF k = "enum" THEN "nan" ELSE k
  BY DEF Coerce
<1>3. \A k \in Fixed : k \notin {"object", "enum", "nan", "long", "bytes", "base64"} \cup Cuts
  BY Kinds
<1> QED BY <1>1, <1>2, <1>3 DEF Cuts

\* Coercing the root of a value.
LEMMA RootCoerced ==
  ASSUME NEW v, IsTree(v)
  PROVE  LET w == [v EXCEPT ![<<>>] = Coerce(@)] IN
         Carries(v, w) /\ (Plain(v) => Plain(w)) /\ w[<<>>] \notin {"object", "enum"}
<1> DEFINE w == [v EXCEPT ![<<>>] = Coerce(@)]
<1>1. DOMAIN w = DOMAIN v /\ <<>> \in DOMAIN v /\ w[<<>>] = Coerce(v[<<>>])
      /\ w = [p \in DOMAIN w |-> w[p]] /\ \A p \in DOMAIN v : p # <<>> => w[p] = v[p]
  BY DEF IsTree
<1> HIDE DEF w
<1>2. IsTree(w) /\ Keeps(v, w)
  BY <1>1, CoerceFacts, RootDecides
<1>3. Hides(v) => Hides(w)
  BY <1>1, Kinds DEF Hides
<1>4. Plain(v) => Plain(w)
  BY <1>1, CoerceFacts DEF NoCut, Plain
<1> QED BY <1>1, <1>2, <1>3, <1>4, CoerceFacts DEF Carries, w

\* Truncate leaves neither a long text nor long bytes at the root.
LEMMA TruncateFacts ==
  ASSUME NEW v, IsTree(v)
  PROVE  Carries(v, Truncate(v)) /\ (v[<<>>] \notin {"object", "enum", "base64"} => Final(Truncate(v)))
<1> DEFINE w == Truncate(v)
<1>1. w = [p \in DOMAIN v |-> IF Len(p) <= MaxDepth THEN Shortened(v[p]) ELSE v[p]]
  BY DEF Truncate
<1>0. \A k : Shortened(k) = IF k = "long" THEN "cut" ELSE IF k = "bytes" THEN "cut bytes" ELSE k
  BY DEF Shortened
<1> HIDE DEF w
<1>2. DOMAIN w = DOMAIN v /\ w = [p \in DOMAIN w |-> w[p]] /\ <<>> \in DOMAIN v
      /\ \A p \in DOMAIN v : w[p] = IF Len(p) <= MaxDepth THEN Shortened(v[p]) ELSE v[p]
  BY <1>1 DEF IsTree
<1>3. w[<<>>] = Shortened(v[<<>>])
  <2>1. Len(<<>>) <= MaxDepth
    BY Kinds, FormatAssumption
  <2> QED BY <1>2, <2>1
<1>4. IsTree(w) /\ Keeps(v, w)
  <2>1. v[<<>>] \in Fixed \/ w[<<>>] \in Fixed => w[<<>>] = v[<<>>]
    BY <1>0, <1>3, Kinds DEF Cuts
  <2> QED BY <1>2, <2>1, RootDecides
<1>5. Hides(v) => Hides(w)
  BY <1>0, <1>2 DEF Hides
<1>6. v[<<>>] \notin {"object", "enum", "base64"} => Final(w)
  BY <1>0, <1>3 DEF Final
<1> QED BY <1>4, <1>5, <1>6 DEF Carries, w

\* Sanitize hides no less, and with coercion its result can be encoded.
LEMMA SanitizeFacts ==
  ASSUME NEW v, IsTree(v), NEW coerce \in BOOLEAN
  PROVE  /\ Carries(v, Sanitize(v, coerce)) /\ (NoCut(v) => NoCut(Sanitize(v, coerce)))
         /\ Final(v) => Final(Sanitize(v, coerce))
         /\ coerce => Encodes(Sanitize(v, coerce))
<1> DEFINE w == Sanitize(v, coerce)
           D == {q \in DOMAIN v : Len(q) <= MaxDepth}
           C(k) == IF coerce THEN Coerce(k) ELSE k
           S(k) == IF C(k) = "nan" THEN "NaN" ELSE C(k)
<1>1. w = [p \in D |-> IF Len(p) = MaxDepth THEN "deep" ELSE S(v[p])]
  BY DEF Sanitize
<1> HIDE DEF w
<1>2. Len(<<>>) <= MaxDepth /\ Len(<<>>) # MaxDepth
  BY Kinds, FormatAssumption
<1>3. <<>> \in D
  BY <1>2 DEF IsTree
<1>4. DOMAIN w = D /\ w = [p \in DOMAIN w |-> w[p]] /\ w[<<>>] = S(v[<<>>])
      /\ \A p \in D : w[p] = IF Len(p) = MaxDepth THEN "deep" ELSE S(v[p])
  BY <1>1, <1>2, <1>3
<1>5. /\ \A k : k \in Fixed \/ S(k) \in Fixed => S(k) = k
      /\ S("redacted") = "redacted" /\ S("deep") = "deep"
      /\ \A k : S(k) \in Cuts => S(k) = k
      /\ "deep" \notin Cuts
      /\ \A k : k \notin {"object", "enum", "long", "bytes", "base64"} =>
                  S(k) \notin {"object", "enum", "long", "bytes", "base64"}
      /\ coerce => \A k : S(k) # "nan" /\ S(k) \notin {"object", "enum"}
  BY CoerceFacts, Kinds DEF Cuts
<1> HIDE DEF S
<1>6. IsTree(w) /\ Keeps(v, w)
  BY <1>3, <1>4, <1>5, RootDecides
<1>7. Hides(v) => Hides(w)
  <2> SUFFICES ASSUME Hides(v), NEW p \in DOMAIN w, NEW i \in 1 .. Len(p), i <= MaxDepth, p[i] \in Sensitive
               PROVE  i = Len(p) /\ w[p] \in {"redacted", "deep"}
    BY DEF Hides
  <2>1. i = Len(p) /\ v[p] \in {"redacted", "deep"}
    BY <1>4 DEF Hides
  <2> QED BY <1>4, <1>5, <2>1
<1>8. NoCut(v) => NoCut(w)
  BY <1>4, <1>5 DEF NoCut
<1>9. Final(v) => Final(w)
  BY <1>4, <1>5 DEF Final
<1>10. coerce => Encodes(w)
  <2> SUFFICES ASSUME coerce, NEW p \in DOMAIN w PROVE Text(w[p]) # "nan"
    BY DEF Encodes
  <2>1. w[p] \notin {"object", "enum"} /\ w[p] # "nan"
    BY <1>4, <1>5
  <2> QED BY <2>1, TextFacts
<1> QED BY <1>6, <1>7, <1>8, <1>9, <1>10 DEF Carries, w

\* What can be encoded has a JSON form in every part.
LEMMA EncodedFacts ==
  ASSUME NEW v, IsTree(v)
  PROVE  /\ Carries(v, Encoded(v)) /\ (NoCut(v) => NoCut(Encoded(v)))
         /\ Final(v) => Final(Encoded(v))
         /\ Encodes(v) => KindsOf(Encoded(v)) \cap NoJSON = {}
<1> DEFINE w == Encoded(v)
<1>1. w = [p \in DOMAIN v |-> Text(v[p])]
  BY DEF Encoded
<1> HIDE DEF w
<1>2. DOMAIN w = DOMAIN v /\ w = [p \in DOMAIN w |-> w[p]] /\ <<>> \in DOMAIN v
      /\ \A p \in DOMAIN v : w[p] = Text(v[p])
  BY <1>1 DEF IsTree
<1>3. IsTree(w) /\ Keeps(v, w)
  <2>1. v[<<>>] \in Fixed \/ w[<<>>] \in Fixed => w[<<>>] = v[<<>>]
    BY <1>2, TextFacts
  <2> QED BY <1>2, <2>1, RootDecides
<1>4. Hides(v) => Hides(w)
  <2>1. \A p \in DOMAIN v : v[p] \in {"redacted", "deep"} => w[p] = v[p]
    BY <1>2, TextFacts
  <2> QED BY <1>2, <2>1 DEF Hides
<1>5. NoCut(v) => NoCut(w)
  <2>1. ASSUME NEW p \in DOMAIN v, w[p] \in Cuts PROVE v[p] \in Cuts
    <3>1. Text(v[p]) \in Cuts
      BY <1>2, <2>1
    <3> QED BY <3>1, TextFacts, Zenon
  <2> QED BY <1>2, <2>1 DEF NoCut
<1>6. Final(v) => Final(w)
  BY <1>2, TextFacts DEF Final
<1>7. Encodes(v) => KindsOf(w) \cap NoJSON = {}
  <2> SUFFICES ASSUME Encodes(v), NEW p \in DOMAIN w PROVE w[p] \notin NoJSON
    BY DEF KindsOf
  <2>1. w[p] = Text(v[p]) /\ w[p] # "nan"
    BY <1>2 DEF Encodes
  <2> QED BY <2>1, TextFacts DEF NoJSON
<1> QED BY <1>3, <1>4, <1>5, <1>6, <1>7 DEF Carries, w

-----------------------------------------------------------------------------
(* The attributes that are kept.                                           *)

\* A value that the slow path does not look at was hidden before or is a scalar.
LEMMA AllValues ==
  ASSUME NEW r \in Records, NEW s \in Snapshots, NEW i \in DOMAIN All(r, s)
  PROVE  LET n == All(r, s)[i].name
             v == All(r, s)[i].value
         IN /\ IsTree(v) /\ Plain(v)
            /\ n \notin Slow(r, s) =>
                 /\ Hides(v) /\ v[<<>>] \notin {"object", "enum"}
                 /\ n \in Sensitive => v = REDACTED
<1> DEFINE A == All(r, s)
           n == A[i].name
           v == A[i].value
           X == NamesOf(Xs(r))
           B == NamesOf(s.attributes)
           G == NamesOf(Gs(s))
<1>1. IsSeq(A) /\ IsDict(A) /\ NamesOf(A) = X \cup B \cup G
      /\ \A k, w : Val(A, k, w) =>
                 /\ k \in G => Val(Gs(s), k, w)
                 /\ k \in X \ G => IF k \in Sensitive THEN w = REDACTED ELSE Val(Xs(r), k, w)
                 /\ k \notin G \cup X => Val(s.attributes, k, w)
  BY AllFacts
<1>2. i \in DOMAIN A /\ n = A[i].name /\ v = A[i].value
  OBVIOUS
<1> HIDE DEF A, n, v
<1>3. Val(A, n, v) /\ n \in NamesOf(A)
  BY <1>1, <1>2, DictFacts
<1>4. v = REDACTED \/ IsValue(v)
  <2> HIDE DEF G, X, B
  <2>1. CASE n \in G
    <3>1. PICK k \in DOMAIN Gs(s) : Gs(s)[k].value = v
      BY <1>1, <1>3, <2>1 DEF Val
    <3> QED BY <3>1, SnapshotFacts
  <2>2. CASE n \in X \ G
    <3>1. v = REDACTED \/ Val(Xs(r), n, v)
      BY <1>1, <1>3, <2>2
    <3>2. ASSUME Val(Xs(r), n, v) PROVE IsValue(v)
      <4>1. PICK k \in DOMAIN Xs(r) : Xs(r)[k].value = v
        BY <3>2 DEF Val
      <4> QED BY <4>1, RecordFacts
    <3> QED BY <3>1, <3>2
  <2>3. CASE n \notin G \cup X
    <3>1. PICK k \in DOMAIN s.attributes : s.attributes[k].value = v
      BY <1>1, <1>3, <2>3 DEF Val
    <3> QED BY <3>1, SnapshotFacts
  <2> QED BY <2>1, <2>2, <2>3
<1>5. IsTree(v) /\ Plain(v)
  BY <1>4, LeafFacts, ValueFacts, Kinds DEF REDACTED, Plain, Fixed
<1>6. ASSUME n \notin Slow(r, s)
      PROVE  /\ Hides(v) /\ v[<<>>] \notin {"object", "enum"}
             /\ n \in Sensitive => v = REDACTED
  <2>1. NamesOf(Context(r, s)) = (B \ X) \cup G
    BY ContextFacts
  <2>2. n \in X \ G
    BY <1>1, <1>3, <1>6, <2>1 DEF Slow
  <2>3. CASE n \in Sensitive
    <3>1. v = REDACTED
      BY <1>1, <1>3, <2>2, <2>3
    <3> QED BY <3>1, LeafFacts DEF REDACTED
  <2>4. CASE n \notin Sensitive
    <3>1. PICK k \in DOMAIN Xs(r) : Xs(r)[k].name = n /\ Xs(r)[k].value = v
      BY <1>1, <1>3, <2>2, <2>4 DEF Val
    <3>2. r.extras[k] \in ToSet(r.extras) /\ Name[r.extras[k].name] = n /\ r.extras[k].value = v /\ IsValue(v)
      BY <3>1, RecordFacts
    <3>3. v[<<>>] \in Scalar
      BY <1>6, <2>4, <3>2 DEF Slow, SlowExtras
    <3> QED BY <2>4, <3>2, <3>3, ValueFacts
  <2> QED BY <2>3, <2>4
<1> QED BY <1>5, <1>6 DEF A, n, v

\* A slice is a beginning of the sequence; for a limit that is not negative, its first n.
LEMMA SliceFacts ==
  ASSUME NEW d, IsSeq(d), NEW n \in Int, n < Len(d)
  PROVE  /\ IsSeq(Slice(d, n)) /\ DOMAIN Slice(d, n) \subseteq DOMAIN d
         /\ \A i \in DOMAIN Slice(d, n) : Slice(d, n)[i] = d[i]
         /\ n >= 0 => DOMAIN Slice(d, n) = 1 .. n
<1> DEFINE k == IF n < 0 THEN Len(d) + n ELSE IF n > Len(d) THEN Len(d) ELSE n
           q == SubSeq(d, 1, k)
<1>1. d \in Seq(ToSet(d)) /\ DOMAIN d = 1 .. Len(d) /\ Len(d) \in Nat
  BY DEF IsSeq
<1>2. k \in Int /\ k <= Len(d) /\ (n >= 0 => k = n)
  <2> DEFINE l == Len(d)
  <2>1. l \in Nat /\ n < l /\ k = IF n < 0 THEN l + n ELSE IF n > l THEN l ELSE n
    BY <1>1
  <2> HIDE DEF l, k, q
  <2>2. k \in Int /\ k <= l /\ (n >= 0 => k = n)
    BY <2>1
  <2> QED BY <2>2 DEF l
<1>3. Slice(d, n) = q
  BY DEF Slice
<1> HIDE DEF k
<1>4. q = [i \in 1 .. k |-> d[i]]
  BY <1>1, <1>2
<1>5. DOMAIN q = 1 .. k /\ \A i \in 1 .. k : q[i] = d[i]
  BY <1>4
<1>6. IsSeq(q)
  <2> DEFINE l == IF k < 0 THEN 0 ELSE k
  <2>1. l \in Nat /\ 1 .. l = 1 .. k
    BY <1>2
  <2> HIDE DEF l, q
  <2>2. q = [i \in 1 .. l |-> q[i]] /\ \A i \in 1 .. l : q[i] \in ToSet(q)
    BY <1>4, <1>5, <2>1 DEF ToSet
  <2> QED BY <2>1, <2>2 DEF IsSeq
<1> HIDE DEF q
<1> QED BY <1>1, <1>2, <1>3, <1>5, <1>6

\* The attributes are those of All, redacted.
LEMMA AttributesFacts ==
  ASSUME NEW r \in Records, NEW s \in Snapshots
  PROVE  /\ IsSeq(Attributes(r, s)) /\ IsDict(Attributes(r, s))
         /\ DOMAIN Attributes(r, s) = DOMAIN All(r, s)
         /\ \A i \in DOMAIN All(r, s) :
              LET n == All(r, s)[i].name
                  v == All(r, s)[i].value
                  w == Attributes(r, s)[i].value
              IN /\ Attributes(r, s)[i].name = n /\ IsTree(w) /\ Plain(w)
                 /\ n \in Sensitive => w = REDACTED
                 /\ n \notin Sensitive => Hides(w) /\ Keeps(v, w)
                 /\ n \notin Slow(r, s) => w[<<>>] \notin {"object", "enum"}
<1> DEFINE A == All(r, s)
           slow == Slow(r, s)
           T == Attributes(r, s)
<1>1. T = [i \in DOMAIN A |->
             IF A[i].name \notin slow THEN A[i]
             ELSE Item(A[i].name, IF A[i].name \in Sensitive THEN REDACTED ELSE Redact(A[i].value))]
  BY DEF Attributes, Redacted, All
<1>2. IsSeq(A) /\ IsDict(A) /\ slow = Slow(r, s) /\ A = All(r, s)
  BY AllFacts
<1> HIDE DEF A, slow, T
<1>3. DOMAIN T = DOMAIN A /\ T = [i \in DOMAIN A |-> T[i]]
  BY <1>1
<1>4. IsSeq(T)
  BY <1>2, <1>3, MappedSeq DEF IsSeq
<1>5. ASSUME NEW i \in DOMAIN A
      PROVE  LET n == A[i].name
                 v == A[i].value
                 w == T[i].value
             IN /\ T[i].name = n /\ IsTree(w) /\ Plain(w)
                /\ n \in Sensitive => w = REDACTED
                /\ n \notin Sensitive => Hides(w) /\ Keeps(v, w)
                /\ n \notin slow => w[<<>>] \notin {"object", "enum"}
  <2> DEFINE n == A[i].name
             v == A[i].value
             w == T[i].value
  <2>1. IsTree(v) /\ Plain(v) /\ (n \notin slow => Hides(v) /\ v[<<>>] \notin {"object", "enum"}
                                                     /\ (n \in Sensitive => v = REDACTED))
    BY <1>2, AllValues
  <2>2. T[i] = IF n \notin slow THEN A[i] ELSE Item(n, IF n \in Sensitive THEN REDACTED ELSE Redact(v))
    BY <1>1
  <2> HIDE DEF n, v
  <2>3. CASE n \notin slow
    <3>1. T[i].name = n /\ w = v
      BY <2>2, <2>3 DEF n, v
    <3> HIDE DEF w
    <3> QED BY <2>1, <2>3, <3>1 DEF Keeps, n, v, w
  <2>4. CASE n \in slow /\ n \in Sensitive
    <3>1. T[i].name = n /\ w = REDACTED
      BY <2>2, <2>4, ItemFacts
    <3> HIDE DEF w
    <3>2. IsTree(w) /\ Plain(w)
      BY <3>1, LeafFacts, Kinds DEF REDACTED, Plain, Fixed
    <3> QED BY <2>4, <3>1, <3>2 DEF n, w
  <2>5. CASE n \in slow /\ n \notin Sensitive
    <3>1. T[i].name = n /\ w = Redact(v)
      BY <2>2, <2>5, ItemFacts
    <3> HIDE DEF w
    <3>2. IsTree(w) /\ Plain(w) /\ Hides(w) /\ Keeps(v, w)
      BY <2>1, <3>1, RedactFacts DEF Carries
    <3> QED BY <2>5, <3>1, <3>2 DEF n, v, w
  <2> QED BY <2>3, <2>4, <2>5
<1>6. IsDict(T)
  <2>1. \A i \in DOMAIN A : T[i].name = A[i].name
    BY <1>5
  <2> QED BY <1>2, <1>3, <2>1 DEF IsDict
<1> QED BY <1>3, <1>4, <1>5, <1>6 DEF A, slow, T

\* What is known of a kept attribute.
KeptValue(v, n, w) ==
  /\ IsTree(w) /\ Plain(w) /\ w[<<>>] \notin {"object", "enum"}
  /\ n \in Sensitive => w = REDACTED
  /\ n \notin Sensitive => Hides(w) /\ Keeps(v, w)

\* Kept has the first attributes up to the limit, redacted and coerced.
LEMMA KeptFacts ==
  ASSUME NEW r \in Records, NEW s \in Snapshots, limit \in Int
  PROVE  /\ IsSeq(Kept(r, s)) /\ IsDict(Kept(r, s))
         /\ DOMAIN Kept(r, s) \subseteq DOMAIN All(r, s)
         /\ \A i \in DOMAIN Kept(r, s) :
              /\ Kept(r, s)[i].name = All(r, s)[i].name
              /\ KeptValue(All(r, s)[i].value, All(r, s)[i].name, Kept(r, s)[i].value)
         /\ limit >= 0 => DOMAIN Kept(r, s) = {i \in DOMAIN All(r, s) : i <= limit}
         /\ Dropped(Attributes(r, s)) = IF Len(All(r, s)) > limit THEN Len(All(r, s)) - limit ELSE 0
<1> DEFINE A == All(r, s)
           T == Attributes(r, s)
           slow == Slow(r, s)
           K == Kept(r, s)
           S == IF Dropped(T) > 0 THEN Slice(T, limit) ELSE T
<1>1. K = [i \in DOMAIN S |-> IF S[i].name \in slow
                                THEN Item(S[i].name, [S[i].value EXCEPT ![<<>>] = Coerce(@)])
                                ELSE S[i]]
  BY DEF Kept, Coerced
<1>2. IsSeq(A) /\ IsDict(A) /\ slow = Slow(r, s)
  BY AllFacts
<1>3. /\ IsSeq(T) /\ IsDict(T) /\ DOMAIN T = DOMAIN A
      /\ \A i \in DOMAIN A :
           LET n == A[i].name
               v == A[i].value
               w == T[i].value
           IN /\ T[i].name = n /\ IsTree(w) /\ Plain(w)
              /\ n \in Sensitive => w = REDACTED
              /\ n \notin Sensitive => Hides(w) /\ Keeps(v, w)
              /\ n \notin slow => w[<<>>] \notin {"object", "enum"}
  BY AttributesFacts
<1>4. S = IF Dropped(T) > 0 THEN Slice(T, limit) ELSE T
  OBVIOUS
<1> HIDE DEF A, T, slow, K, S
<1>5. DOMAIN T = 1 .. Len(T) /\ Len(T) \in Nat /\ DOMAIN A = 1 .. Len(A) /\ Len(A) \in Nat /\ Len(T) = Len(A)
  BY <1>2, <1>3 DEF IsSeq
<1>6. Dropped(T) = IF Len(A) > limit THEN Len(A) - limit ELSE 0
  BY <1>5 DEF Dropped
<1>7. /\ IsSeq(S) /\ DOMAIN S \subseteq DOMAIN T /\ \A i \in DOMAIN S : S[i] = T[i]
      /\ limit >= 0 => DOMAIN S = {i \in DOMAIN A : i <= limit}
  <2>1. CASE limit < Len(T)
    <3>1. Dropped(T) > 0
      BY <1>5, <1>6, <2>1
    <3>2. S = Slice(T, limit)
      BY <1>4, <3>1
    <3>3. /\ IsSeq(S) /\ DOMAIN S \subseteq DOMAIN T /\ \A i \in DOMAIN S : S[i] = T[i]
          /\ limit >= 0 => DOMAIN S = 1 .. limit
      BY <1>3, <2>1, <3>2, SliceFacts
    <3>4. limit >= 0 => 1 .. limit = {i \in DOMAIN A : i <= limit}
      BY <1>5, <2>1
    <3> QED BY <3>3, <3>4
  <2>2. CASE ~ (limit < Len(T))
    <3>1. ~ (Dropped(T) > 0)
      BY <1>5, <1>6, <2>2
    <3>2. S = T
      BY <1>4, <3>1
    <3>3. \A i \in DOMAIN A : i <= limit
      BY <1>5, <2>2
    <3>4. DOMAIN S = {i \in DOMAIN A : i <= limit}
      BY <1>3, <3>2, <3>3
    <3> QED BY <1>3, <3>2, <3>4
  <2> QED BY <2>1, <2>2
<1>8. DOMAIN K = DOMAIN S /\ K = [i \in DOMAIN S |-> K[i]]
  BY <1>1
<1>9. IsSeq(K)
  BY <1>7, <1>8, MappedSeq DEF IsSeq
<1>10. ASSUME NEW i \in DOMAIN K
       PROVE  K[i].name = A[i].name /\ KeptValue(A[i].value, A[i].name, K[i].value)
  <2> DEFINE n == A[i].name
             v == A[i].value
             t == T[i].value
             w == K[i].value
             c == [t EXCEPT ![<<>>] = Coerce(@)]
  <2>1. i \in DOMAIN A /\ T[i].name = n /\ S[i] = T[i] /\ i \in DOMAIN S
    BY <1>3, <1>7, <1>8
  <2>2. /\ IsTree(t) /\ Plain(t) /\ (n \in Sensitive => t = REDACTED)
        /\ (n \notin Sensitive => Hides(t) /\ Keeps(v, t))
        /\ (n \notin slow => t[<<>>] \notin {"object", "enum"})
    BY <1>3, <2>1
  <2>3. K[i] = IF n \in slow THEN Item(n, c) ELSE T[i]
    BY <1>1, <2>1
  <2>4. Carries(t, c) /\ Plain(c) /\ c[<<>>] \notin {"object", "enum"}
    BY <2>2, RootCoerced
  <2> HIDE DEF n, v, c
  <2>5. CASE n \notin slow
    <3>1. K[i].name = n /\ w = t
      BY <2>1, <2>3, <2>5
    <3> HIDE DEF w, t
    <3> QED BY <2>2, <2>5, <3>1 DEF KeptValue, n, v, w
  <2>6. CASE n \in slow
    <3>1. K[i].name = n /\ w = c
      BY <2>3, <2>6, ItemFacts
    <3> HIDE DEF w, t
    <3>2. n \in Sensitive => c = REDACTED
      <4>1. REDACTED[<<>>] \in Fixed
        BY LeafFacts, Kinds DEF REDACTED
      <4> QED BY <2>2, <2>4, <4>1 DEF Carries, Keeps
    <3>3. n \notin Sensitive => Hides(c) /\ Keeps(v, c)
      BY <2>2, <2>4 DEF Carries, Keeps
    <3> QED BY <2>4, <3>1, <3>2, <3>3 DEF KeptValue, Carries, n, v, w
  <2> QED BY <2>5, <2>6
<1>11. IsDict(K)
  <2>1. \A i \in DOMAIN K : i \in DOMAIN A /\ K[i].name = A[i].name
    BY <1>3, <1>7, <1>8, <1>10
  <2> QED BY <1>2, <2>1 DEF IsDict
<1> QED BY <1>3, <1>6, <1>7, <1>8, <1>9, <1>10, <1>11 DEF A, K, T

-----------------------------------------------------------------------------
(* The members of the line.                                                *)

Ends(v, w) == Carries(v, w) /\ (NoCut(v) => NoCut(w)) /\ (Final(v) => Final(w))

\* Encode leaves a dict that can be encoded, with the same names.
LEMMA EncodeFacts ==
  ASSUME NEW d, \A i \in DOMAIN d : IsTree(d[i].value)
  PROVE  /\ DOMAIN Encode(d) = DOMAIN d
         /\ \A i \in DOMAIN d :
              /\ Encode(d)[i].name = d[i].name
              /\ Ends(d[i].value, Encode(d)[i].value)
              /\ Encodes(Encode(d)[i].value)
<1> DEFINE S(coerce) == [i \in DOMAIN d |-> Item(d[i].name, Sanitize(d[i].value, coerce))]
           Can(e) == \A i \in DOMAIN e : Encodes(e[i].value)
           e == Encode(d)
<1>1. \/ e = d /\ Can(d)
      \/ e = S(FALSE) /\ Can(S(FALSE))
      \/ e = S(TRUE)
  <2> DEFINE q == CASE Can(d) -> d
                    [] ~ Can(d) /\ Can(S(FALSE)) -> S(FALSE)
                    [] OTHER -> S(TRUE)
  <2>1. e = q
    BY DEF Encode
  <2> HIDE DEF S, Can, e
  <2>2. q = IF Can(d) THEN d ELSE IF Can(S(FALSE)) THEN S(FALSE) ELSE S(TRUE)
    OBVIOUS
  <2> QED BY <2>1, <2>2
<1>2. ASSUME NEW c \in BOOLEAN
      PROVE  DOMAIN S(c) = DOMAIN d /\ \A i \in DOMAIN d :
               S(c)[i].name = d[i].name /\ S(c)[i].value = Sanitize(d[i].value, c)
  <2>1. \A i \in DOMAIN d : S(c)[i] = Item(d[i].name, Sanitize(d[i].value, c))
    OBVIOUS
  <2> QED BY <2>1, ItemFacts
<1>3. \A i \in DOMAIN d, c \in BOOLEAN :
        Ends(d[i].value, Sanitize(d[i].value, c)) /\ (c => Encodes(Sanitize(d[i].value, c)))
  BY SanitizeFacts DEF Ends
<1>4. \A i \in DOMAIN d : Ends(d[i].value, d[i].value)
  BY DEF Ends, Carries, Keeps
<1> HIDE DEF S, e
<1>5. CASE e = d /\ Can(d)
  BY <1>4, <1>5 DEF e
<1>6. CASE e = S(FALSE) /\ Can(S(FALSE))
  <2>1. FALSE \in BOOLEAN
    OBVIOUS
  <2> QED BY <1>2, <1>3, <1>6, <2>1 DEF e
<1>7. CASE e = S(TRUE)
  <2>1. TRUE \in BOOLEAN
    OBVIOUS
  <2> QED BY <1>2, <1>3, <1>7, <2>1 DEF e
<1> QED BY <1>1, <1>5, <1>6, <1>7

LEMMA EnvelopeFacts ==
  /\ IsSeq(Envelope) /\ IsDict(Envelope)
  /\ \A i \in DOMAIN Envelope : Envelope[i] = Item(Envelope[i].name, Leaf("envelope"))
<1>1. DOMAIN Envelope = {1, 2} /\ Envelope[1] = Item("trace_id", Leaf("envelope"))
      /\ Envelope[2] = Item("otel.scope.name", Leaf("envelope"))
  BY DEF Envelope
<1>2. Envelope[1].name = "trace_id" /\ Envelope[2].name = "otel.scope.name"
  BY <1>1, ItemFacts
<1>3. IsSeq(Envelope)
  <2>1. \A i \in DOMAIN Envelope : Envelope[i] \in ToSet(Envelope)
    BY DEF ToSet
  <2>2. Item("trace_id", Leaf("envelope")) \in ToSet(Envelope)
        /\ Item("otel.scope.name", Leaf("envelope")) \in ToSet(Envelope)
    BY <1>1, <2>1
  <2> DEFINE T == ToSet(Envelope)
  <2> HIDE DEF T
  <2>3. Envelope \in Seq(T)
    BY <2>2 DEF Envelope, T
  <2> QED BY <2>3 DEF IsSeq, T
<1>4. IsDict(Envelope)
  BY <1>1, <1>2 DEF IsDict
<1> QED BY <1>1, <1>2, <1>3, <1>4

LEMMA IdentityFacts ==
  /\ IsSeq(Identity) /\ IsDict(Identity)
  /\ \A i \in DOMAIN Identity : Identity[i] = Item(Identity[i].name, Leaf("identity"))
<1>1. IsDict(Identity) /\ Identity \in Seq(ToSet(Identity))
      /\ (\A i \in DOMAIN Identity : Identity[i] = Item(Identity[i].name, Identity[i].value))
      /\ \A i \in DOMAIN Identity : Identity[i].value = Leaf("identity")
  BY FormatAssumption DEF HoldsValues
<1>2. \A i \in DOMAIN Identity : Identity[i] = Item(Identity[i].name, Leaf("identity"))
  BY <1>1
<1> QED BY <1>1, <1>2 DEF IsSeq

\* Splice adds the identity's members, and of a name that is taken it has the identity's.
LEMMA SpliceFacts ==
  ASSUME NEW d, IsSeq(d), IsDict(d)
  PROVE  /\ IsSeq(Splice(d)) /\ IsDict(Splice(d))
         /\ NamesOf(Splice(d)) = NamesOf(d) \cup NamesOf(Identity)
         /\ \A n, v : Val(Splice(d), n, v) =>
              IF n \in NamesOf(Identity) THEN Val(Identity, n, v) ELSE Val(d, n, v)
<1> DEFINE I == Identity
<1>1. IsSeq(I) /\ IsDict(I)
  BY IdentityFacts
<1>2. CASE NamesOf(d) \cap NamesOf(I) # {}
  <2>1. Splice(d) = Update(d, I)
    BY <1>2 DEF Splice
  <2> HIDE DEF I
  <2> QED BY <1>1, <2>1, UpdateFacts DEF I
<1>3. CASE NamesOf(d) \cap NamesOf(I) = {}
  <2> DEFINE q == d \o I
             X == ToSet(d) \cup ToSet(I)
  <2>1. Splice(d) = q
    BY <1>3 DEF Splice
  <2> HIDE DEF I
  <2>2. d \in Seq(X) /\ I \in Seq(X)
    <3>1. ToSet(d) \subseteq X /\ ToSet(I) \subseteq X
      OBVIOUS
    <3> HIDE DEF X
    <3> QED BY <1>1, <3>1, SeqGrows DEF IsSeq
  <2> HIDE DEF X
  <2>3. /\ q \in Seq(X) /\ Len(q) = Len(d) + Len(I) /\ Len(d) \in Nat /\ Len(I) \in Nat
        /\ DOMAIN q = 1 .. Len(q) /\ DOMAIN d = 1 .. Len(d) /\ DOMAIN I = 1 .. Len(I)
        /\ \A i \in DOMAIN d : q[i] = d[i]
        /\ \A i \in DOMAIN I : q[Len(d) + i] = I[i]
    BY <2>2
  <2> HIDE DEF q
  <2>4. \A i \in DOMAIN q : i \in DOMAIN d \/ \E j \in DOMAIN I : i = Len(d) + j
    <3> TAKE i \in DOMAIN q
    <3>1. CASE i \notin DOMAIN d
      <4>1. i - Len(d) \in DOMAIN I /\ i = Len(d) + (i - Len(d))
        BY <2>3, <3>1
      <4> QED BY <4>1
    <3> QED BY <3>1
  <2>5. (\A i \in DOMAIN d : i \in DOMAIN q) /\ \A j \in DOMAIN I : Len(d) + j \in DOMAIN q
    BY <2>3
  <2>6. IsSeq(q)
    <3>1. q = [i \in 1 .. Len(q) |-> q[i]] /\ (\A i \in 1 .. Len(q) : q[i] \in ToSet(q)) /\ Len(q) \in Nat
      BY <2>3 DEF ToSet
    <3> QED BY <3>1 DEF IsSeq
  <2>7. (\A i \in DOMAIN d : d[i].name \in NamesOf(d)) /\ \A j \in DOMAIN I : I[j].name \in NamesOf(I)
    BY DEF NamesOf
  <2>8. IsDict(q)
    <3> SUFFICES ASSUME NEW i \in DOMAIN q, NEW j \in DOMAIN q, q[i].name = q[j].name PROVE i = j
      BY DEF IsDict
    <3>1. CASE i \in DOMAIN d /\ j \in DOMAIN d
      BY <2>3, <3>1 DEF IsDict
    <3>2. CASE i \in DOMAIN d /\ j \notin DOMAIN d
      <4>1. PICK l \in DOMAIN I : j = Len(d) + l
        BY <2>4, <3>2
      <4> QED BY <1>3, <2>3, <2>7, <3>2, <4>1
    <3>3. CASE i \notin DOMAIN d /\ j \in DOMAIN d
      <4>1. PICK l \in DOMAIN I : i = Len(d) + l
        BY <2>4, <3>3
      <4> QED BY <1>3, <2>3, <2>7, <3>3, <4>1
    <3>4. CASE i \notin DOMAIN d /\ j \notin DOMAIN d
      <4>1. PICK l \in DOMAIN I : i = Len(d) + l
        BY <2>4, <3>4
      <4>2. PICK k \in DOMAIN I : j = Len(d) + k
        BY <2>4, <3>4
      <4>3. I[l].name = I[k].name
        BY <2>3, <4>1, <4>2
      <4> QED BY <1>1, <4>1, <4>2, <4>3 DEF IsDict
    <3> QED BY <3>1, <3>2, <3>3, <3>4
  <2>9. NamesOf(q) = NamesOf(d) \cup NamesOf(I)
    <3>1. \A i \in DOMAIN q : q[i].name \in NamesOf(d) \cup NamesOf(I)
      <4> TAKE i \in DOMAIN q
      <4>1. CASE i \in DOMAIN d
        BY <2>3, <2>7, <4>1
      <4>2. CASE i \notin DOMAIN d
        <5>1. PICK l \in DOMAIN I : i = Len(d) + l
          BY <2>4, <4>2
        <5> QED BY <2>3, <2>7, <5>1
      <4> QED BY <4>1, <4>2
    <3>2. \A i \in DOMAIN d : d[i].name \in NamesOf(q)
      <4> TAKE i \in DOMAIN d
      <4>1. i \in DOMAIN q /\ q[i].name = d[i].name
        BY <2>3, <2>5
      <4> QED BY <4>1 DEF NamesOf
    <3>3. \A j \in DOMAIN I : I[j].name \in NamesOf(q)
      <4> TAKE j \in DOMAIN I
      <4>1. Len(d) + j \in DOMAIN q /\ q[Len(d) + j].name = I[j].name
        BY <2>3, <2>5
      <4> QED BY <4>1 DEF NamesOf
    <3> QED BY <3>1, <3>2, <3>3 DEF NamesOf
  <2>10. ASSUME NEW n, NEW v, Val(q, n, v)
         PROVE  IF n \in NamesOf(I) THEN Val(I, n, v) ELSE Val(d, n, v)
    <3>1. PICK i \in DOMAIN q : q[i].name = n /\ q[i].value = v
      BY <2>10 DEF Val
    <3>2. CASE i \in DOMAIN d
      <4>1. d[i].name = n /\ d[i].value = v /\ n \in NamesOf(d)
        BY <2>3, <2>7, <3>1, <3>2
      <4>2. Val(d, n, v)
        BY <3>2, <4>1, DictFacts
      <4> QED BY <1>3, <4>1, <4>2
    <3>3. CASE i \notin DOMAIN d
      <4>1. PICK l \in DOMAIN I : i = Len(d) + l
        BY <2>4, <3>3
      <4>2. I[l].name = n /\ I[l].value = v /\ n \in NamesOf(I)
        BY <2>3, <2>7, <3>1, <4>1
      <4>3. Val(I, n, v)
        BY <1>1, <4>2, DictFacts
      <4> QED BY <4>2, <4>3
    <3> QED BY <3>2, <3>3
  <2> QED BY <2>1, <2>6, <2>8, <2>9, <2>10 DEF I
<1> QED BY <1>2, <1>3

\* An attribute as it is in the envelope.
CutValue(w) == IF cutting THEN Truncate(w) ELSE w

\* Cut changes the values only.
LEMMA CutFacts ==
  ASSUME NEW r \in Records, NEW s \in Snapshots, limit \in Int
  PROVE  LET K == Kept(r, s) IN
         /\ IsSeq(Cut(K)) /\ IsDict(Cut(K)) /\ DOMAIN Cut(K) = DOMAIN K /\ NamesOf(Cut(K)) = NamesOf(K)
         /\ \A i \in DOMAIN K : Cut(K)[i].name = K[i].name /\ Cut(K)[i].value = CutValue(K[i].value)
<1> DEFINE K == Kept(r, s)
           C == Cut(K)
<1>1. IsSeq(K) /\ IsDict(K)
  BY KeptFacts
<1>2. C = IF cutting THEN [i \in DOMAIN K |-> Item(K[i].name, Truncate(K[i].value))] ELSE K
  BY DEF Cut
<1> HIDE DEF K, C
<1>3. CASE ~ cutting
  <2>1. C = K
    BY <1>2, <1>3
  <2> QED BY <1>1, <1>3, <2>1 DEF CutValue, C, K
<1>4. CASE cutting
  <2>1. C = [i \in DOMAIN K |-> Item(K[i].name, Truncate(K[i].value))]
    BY <1>2, <1>4
  <2>2. DOMAIN C = DOMAIN K /\ C = [i \in DOMAIN K |-> C[i]]
        /\ \A i \in DOMAIN K : C[i].name = K[i].name /\ C[i].value = Truncate(K[i].value)
    BY <2>1, ItemFacts
  <2>3. IsSeq(C)
    BY <1>1, <2>2, MappedSeq DEF IsSeq
  <2>4. IsDict(C) /\ NamesOf(C) = NamesOf(K)
    BY <1>1, <2>2 DEF IsDict, NamesOf
  <2>5. \A i \in DOMAIN K : C[i].name = K[i].name /\ C[i].value = CutValue(K[i].value)
    BY <1>4, <2>2 DEF CutValue
  <2> QED BY <2>2, <2>3, <2>4, <2>5 DEF C, K
<1> QED BY <1>3, <1>4

\* Where a member of the line comes from.
From(r, s, n, v) ==
  IF n \in NamesOf(Identity) THEN v = Leaf("identity")
  ELSE IF n \in NamesOf(Kept(r, s))
       THEN \E i \in DOMAIN Kept(r, s) : Kept(r, s)[i].name = n /\ v = CutValue(Kept(r, s)[i].value)
       ELSE n \in NamesOf(Envelope) /\ v = Leaf("envelope")

LEMMA FromTree ==
  ASSUME NEW r \in Records, NEW s \in Snapshots, limit \in Int, NEW n, NEW v, From(r, s, n, v)
  PROVE  IsTree(v)
<1>1. CASE v = Leaf("identity") \/ v = Leaf("envelope")
  BY <1>1, LeafFacts
<1>2. CASE \E i \in DOMAIN Kept(r, s) : v = CutValue(Kept(r, s)[i].value)
  <2>1. PICK i \in DOMAIN Kept(r, s) : v = CutValue(Kept(r, s)[i].value)
    BY <1>2
  <2>2. IsTree(Kept(r, s)[i].value)
    BY KeptFacts DEF KeptValue
  <2> QED BY <2>1, <2>2, TruncateFacts DEF CutValue, Carries
<1> QED BY <1>1, <1>2 DEF From

\* The line has each name once, and each member is what became of one source.
LEMMA LineMembers ==
  ASSUME NEW r \in Records, NEW s \in Snapshots, limit \in Int, NEW stack
  PROVE  LET L == Line(r, s, stack).members IN
         /\ IsSeq(L) /\ IsDict(L)
         /\ NamesOf(L) = NamesOf(Envelope) \cup NamesOf(Kept(r, s)) \cup NamesOf(Identity)
         /\ \A i \in DOMAIN L :
              /\ KindsOf(L[i].value) \cap NoJSON = {}
              /\ L[i] = Item(L[i].name, L[i].value)
              /\ \E v : From(r, s, L[i].name, v) /\ Ends(v, L[i].value)
<1> DEFINE C == Cut(Kept(r, s))
           U == Update(Envelope, C)
           S == Splice(U)
           W == Encode(S)
           L == Line(r, s, stack).members
<1>1. L = [i \in DOMAIN W |-> Item(W[i].name, Encoded(W[i].value))]
  BY DEF Line, Whole
<1>2. /\ IsSeq(C) /\ IsDict(C) /\ NamesOf(C) = NamesOf(Kept(r, s)) /\ DOMAIN C = DOMAIN Kept(r, s)
      /\ \A i \in DOMAIN C : C[i].name = Kept(r, s)[i].name /\ C[i].value = CutValue(Kept(r, s)[i].value)
  BY CutFacts
<1>0. U = Update(Envelope, C) /\ S = Splice(U) /\ W = Encode(S)
  OBVIOUS
<1> HIDE DEF C, U, S, W, L
<1>3. /\ IsSeq(U) /\ IsDict(U) /\ NamesOf(U) = NamesOf(Envelope) \cup NamesOf(C)
      /\ \A n, v : Val(U, n, v) => IF n \in NamesOf(C) THEN Val(C, n, v) ELSE Val(Envelope, n, v)
  BY <1>0, <1>2, EnvelopeFacts, UpdateFacts
<1>4. /\ IsSeq(S) /\ IsDict(S) /\ NamesOf(S) = NamesOf(U) \cup NamesOf(Identity)
      /\ \A n, v : Val(S, n, v) => IF n \in NamesOf(Identity) THEN Val(Identity, n, v) ELSE Val(U, n, v)
  BY <1>0, <1>3, SpliceFacts
<1>5. ASSUME NEW i \in DOMAIN S PROVE From(r, s, S[i].name, S[i].value)
  <2> DEFINE n == S[i].name
             v == S[i].value
  <2>1. Val(S, n, v) /\ n \in NamesOf(S)
    BY <1>4, DictFacts
  <2> HIDE DEF n, v
  <2>2. CASE n \in NamesOf(Identity)
    <3>1. Val(Identity, n, v)
      BY <1>4, <2>1, <2>2
    <3>2. v = Leaf("identity")
      BY <3>1, IdentityFacts, ItemFacts DEF Val
    <3> QED BY <2>2, <3>2 DEF From, n, v
  <2>3. CASE n \notin NamesOf(Identity) /\ n \in NamesOf(C)
    <3>1. Val(C, n, v)
      BY <1>3, <1>4, <2>1, <2>3
    <3>2. PICK k \in DOMAIN C : C[k].name = n /\ C[k].value = v
      BY <3>1 DEF Val
    <3>3. k \in DOMAIN Kept(r, s) /\ Kept(r, s)[k].name = n /\ v = CutValue(Kept(r, s)[k].value)
      BY <1>2, <3>2
    <3> QED BY <1>2, <2>3, <3>3 DEF From, n, v
  <2>4. CASE n \notin NamesOf(Identity) /\ n \notin NamesOf(C)
    <3>1. Val(Envelope, n, v)
      BY <1>3, <1>4, <2>1, <2>4
    <3>2. PICK k \in DOMAIN Envelope : Envelope[k].name = n /\ Envelope[k].value = v
      BY <3>1 DEF Val
    <3>3. v = Leaf("envelope") /\ n \in NamesOf(Envelope)
      BY <3>2, EnvelopeFacts, ItemFacts DEF NamesOf
    <3> QED BY <1>2, <2>4, <3>3 DEF From, n, v
  <2> QED BY <2>2, <2>3, <2>4
<1>6. \A i \in DOMAIN S : IsTree(S[i].value)
  BY <1>5, FromTree
<1>7. /\ DOMAIN W = DOMAIN S
      /\ \A i \in DOMAIN S :
           W[i].name = S[i].name /\ Ends(S[i].value, W[i].value) /\ Encodes(W[i].value)
  BY <1>0, <1>6, EncodeFacts
<1>8. DOMAIN L = DOMAIN S /\ L = [i \in DOMAIN S |-> L[i]]
      /\ \A i \in DOMAIN S : L[i] = Item(W[i].name, Encoded(W[i].value))
  BY <1>1, <1>7
<1>9. ASSUME NEW i \in DOMAIN S
      PROVE  /\ L[i].name = S[i].name
             /\ KindsOf(L[i].value) \cap NoJSON = {}
             /\ Ends(S[i].value, L[i].value)
             /\ L[i] = Item(L[i].name, L[i].value)
  <2> DEFINE w == W[i].value
             x == Encoded(w)
  <2>1. L[i].name = S[i].name /\ L[i].value = x /\ L[i] = Item(L[i].name, L[i].value)
    <3>1. L[i] = Item(W[i].name, x) /\ W[i].name = S[i].name
      BY <1>7, <1>8
    <3> HIDE DEF x
    <3> QED BY <3>1, ItemFacts
  <2>2. Ends(S[i].value, w) /\ Encodes(w) /\ IsTree(w)
    BY <1>7 DEF Ends, Carries
  <2> HIDE DEF w
  <2>3. Ends(w, x) /\ KindsOf(x) \cap NoJSON = {}
    BY <2>2, EncodedFacts DEF Ends
  <2> HIDE DEF x
  <2>4. Ends(S[i].value, x)
    BY <2>2, <2>3, CarriesOn DEF Ends
  <2> QED BY <2>1, <2>3, <2>4
<1>10. IsSeq(L)
  BY <1>4, <1>8, MappedSeq DEF IsSeq
<1>11. IsDict(L) /\ NamesOf(L) = NamesOf(S)
  <2>1. DOMAIN L = DOMAIN S /\ \A i \in DOMAIN S : L[i].name = S[i].name
    BY <1>8, <1>9
  <2> QED BY <1>4, <2>1 DEF IsDict, NamesOf
<1>12. NamesOf(L) = NamesOf(Envelope) \cup NamesOf(Kept(r, s)) \cup NamesOf(Identity)
  BY <1>2, <1>3, <1>4, <1>11
<1>13. ASSUME NEW i \in DOMAIN L PROVE \E v : From(r, s, L[i].name, v) /\ Ends(v, L[i].value)
  <2>1. From(r, s, L[i].name, S[i].value) /\ Ends(S[i].value, L[i].value)
    BY <1>5, <1>8, <1>9
  <2> QED BY <2>1
<1> QED BY <1>8, <1>9, <1>10, <1>11, <1>12, <1>13 DEF L

LEMMA CutCarries ==
  ASSUME NEW w, IsTree(w)
  PROVE  /\ Carries(w, CutValue(w))
         /\ cutting /\ w[<<>>] \notin {"object", "enum", "base64"} => Final(CutValue(w))
         /\ ~ cutting => CutValue(w) = w
<1>1. Carries(w, w)
  BY DEF Carries, Keeps
<1> QED BY <1>1, TruncateFacts DEF CutValue

\* What a member of the line is, by where it comes from.
LEMMA MemberFacts ==
  ASSUME NEW r \in Records, NEW s \in Snapshots, limit \in Int, NEW stack,
         NEW m \in ToSet(Line(r, s, stack).members)
  PROVE  /\ KindsOf(m.value) \cap NoJSON = {}
         /\ m.name \in NamesOf(Envelope) \cup NamesOf(Kept(r, s)) \cup NamesOf(Identity)
         /\ \/ m.name \in NamesOf(Identity) /\ m \in ToSet(Identity) /\ m.value = Leaf("identity")
            \/ /\ m.name \notin NamesOf(Identity) \cup NamesOf(Kept(r, s))
               /\ m \in ToSet(Envelope) /\ m.value = Leaf("envelope")
            \/ /\ m.name \in NamesOf(Kept(r, s)) \ NamesOf(Identity)
               /\ \E i \in DOMAIN Kept(r, s) :
                    /\ Kept(r, s)[i].name = m.name
                    /\ Ends(CutValue(Kept(r, s)[i].value), m.value)
<1> DEFINE L == Line(r, s, stack).members
           n == m.name
           w == m.value
<1>1. /\ IsSeq(L) /\ IsDict(L)
      /\ NamesOf(L) = NamesOf(Envelope) \cup NamesOf(Kept(r, s)) \cup NamesOf(Identity)
      /\ \A i \in DOMAIN L :
           /\ KindsOf(L[i].value) \cap NoJSON = {}
           /\ L[i] = Item(L[i].name, L[i].value)
           /\ \E v : From(r, s, L[i].name, v) /\ Ends(v, L[i].value)
  BY LineMembers
<1>2. m \in ToSet(L)
  OBVIOUS
<1> HIDE DEF L
<1>3. PICK i \in DOMAIN L : m = L[i]
  BY <1>2 DEF ToSet
<1>4. KindsOf(w) \cap NoJSON = {} /\ m = Item(n, w)
      /\ \E v : From(r, s, n, v) /\ Ends(v, w)
  BY <1>1, <1>3
<1>5. n \in NamesOf(Envelope) \cup NamesOf(Kept(r, s)) \cup NamesOf(Identity)
  <2>1. n \in NamesOf(L)
    BY <1>3 DEF NamesOf
  <2> QED BY <1>1, <2>1
<1>6. PICK v : From(r, s, n, v) /\ Ends(v, w)
  BY <1>4
<1> HIDE DEF n, w
<1>7. \A k \in Fixed : v = Leaf(k) => w = v
  <2>1. \A k \in Fixed : v = Leaf(k) => v[<<>>] \in Fixed
    BY LeafFacts
  <2> QED BY <1>6, <2>1 DEF Ends, Carries, Keeps
<1>8. "identity" \in Fixed /\ "envelope" \in Fixed
  BY DEF Fixed, Short
<1>9. CASE n \in NamesOf(Identity)
  <2>1. v = Leaf("identity")
    BY <1>6, <1>9 DEF From
  <2>2. w = Leaf("identity")
    BY <1>7, <1>8, <2>1
  <2>3. PICK k \in DOMAIN Identity : Identity[k].name = n
    BY <1>9 DEF NamesOf
  <2>4. m = Identity[k]
    BY <1>4, <2>2, <2>3, IdentityFacts
  <2>5. m \in ToSet(Identity)
    BY <2>4 DEF ToSet
  <2> QED BY <1>4, <1>5, <1>9, <2>2, <2>5 DEF n, w
<1>10. CASE n \notin NamesOf(Identity) /\ n \in NamesOf(Kept(r, s))
  <2>1. \E k \in DOMAIN Kept(r, s) : Kept(r, s)[k].name = n /\ v = CutValue(Kept(r, s)[k].value)
    BY <1>6, <1>10 DEF From
  <2> QED BY <1>4, <1>5, <1>6, <1>10, <2>1 DEF n, w
<1>11. CASE n \notin NamesOf(Identity) /\ n \notin NamesOf(Kept(r, s))
  <2>1. v = Leaf("envelope") /\ n \in NamesOf(Envelope)
    BY <1>6, <1>11 DEF From
  <2>2. w = Leaf("envelope")
    BY <1>7, <1>8, <2>1
  <2>3. PICK k \in DOMAIN Envelope : Envelope[k].name = n
    BY <2>1 DEF NamesOf
  <2>4. m = Envelope[k]
    BY <1>4, <2>2, <2>3, EnvelopeFacts
  <2>5. m \in ToSet(Envelope)
    BY <2>4 DEF ToSet
  <2> QED BY <1>4, <1>5, <1>11, <2>2, <2>5 DEF n, w
<1> QED BY <1>9, <1>10, <1>11

-----------------------------------------------------------------------------
Configured == limit \in Limits /\ limit \in Int

\* The limit is one of those there may be.
LEMMA ConfiguredAlways == Spec => []Configured
<1>1. Init => Configured
  BY FormatAssumption DEF Init, Configured
<1>2. Configured /\ [Next]_vars => Configured'
  BY DEF Configured, Next, Hand, Format, vars, config
<1> QED BY <1>1, <1>2, PTL DEF Spec

\* What a line must be, of any members.
Bare(l) ==
  \A m \in ToSet(l.members) \ (ToSet(Envelope) \cup ToSet(Identity)) :
    IF m.name \in Sensitive THEN m.value = REDACTED ELSE Hides(m.value)

\* A line shows nothing that is to be hidden.
LEMMA LineBare ==
  ASSUME NEW r \in Records, NEW s \in Snapshots, limit \in Int, NEW stack
  PROVE  Bare(Line(r, s, stack))
<1> SUFFICES ASSUME NEW m \in ToSet(Line(r, s, stack).members), m \notin ToSet(Envelope), m \notin ToSet(Identity)
             PROVE  IF m.name \in Sensitive THEN m.value = REDACTED ELSE Hides(m.value)
  BY DEF Bare
<1> DEFINE n == m.name
           w == m.value
<1>1. PICK i \in DOMAIN Kept(r, s) : Kept(r, s)[i].name = n /\ Ends(CutValue(Kept(r, s)[i].value), w)
  BY MemberFacts
<1> DEFINE k == Kept(r, s)[i].value
           c == CutValue(k)
<1>2. \E v : KeptValue(v, n, k)
  BY <1>1, KeptFacts
<1>3. Ends(c, w)
  BY <1>1
<1> HIDE DEF n, w, k, c
<1>4. IsTree(k) /\ (n \in Sensitive => k = REDACTED) /\ (n \notin Sensitive => Hides(k))
  BY <1>2 DEF KeptValue
<1>5. Carries(k, c)
  BY <1>4, CutCarries DEF c
<1>6. n \in Sensitive => w = REDACTED
  <2>1. REDACTED[<<>>] \in Fixed
    BY LeafFacts, Kinds DEF REDACTED
  <2> QED BY <1>3, <1>4, <1>5, <2>1 DEF Ends, Carries, Keeps
<1>7. n \notin Sensitive => Hides(w)
  BY <1>3, <1>4, <1>5 DEF Ends, Carries
<1> QED BY <1>6, <1>7 DEF n, w

\* LP-005: the redaction of src/semlog/_format.py reaches whatever a line has of what was
\* logged, bound or received, by name and at any depth up to the cap.
THEOREM Redaction == Spec => []NothingBare
<1>1. Init => NothingBare
  BY DEF Init, NothingBare
<1>2. ASSUME NothingBare, Configured, [Next]_vars PROVE NothingBare'
  <2>1. CASE Hand
    BY <2>1 DEF Hand, NothingBare
  <2>2. ASSUME NEW r \in Records, NEW s \in Snapshots, Format(r, s) PROVE NothingBare'
    <3>1. line' = None \/ line' = Line(r, s, HasStack(r))
      BY <2>2 DEF Format
    <3>2. Bare(Line(r, s, HasStack(r)))
      BY <1>2, LineBare DEF Configured
    <3> DEFINE l == Line(r, s, HasStack(r))
    <3> HIDE DEF l
    <3>3. line' = l => Bare(line')
      BY <3>2 DEF l
    <3> QED BY <3>1, <3>3 DEF NothingBare, Bare, l
  <2>3. CASE UNCHANGED vars
    BY <1>2, <2>3 DEF NothingBare, vars
  <2> QED BY <1>2, <2>1, <2>2, <2>3 DEF Next
<1> QED BY <1>1, <1>2, ConfiguredAlways, PTL DEF Spec

-----------------------------------------------------------------------------
\* A text is cut in an attribute that changed.
LEMMA CutsCounted ==
  ASSUME NEW r \in Records, NEW s \in Snapshots, limit \in Int, NEW stack
  PROVE  LET l == Line(r, s, stack) IN
         l.truncated >= Cardinality({m \in ToSet(l.members) : KindsOf(m.value) \cap CutTexts # {}})
<1> DEFINE L == Line(r, s, stack).members
           K == Kept(r, s)
           S == {i \in DOMAIN K : Cut(K)[i] # K[i]}
           T == {m \in ToSet(L) : KindsOf(m.value) \cap CutTexts # {}}
<1>1. Line(r, s, stack).truncated = Cardinality(S)
  BY DEF Line
<1>2. IsSeq(K) /\ DOMAIN Cut(K) = DOMAIN K
      /\ \A i \in DOMAIN K : Cut(K)[i].value = CutValue(K[i].value) /\ NoCut(K[i].value) /\ IsTree(K[i].value)
  BY KeptFacts, CutFacts DEF KeptValue, Plain
<1>3. IsFiniteSet(S)
  <2>1. DOMAIN K = 1 .. Len(K) /\ Len(K) \in Nat
    BY <1>2 DEF IsSeq
  <2>2. IsFiniteSet(DOMAIN K)
    BY <2>1, UpTo
  <2> HIDE DEF K
  <2> QED BY <2>2, FS_Subset
<1>4. ASSUME NEW m \in T PROVE \E i \in S : K[i].name = m.name
  <2>1. m \in ToSet(L) /\ ~ NoCut(m.value)
    BY DEF KindsOf, NoCut, CutTexts, Cuts
  <2> HIDE DEF L, K, S
  <2>2. m.value # Leaf("identity") /\ m.value # Leaf("envelope")
    BY <2>1, LeafFacts DEF Cuts
  <2>3. PICK i \in DOMAIN K : K[i].name = m.name /\ Ends(CutValue(K[i].value), m.value)
    BY <2>1, <2>2, MemberFacts DEF L, K
  <2>4. ~ NoCut(CutValue(K[i].value))
    BY <2>1, <2>3 DEF Ends
  <2>5. Cut(K)[i] # K[i]
    BY <1>2, <2>4
  <2> QED BY <2>3, <2>5 DEF S
<1>5. \A m, o \in ToSet(L) : m.name = o.name => m = o
  <2>1. IsDict(L)
    BY LineMembers
  <2> HIDE DEF L
  <2> QED BY <2>1 DEF IsDict, ToSet
<1> HIDE DEF K, S
<1>6. \A m \in T : m \in ToSet(L)
  OBVIOUS
<1> HIDE DEF T, L
<1> DEFINE g == [m \in T |-> CHOOSE i \in S : K[i].name = m.name]
<1>7. \A m \in T : g[m] \in S /\ K[g[m]].name = m.name
  BY <1>4
<1>8. g \in Injection(T, S)
  <2>1. g \in [T -> S]
    BY <1>7
  <2> HIDE DEF g
  <2>2. \A m, o \in T : g[m] = g[o] => m = o
    BY <1>5, <1>6, <1>7
  <2> QED BY <2>1, <2>2 DEF Injection, IsInjective
<1> HIDE DEF g
<1>9. Cardinality(T) <= Cardinality(S) /\ Cardinality(T) \in Nat /\ Cardinality(S) \in Nat
  BY <1>3, <1>8, FS_Injection, FS_CardinalityType
<1> QED BY <1>1, <1>9 DEF T, L, S, K

\* What a line must be, with a limit of length if cuts.
Sound(l, cuts) ==
  /\ IsDict(l.members)
  /\ \A m \in ToSet(l.members) :
       /\ KindsOf(m.value) \cap NoJSON = {}
       /\ cuts => m.value[<<>>] \notin {"long", "base64"}
  /\ l.truncated >= Cardinality({m \in ToSet(l.members) : KindsOf(m.value) \cap CutTexts # {}})

\* A line has a JSON form.
LEMMA LineSound ==
  ASSUME NEW r \in Records, NEW s \in Snapshots, limit \in Int, NEW stack
  PROVE  Sound(Line(r, s, stack), cutting)
<1> DEFINE l == Line(r, s, stack)
<1>1. IsDict(l.members)
  BY LineMembers
<1>2. ASSUME NEW m \in ToSet(l.members) PROVE KindsOf(m.value) \cap NoJSON = {}
  BY MemberFacts
<1>3. ASSUME NEW m \in ToSet(l.members), cutting PROVE m.value[<<>>] \notin {"long", "base64"}
  <2>1. CASE m.value = Leaf("identity") \/ m.value = Leaf("envelope")
    BY <2>1, LeafFacts
  <2>2. CASE m.value # Leaf("identity") /\ m.value # Leaf("envelope")
    <3>1. PICK i \in DOMAIN Kept(r, s) : Ends(CutValue(Kept(r, s)[i].value), m.value)
      BY <2>2, MemberFacts
    <3>2. IsTree(Kept(r, s)[i].value) 
          /\ Kept(r, s)[i].value[<<>>] \notin {"object", "enum", "base64"}
      BY KeptFacts DEF KeptValue, Plain
    <3>3. Final(CutValue(Kept(r, s)[i].value))
      BY <1>3, <3>2, CutCarries
    <3>4. Final(m.value)
      BY <3>1, <3>3 DEF Ends
    <3> QED BY <3>4 DEF Final
  <2> QED BY <2>1, <2>2
<1>4. l.truncated >= Cardinality({m \in ToSet(l.members) : KindsOf(m.value) \cap CutTexts # {}})
  BY CutsCounted
<1> HIDE DEF l
<1>5. Sound(l, cutting)
  BY <1>1, <1>2, <1>3, <1>4 DEF Sound
<1> QED BY <1>5 DEF l

\* LRC-001, 009, 010: the encoder of src/semlog/_format.py is never left with what has no
\* JSON form, no attribute is made of more than the limit, and every cut is counted.
THEOREM Conformance == Spec => []Conformant
<1>1. Init => Conformant
  BY DEF Init, Conformant
<1>2. ASSUME Conformant, Configured, [Next]_vars PROVE Conformant'
  <2>1. CASE Hand
    BY <2>1 DEF Hand, Conformant
  <2>2. ASSUME NEW r \in Records, NEW s \in Snapshots, Format(r, s) PROVE Conformant'
    <3> DEFINE l == Line(r, s, HasStack(r))
    <3>1. (line' = None \/ line' = l) /\ cutting' = cutting
      BY <2>2 DEF Format, config
    <3>2. Sound(l, cutting)
      BY <1>2, LineSound DEF Configured
    <3> HIDE DEF l
    <3>3. line' = l => Sound(line', cutting')
      BY <3>1, <3>2
    <3> QED BY <3>1, <3>3 DEF Conformant, Sound
  <2>3. CASE UNCHANGED vars
    BY <1>2, <2>3 DEF Conformant, vars, config
  <2> QED BY <1>2, <2>1, <2>2, <2>3 DEF Next
<1> QED BY <1>1, <1>2, ConfiguredAlways, PTL DEF Spec

-----------------------------------------------------------------------------
\* The marker of an exception that takes it says whether a line has had its stack trace,
\* unless a record of it was lost.
Marked ==
  /\ stacks \in [Exceptions -> {0, 1, 2}]
  /\ \A e \in Exceptions \ Slotted :
       /\ stacks[e] \in {0, 1}
       /\ e \notin rendered => stacks[e] = 0 /\ e \notin shown
       /\ e \in rendered \ lost => stacks[e] = 1

\* format() keeps the marks right, whether it raises or not.
LEMMA MarkedStep ==
  ASSUME Marked, NEW r \in Records, NEW s \in Snapshots, Format(r, s)
  PROVE  Marked'
<1> DEFINE x == r.exc
           raises == strict /\ Violates(r)
<1>1. /\ rendered' = rendered \cup ({x} \ (Slotted \cup {None}))
      /\ stacks' = IF HasStack(r) /\ ~ raises
                   THEN [stacks EXCEPT ![x] = IF @ < 2 THEN @ + 1 ELSE 2] ELSE stacks
      /\ shown' = IF raises THEN shown ELSE shown \cup ({x} \ {None})
      /\ lost' = IF raises THEN lost \cup ({x} \ {None}) ELSE lost
  BY DEF Format
<1>2. x # None => x \in Exceptions
  BY DEF Exceptions
<1>3. HasStack(r) <=> x # None /\ x \notin rendered
  BY DEF HasStack
<1> HIDE DEF x, raises
<1>4. stacks' \in [Exceptions -> {0, 1, 2}]
  <2>1. CASE HasStack(r) /\ ~ raises
    <3>1. stacks' = [stacks EXCEPT ![x] = IF @ < 2 THEN @ + 1 ELSE 2] /\ x \in Exceptions
      BY <1>1, <1>2, <1>3, <2>1
    <3> QED BY <3>1 DEF Marked
  <2>2. CASE ~ (HasStack(r) /\ ~ raises)
    BY <1>1, <2>2 DEF Marked
  <2> QED BY <2>1, <2>2
<1>5. ASSUME NEW e \in Exceptions, e \notin Slotted
      PROVE  /\ stacks'[e] \in {0, 1}
             /\ e \notin rendered' => stacks'[e] = 0 /\ e \notin shown'
             /\ e \in rendered' \ lost' => stacks'[e] = 1
  <2>0. /\ stacks[e] \in {0, 1}
        /\ e \notin rendered => stacks[e] = 0 /\ e \notin shown
        /\ e \in rendered \ lost => stacks[e] = 1
        /\ e # None
    BY <1>5 DEF Marked, Exceptions
  <2>1. CASE e # x
    <3>1. stacks'[e] = stacks[e]
      BY <1>1, <2>1 DEF Marked
    <3>2. (e \in rendered' <=> e \in rendered) /\ (e \in shown' <=> e \in shown) /\ (e \in lost' <=> e \in lost)
      BY <1>1, <2>1
    <3> QED BY <2>0, <3>1, <3>2
  <2>2. CASE e = x
    <3>1. e \in rendered' /\ (lost \subseteq lost')
      BY <1>1, <1>5, <2>0, <2>2
    <3>2. CASE raises
      <4>1. stacks' = stacks /\ e \in lost'
        BY <1>1, <2>0, <2>2, <3>2
      <4> QED BY <2>0, <3>1, <4>1
    <3>3. CASE ~ raises /\ e \in rendered
      <4>1. stacks' = stacks
        BY <1>1, <1>3, <2>2, <3>3
      <4> QED BY <2>0, <3>1, <3>3, <4>1
    <3>4. CASE ~ raises /\ e \notin rendered
      <4>1. stacks' = [stacks EXCEPT ![e] = IF @ < 2 THEN @ + 1 ELSE 2]
        BY <1>1, <1>3, <2>0, <2>2, <3>4
      <4>2. stacks'[e] = 1
        BY <2>0, <3>4, <4>1 DEF Marked
      <4> QED BY <3>1, <4>2
    <3> QED BY <3>2, <3>3, <3>4
  <2> QED BY <2>1, <2>2
<1> QED BY <1>4, <1>5 DEF Marked

\* LP-004: the marker that src/semlog/_format.py leaves on an exception keeps its stack
\* trace to one line, whatever else is logged of it.
THEOREM Rendering == Spec => []StackOnce
<1>1. Init => Marked
  BY DEF Init, Marked
<1>2. ASSUME Marked, [Next]_vars PROVE Marked'
  <2>1. CASE Hand
    BY <1>2, <2>1 DEF Hand, Marked
  <2>2. CASE UNCHANGED vars
    BY <1>2, <2>2 DEF Marked, vars
  <2> QED BY <1>2, <2>1, <2>2, MarkedStep DEF Next
<1>3. Marked => StackOnce
  <2> SUFFICES ASSUME Marked, NEW e \in Exceptions, e \notin Slotted
               PROVE  stacks[e] <= 1 /\ (e \in shown \ lost => stacks[e] = 1)
    BY DEF StackOnce
  <2>1. /\ stacks[e] \in {0, 1}
        /\ e \notin rendered => e \notin shown
        /\ e \in rendered \ lost => stacks[e] = 1
    BY DEF Marked
  <2> QED BY <2>1
<1> QED BY <1>1, <1>2, <1>3, PTL DEF Spec

-----------------------------------------------------------------------------
(* Which attributes are kept, and whose value a name has.                  *)

\* The places of several sources, by source and position.
LEMMA PlacesFacts ==
  ASSUME NEW g, DOMAIN g \subseteq Nat
  PROVE  /\ \A k \in DOMAIN g : \A i \in DOMAIN g[k] : <<k, i>> \in Places(g) /\ NamedAt(g, <<k, i>>) = g[k][i].name
         /\ \A p \in Places(g) : /\ p[1] \in DOMAIN g /\ p[2] \in DOMAIN g[p[1]] /\ p = <<p[1], p[2]>>
                                 /\ NamedAt(g, p) = g[p[1]][p[2]].name
<1>1. \A p : p \in Places(g) <=> \E k \in DOMAIN g : p \in {k} \X DOMAIN g[k]
  BY DEF Places
<1>2. ASSUME NEW k \in DOMAIN g, NEW i \in DOMAIN g[k]
      PROVE  <<k, i>> \in Places(g) /\ NamedAt(g, <<k, i>>) = g[k][i].name
  <2>1. <<k, i>> \in {k} \X DOMAIN g[k]
    OBVIOUS
  <2> QED BY <1>1, <2>1 DEF NamedAt
<1>3. ASSUME NEW p \in Places(g)
      PROVE  p[1] \in DOMAIN g /\ p[2] \in DOMAIN g[p[1]] /\ p = <<p[1], p[2]>>
  <2>1. PICK k \in DOMAIN g : p \in {k} \X DOMAIN g[k]
    BY <1>1
  <2>2. p[1] = k /\ p[2] \in DOMAIN g[k] /\ p = <<p[1], p[2]>>
    BY <2>1
  <2> QED BY <2>2
<1> QED BY <1>2, <1>3 DEF NamedAt

Given(r, s) == <<Xs(r), s.attributes, Gs(s)>>
NamesIn(g) == {NamedAt(g, p) : p \in Places(g)}
BeforeIn(g, n) ==
  {NamedAt(g, p) : p \in {q \in Places(g) : \A o \in Places(g) : NamedAt(g, o) = n => Earlier(q, o)}}

\* The same, of three sources.
LEMMA ThreeSources ==
  ASSUME NEW x, NEW b, NEW c, DOMAIN x \subseteq Nat, DOMAIN b \subseteq Nat, DOMAIN c \subseteq Nat
  PROVE  LET g == <<x, b, c>> IN
         /\ NamesIn(g) = NamesOf(x) \cup NamesOf(b) \cup NamesOf(c)
         /\ \A n \in NamesOf(x) : BeforeIn(g, n) = First(x, n)
         /\ \A n \in NamesOf(b) \ NamesOf(x) : BeforeIn(g, n) = NamesOf(x) \cup First(b, n)
         /\ \A n \in NamesOf(c) \ (NamesOf(x) \cup NamesOf(b)) :
              BeforeIn(g, n) = NamesOf(x) \cup NamesOf(b) \cup First(c, n)
<1> DEFINE g == <<x, b, c>>
<1>1. DOMAIN g = {1, 2, 3} /\ g[1] = x /\ g[2] = b /\ g[3] = c
  OBVIOUS
<1> HIDE DEF g
<1>2. /\ \A k \in DOMAIN g : \A i \in DOMAIN g[k] : <<k, i>> \in Places(g) /\ NamedAt(g, <<k, i>>) = g[k][i].name
      /\ \A p \in Places(g) : /\ p[1] \in DOMAIN g /\ p[2] \in DOMAIN g[p[1]] /\ p = <<p[1], p[2]>>
                              /\ NamedAt(g, p) = g[p[1]][p[2]].name
  <2>1. DOMAIN g \subseteq Nat
    BY <1>1
  <2> QED BY <2>1, PlacesFacts
<1>3. NamesIn(g) = NamesOf(x) \cup NamesOf(b) \cup NamesOf(c)
  <2>1. ASSUME NEW p \in Places(g) PROVE NamedAt(g, p) \in NamesOf(x) \cup NamesOf(b) \cup NamesOf(c)
    BY <1>1, <1>2 DEF NamesOf
  <2>2. ASSUME NEW k \in DOMAIN g, NEW i \in DOMAIN g[k] PROVE g[k][i].name \in NamesIn(g)
    BY <1>2 DEF NamesIn
  <2>3. /\ \A i \in DOMAIN x : x[i].name \in NamesIn(g)
        /\ \A i \in DOMAIN b : b[i].name \in NamesIn(g)
        /\ \A i \in DOMAIN c : c[i].name \in NamesIn(g)
    BY <1>1, <2>2
  <2>4. NamesIn(g) \subseteq NamesOf(x) \cup NamesOf(b) \cup NamesOf(c)
    BY <2>1 DEF NamesIn
  <2> QED BY <2>3, <2>4 DEF NamesOf
\* The place <<k, i>> is before every one named n.
<1> DEFINE Ahead(k, i, n) == \A l \in DOMAIN g : \A j \in DOMAIN g[l] :
                               g[l][j].name = n => k < l \/ (k = l /\ i < j)
<1>4. ASSUME NEW n, NEW z
      PROVE  z \in BeforeIn(g, n) <=>
               \E k \in DOMAIN g : \E i \in DOMAIN g[k] : g[k][i].name = z /\ Ahead(k, i, n)
  <2>1. ASSUME NEW k \in DOMAIN g, NEW i \in DOMAIN g[k]
        PROVE  Ahead(k, i, n) <=> \A o \in Places(g) : NamedAt(g, o) = n => Earlier(<<k, i>>, o)
    <3>1. ASSUME Ahead(k, i, n), NEW o \in Places(g), NamedAt(g, o) = n PROVE Earlier(<<k, i>>, o)
      BY <1>2, <3>1 DEF Earlier
    <3>2. ASSUME \A o \in Places(g) : NamedAt(g, o) = n => Earlier(<<k, i>>, o),
                 NEW l \in DOMAIN g, NEW j \in DOMAIN g[l], g[l][j].name = n
          PROVE  k < l \/ (k = l /\ i < j)
      <4>1. Earlier(<<k, i>>, <<l, j>>)
        BY <1>2, <3>2
      <4> QED BY <4>1 DEF Earlier
    <3> QED BY <3>1, <3>2
  <2> HIDE DEF Ahead
  <2>2. ASSUME z \in BeforeIn(g, n)
        PROVE  \E k \in DOMAIN g : \E i \in DOMAIN g[k] : g[k][i].name = z /\ Ahead(k, i, n)
    <3>1. PICK p \in Places(g) : NamedAt(g, p) = z /\ \A o \in Places(g) : NamedAt(g, o) = n => Earlier(p, o)
      BY <2>2 DEF BeforeIn
    <3>2. p[1] \in DOMAIN g /\ p[2] \in DOMAIN g[p[1]] /\ p = <<p[1], p[2]>> /\ g[p[1]][p[2]].name = z
      BY <1>2, <3>1
    <3>3. Ahead(p[1], p[2], n)
      BY <2>1, <3>1, <3>2
    <3> QED BY <3>2, <3>3
  <2>3. ASSUME NEW k \in DOMAIN g, NEW i \in DOMAIN g[k], g[k][i].name = z, Ahead(k, i, n)
        PROVE  z \in BeforeIn(g, n)
    <3>1. <<k, i>> \in Places(g) /\ NamedAt(g, <<k, i>>) = z
      BY <1>2, <2>3
    <3>2. \A o \in Places(g) : NamedAt(g, o) = n => Earlier(<<k, i>>, o)
      BY <2>1, <2>3
    <3> QED BY <3>1, <3>2 DEF BeforeIn
  <2> QED BY <2>2, <2>3
<1>5. \A f, n, z : z \in First(f, n) <=>
        \E i \in DOMAIN f : f[i].name = z /\ \A j \in DOMAIN f : j <= i => f[j].name # n
  BY DEF First
<1>6. \A f : \A i, j \in DOMAIN f : DOMAIN f \subseteq Nat => (~ (j <= i) <=> i < j)
  OBVIOUS
<1>7. ASSUME NEW n \in NamesOf(x) PROVE BeforeIn(g, n) = First(x, n)
  <2>1. PICK y \in DOMAIN x : x[y].name = n
    BY DEF NamesOf
  <2>2. \A k \in DOMAIN g : \A i \in DOMAIN g[k] :
          Ahead(k, i, n) <=> k = 1 /\ \A j \in DOMAIN x : j <= i => x[j].name # n
    <3> TAKE k \in DOMAIN g
    <3> TAKE i \in DOMAIN g[k]
    <3>1. Ahead(k, i, n) => k = 1 /\ \A j \in DOMAIN x : j <= i => x[j].name # n
      <4> SUFFICES ASSUME Ahead(k, i, n) PROVE k = 1 /\ \A j \in DOMAIN x : j <= i => x[j].name # n
        OBVIOUS
      <4>1. k < 1 \/ (k = 1 /\ i < y)
        BY <1>1, <2>1
      <4>2. k = 1
        BY <1>1, <4>1
      <4>3. \A j \in DOMAIN x : x[j].name = n => i < j
        BY <1>1, <4>2
      <4> QED BY <1>1, <4>2, <4>3
    <3>2. ASSUME k = 1, \A j \in DOMAIN x : j <= i => x[j].name # n PROVE Ahead(k, i, n)
      <4> SUFFICES ASSUME NEW l \in DOMAIN g, NEW j \in DOMAIN g[l], g[l][j].name = n
                   PROVE  k < l \/ (k = l /\ i < j)
        OBVIOUS
      <4>1. CASE l = 1
        <5>1. ~ (j <= i) /\ i \in Nat /\ j \in Nat
          BY <1>1, <3>2, <4>1
        <5> QED BY <3>2, <4>1, <5>1
      <4>2. CASE l # 1
        BY <1>1, <3>2, <4>2
      <4> QED BY <4>1, <4>2
    <3> QED BY <3>1, <3>2
  <2> HIDE DEF Ahead
  <2>3. \A z : z \in BeforeIn(g, n) <=> z \in First(x, n)
    BY <1>1, <1>4, <1>5, <2>2
  <2> QED BY <2>3
<1>8. ASSUME NEW n \in NamesOf(b) \ NamesOf(x) PROVE BeforeIn(g, n) = NamesOf(x) \cup First(b, n)
  <2>1. PICK y \in DOMAIN b : b[y].name = n
    BY DEF NamesOf
  <2>0. \A j \in DOMAIN x : x[j].name # n
    BY DEF NamesOf
  <2>2. \A k \in DOMAIN g : \A i \in DOMAIN g[k] :
          Ahead(k, i, n) <=> k = 1 \/ (k = 2 /\ \A j \in DOMAIN b : j <= i => b[j].name # n)
    <3> TAKE k \in DOMAIN g
    <3> TAKE i \in DOMAIN g[k]
    <3>1. ASSUME Ahead(k, i, n) PROVE k = 1 \/ (k = 2 /\ \A j \in DOMAIN b : j <= i => b[j].name # n)
      <4>1. k < 2 \/ (k = 2 /\ i < y)
        BY <1>1, <2>1, <3>1
      <4>2. k = 1 \/ k = 2
        BY <1>1, <4>1
      <4>3. k = 2 => \A j \in DOMAIN b : b[j].name = n => i < j
        BY <1>1, <3>1
      <4> QED BY <1>1, <4>2, <4>3
    <3>2. ASSUME k = 1 \/ (k = 2 /\ \A j \in DOMAIN b : j <= i => b[j].name # n) PROVE Ahead(k, i, n)
      <4> SUFFICES ASSUME NEW l \in DOMAIN g, NEW j \in DOMAIN g[l], g[l][j].name = n
                   PROVE  k < l \/ (k = l /\ i < j)
        OBVIOUS
      <4>1. l # 1
        BY <1>1, <2>0
      <4>2. CASE k = 1
        BY <1>1, <4>1, <4>2
      <4>3. CASE k = 2 /\ l = 3
        BY <4>3
      <4>4. CASE k = 2 /\ l = 2
        <5>1. ~ (j <= i) /\ i \in Nat /\ j \in Nat
          BY <1>1, <3>2, <4>4
        <5> QED BY <4>4, <5>1
      <4> QED BY <1>1, <3>2, <4>1, <4>2, <4>3, <4>4
    <3> QED BY <3>1, <3>2
  <2> HIDE DEF Ahead
  <2>3. \A z : z \in BeforeIn(g, n) <=> z \in NamesOf(x) \/ z \in First(b, n)
    <3> TAKE z
    <3>1. z \in NamesOf(x) <=> \E i \in DOMAIN x : x[i].name = z
      BY DEF NamesOf
    <3> QED BY <1>1, <1>4, <1>5, <2>2, <3>1
  <2> QED BY <2>3
<1>9. ASSUME NEW n \in NamesOf(c) \ (NamesOf(x) \cup NamesOf(b))
      PROVE  BeforeIn(g, n) = NamesOf(x) \cup NamesOf(b) \cup First(c, n)
  <2>1. PICK y \in DOMAIN c : c[y].name = n
    BY DEF NamesOf
  <2>0. (\A j \in DOMAIN x : x[j].name # n) /\ \A j \in DOMAIN b : b[j].name # n
    BY DEF NamesOf
  <2>2. \A k \in DOMAIN g : \A i \in DOMAIN g[k] :
          Ahead(k, i, n) <=> k \in {1, 2} \/ (k = 3 /\ \A j \in DOMAIN c : j <= i => c[j].name # n)
    <3> TAKE k \in DOMAIN g
    <3> TAKE i \in DOMAIN g[k]
    <3>1. ASSUME Ahead(k, i, n) PROVE k \in {1, 2} \/ (k = 3 /\ \A j \in DOMAIN c : j <= i => c[j].name # n)
      <4>1. k = 3 => \A j \in DOMAIN c : c[j].name = n => i < j
        BY <1>1, <3>1
      <4> QED BY <1>1, <4>1
    <3>2. ASSUME k \in {1, 2} \/ (k = 3 /\ \A j \in DOMAIN c : j <= i => c[j].name # n) PROVE Ahead(k, i, n)
      <4> SUFFICES ASSUME NEW l \in DOMAIN g, NEW j \in DOMAIN g[l], g[l][j].name = n
                   PROVE  k < l \/ (k = l /\ i < j)
        OBVIOUS
      <4>1. l = 3
        BY <1>1, <2>0
      <4>2. CASE k \in {1, 2}
        BY <4>1, <4>2
      <4>3. CASE k = 3
        <5>1. ~ (j <= i) /\ i \in Nat /\ j \in Nat
          BY <1>1, <3>2, <4>1, <4>3
        <5> QED BY <4>1, <4>3, <5>1
      <4> QED BY <3>2, <4>2, <4>3
    <3> QED BY <3>1, <3>2
  <2> HIDE DEF Ahead
  <2>3. \A z : z \in BeforeIn(g, n) <=> z \in NamesOf(x) \/ z \in NamesOf(b) \/ z \in First(c, n)
    <3> TAKE z
    <3>1. /\ z \in NamesOf(x) <=> \E i \in DOMAIN x : x[i].name = z
          /\ z \in NamesOf(b) <=> \E i \in DOMAIN b : b[i].name = z
      BY DEF NamesOf
    <3> QED BY <1>1, <1>4, <1>5, <2>2, <3>1
  <2> QED BY <2>3
<1> QED BY <1>3, <1>7, <1>8, <1>9 DEF g

\* What Resolves says of a line l of the record r and the snapshot s.
KeptNames(r, s, n) == {k \in NamesIn(Given(r, s)) : Cardinality(BeforeIn(Given(r, s), k)) < n}
Strength(r, s) == <<Envelope, s.attributes, Xs(r), Gs(s), Identity>>
Having(r, s, kept, n) ==
  {p \in Places(Strength(r, s)) :
     NamedAt(Strength(r, s), p) = n /\ (p[1] \in 2 .. 4 => n \in kept)}
Resolved(l, r, s, kept) ==
  /\ NamesOf(l.members) = NamesOf(Envelope) \cup kept \cup NamesOf(Identity)
  /\ l.dropped = Cardinality(NamesIn(Given(r, s))) - Cardinality(kept)
  /\ \A m \in ToSet(l.members) : \A p \in Having(r, s, kept, m.name) :
       LET value == Strength(r, s)[p[1]][p[2]].value IN
       (\A q \in Having(r, s, kept, m.name) : ~ Earlier(p, q)) /\ m.name \notin Sensitive
           /\ {m.value[<<>>], value[<<>>]} \cap Short # {} =>
         m.value = value

LEMMA SourceDomains ==
  ASSUME NEW r \in Records, NEW s \in Snapshots
  PROVE  DOMAIN Xs(r) \subseteq Nat /\ DOMAIN s.attributes \subseteq Nat /\ DOMAIN Gs(s) \subseteq Nat
<1>1. IsSeq(Xs(r)) /\ IsSeq(s.attributes)
  BY RecordFacts, SnapshotFacts
<1>2. DOMAIN Xs(r) = 1 .. Len(Xs(r)) /\ DOMAIN s.attributes = 1 .. Len(s.attributes)
  BY <1>1 DEF IsSeq
<1> QED BY <1>2, SnapshotFacts

\* The kept attributes are the first names up to the limit.
LEMMA KeptFirst ==
  ASSUME NEW r \in Records, NEW s \in Snapshots, limit \in Int, limit >= 0, NEW stack
  PROVE  /\ KeptNames(r, s, limit) = NamesOf(Kept(r, s))
         /\ NamesIn(Given(r, s)) = NamesOf(Xs(r)) \cup NamesOf(s.attributes) \cup NamesOf(Gs(s))
         /\ Line(r, s, stack).dropped
              = Cardinality(NamesIn(Given(r, s))) - Cardinality(KeptNames(r, s, limit))
<1> DEFINE x == Xs(r)
           b == s.attributes
           c == Gs(s)
           g == Given(r, s)
           A == All(r, s)
           K == Kept(r, s)
<1>1. DOMAIN x \subseteq Nat /\ DOMAIN b \subseteq Nat /\ DOMAIN c \subseteq Nat /\ g = <<x, b, c>>
  BY SourceDomains DEF Given
<1>2. /\ IsSeq(A) /\ IsDict(A)
      /\ NamesOf(A) = NamesOf(x) \cup NamesOf(b) \cup NamesOf(c)
      /\ \A n \in NamesOf(x) : Prior(A, n) = First(x, n)
      /\ \A n \in NamesOf(b) \ NamesOf(x) : Prior(A, n) = NamesOf(x) \cup First(b, n)
      /\ \A n \in NamesOf(c) \ (NamesOf(x) \cup NamesOf(b)) : Prior(A, n) = NamesOf(x) \cup NamesOf(b) \cup First(c, n)
  BY AllFacts
<1>3. /\ IsSeq(K) /\ IsDict(K) /\ DOMAIN K = {i \in DOMAIN A : i <= limit}
      /\ \A i \in DOMAIN K : K[i].name = A[i].name
      /\ Dropped(Attributes(r, s)) = IF Len(A) > limit THEN Len(A) - limit ELSE 0
  BY KeptFacts
<1>31. g = Given(r, s) /\ K = Kept(r, s)
  OBVIOUS
<1> HIDE DEF x, b, c, g, A, K
<1>4. /\ NamesIn(g) = NamesOf(x) \cup NamesOf(b) \cup NamesOf(c)
      /\ \A n \in NamesOf(x) : BeforeIn(g, n) = First(x, n)
      /\ \A n \in NamesOf(b) \ NamesOf(x) : BeforeIn(g, n) = NamesOf(x) \cup First(b, n)
      /\ \A n \in NamesOf(c) \ (NamesOf(x) \cup NamesOf(b)) :
           BeforeIn(g, n) = NamesOf(x) \cup NamesOf(b) \cup First(c, n)
  BY <1>1, ThreeSources
<1>5. NamesIn(g) = NamesOf(A)
  BY <1>2, <1>4
<1>6. ASSUME NEW n \in NamesOf(A) PROVE BeforeIn(g, n) = Prior(A, n)
  <2>1. CASE n \in NamesOf(x)
    BY <1>2, <1>4, <2>1
  <2>2. CASE n \in NamesOf(b) \ NamesOf(x)
    BY <1>2, <1>4, <2>2
  <2>3. CASE n \in NamesOf(c) \ (NamesOf(x) \cup NamesOf(b))
    BY <1>2, <1>4, <2>3
  <2> QED BY <1>2, <2>1, <2>2, <2>3
<1>7. DOMAIN A = 1 .. Len(A) /\ Len(A) \in Nat /\ DOMAIN K = 1 .. Len(K) /\ Len(K) \in Nat
  <2>1. A \in Seq(ToSet(A)) /\ K \in Seq(ToSet(K))
    BY <1>2, <1>3 DEF IsSeq
  <2> HIDE <1>3
  <2> QED BY <2>1
<1>8. \A i \in DOMAIN A : A[i].name \in NamesOf(A) /\ Cardinality(Prior(A, A[i].name)) = i - 1
  BY <1>2, DictFacts
<1> DEFINE kept == {n \in NamesIn(g) : Cardinality(BeforeIn(g, n)) < limit}
<1>9. kept = NamesOf(K)
  <2>1. ASSUME NEW n \in kept PROVE n \in NamesOf(K)
    <3>1. n \in NamesOf(A) /\ Cardinality(Prior(A, n)) < limit
      BY <1>5, <1>6
    <3>2. PICK i \in DOMAIN A : A[i].name = n
      BY <3>1 DEF NamesOf
    <3>3. i - 1 < limit
      BY <1>8, <3>1, <3>2
    <3>4. i \in DOMAIN K /\ K[i].name = n
      BY <1>3, <1>7, <3>2, <3>3
    <3> QED BY <3>4 DEF NamesOf
  <2>2. ASSUME NEW i \in DOMAIN K PROVE K[i].name \in kept
    <3>1. i \in DOMAIN A /\ i <= limit /\ K[i].name = A[i].name /\ i \in Nat
      BY <1>3, <1>7
    <3>2. K[i].name \in NamesOf(A) /\ Cardinality(Prior(A, K[i].name)) = i - 1
      BY <1>8, <3>1
    <3>3. i - 1 < limit
      BY <3>1
    <3> QED BY <1>5, <1>6, <3>2, <3>3
  <2> HIDE DEF kept
  <2> QED BY <2>1, <2>2 DEF NamesOf
<1>10. KeptNames(r, s, limit) = kept
  BY <1>31 DEF KeptNames
<1> HIDE DEF kept
<1>11. Cardinality(NamesIn(g)) = Len(A) /\ Cardinality(kept) = Len(K)
  BY <1>2, <1>3, <1>5, <1>9, DictSize
<1>12. Len(K) = IF Len(A) > limit THEN limit ELSE Len(A)
  <2> DEFINE a == Len(A)
             k == Len(K)
             z == IF a > limit THEN limit ELSE a
  <2>1. a \in Nat /\ k \in Nat /\ 1 .. k = {i \in 1 .. a : i <= limit} /\ z \in Nat
    BY <1>3, <1>7
  <2> HIDE DEF a, k
  <2>2. {i \in 1 .. a : i <= limit} = 1 .. z
    BY <2>1
  <2> HIDE DEF z
  <2>3. k = z
    BY <2>1, <2>2, UpTo
  <2> QED BY <2>3 DEF a, k, z
<1>13. Line(r, s, stack).dropped = IF Len(A) > limit THEN Len(A) - limit ELSE 0
  BY <1>3 DEF Line
<1>14. Line(r, s, stack).dropped = Cardinality(NamesIn(g)) - Cardinality(kept)
  BY <1>7, <1>11, <1>12, <1>13
<1> QED BY <1>4, <1>9, <1>10, <1>14 DEF g, x, b, c, K

\* The last of a source's places has the value.
LEMMA LastPlace ==
  ASSUME NEW f, DOMAIN f \subseteq Nat, NEW n, NEW v, Val(f, n, v),
         NEW i \in DOMAIN f, f[i].name = n, \A j \in DOMAIN f : f[j].name = n => ~ (i < j)
  PROVE  f[i].value = v
<1>1. PICK j \in DOMAIN f : f[j].name = n /\ f[j].value = v /\ \A l \in DOMAIN f : j < l => f[l].name # n
  BY DEF Val
<1>2. ~ (i < j) /\ ~ (j < i) /\ i \in Nat /\ j \in Nat
  BY <1>1
<1>3. i = j
  BY <1>2
<1> QED BY <1>1, <1>3

\* A short text of the line is the value of the last place that has its name.
LEMMA Strongest ==
  ASSUME NEW r \in Records, NEW s \in Snapshots, limit \in Int, limit >= 0, NEW stack,
         NEW kept, kept = NamesOf(Kept(r, s)),
         NEW m \in ToSet(Line(r, s, stack).members),
         NEW p \in Having(r, s, kept, m.name),
         \A q \in Having(r, s, kept, m.name) : ~ Earlier(p, q),
         m.name \notin Sensitive,
         {m.value[<<>>], Strength(r, s)[p[1]][p[2]].value[<<>>]} \cap Short # {}
  PROVE  m.value = Strength(r, s)[p[1]][p[2]].value
<1> DEFINE n == m.name
           w == m.value
           S == Strength(r, s)
           k == p[1]
           i == p[2]
           v == S[k][i].value
           A == All(r, s)
           K == Kept(r, s)
<1>1. DOMAIN S = {1, 2, 3, 4, 5} /\ S[1] = Envelope /\ S[2] = s.attributes /\ S[3] = Xs(r) /\ S[4] = Gs(s)
      /\ S[5] = Identity
  BY DEF Strength
<1>2. DOMAIN S \subseteq Nat
  BY <1>1
<1>0. S = Strength(r, s) /\ K = Kept(r, s)
  OBVIOUS
<1> HIDE DEF S, A, K
<1>3. /\ \A l \in DOMAIN S : \A j \in DOMAIN S[l] : <<l, j>> \in Places(S) /\ NamedAt(S, <<l, j>>) = S[l][j].name
      /\ \A q \in Places(S) : /\ q[1] \in DOMAIN S /\ q[2] \in DOMAIN S[q[1]] /\ q = <<q[1], q[2]>>
                              /\ NamedAt(S, q) = S[q[1]][q[2]].name
  BY <1>2, PlacesFacts
<1>4. \A q : q \in Having(r, s, kept, n) <=>
        q \in Places(S) /\ NamedAt(S, q) = n /\ (q[1] \in 2 .. 4 => n \in kept)
  BY <1>0 DEF Having
<1>5. k \in DOMAIN S /\ i \in DOMAIN S[k] /\ p = <<k, i>> /\ S[k][i].name = n /\ (k \in 2 .. 4 => n \in kept)
  BY <1>3, <1>4
<1>6. ASSUME NEW l \in DOMAIN S, NEW j \in DOMAIN S[l], S[l][j].name = n, l \in 2 .. 4 => n \in kept
      PROVE  ~ (k < l) /\ (k = l => ~ (i < j))
  <2>1. <<l, j>> \in Having(r, s, kept, n)
    BY <1>3, <1>4, <1>6
  <2>2. ~ Earlier(p, <<l, j>>)
    BY <2>1
  <2> QED BY <2>2 DEF Earlier
<1>7. /\ \/ n \in NamesOf(Identity) /\ w = Leaf("identity")
         \/ n \notin NamesOf(Identity) \cup NamesOf(K) /\ w = Leaf("envelope")
         \/ /\ n \in NamesOf(K) \ NamesOf(Identity)
            /\ \E j \in DOMAIN K : K[j].name = n /\ Ends(CutValue(K[j].value), w)
  BY <1>0, MemberFacts
<1>8. {w[<<>>], v[<<>>]} \cap Short # {} /\ n \notin Sensitive /\ kept = NamesOf(K)
  BY <1>0
<1> HIDE DEF n, w, k, i
<1>9. CASE n \in NamesOf(Identity) /\ w = Leaf("identity")
  <2>1. PICK j \in DOMAIN Identity : Identity[j].name = n
    BY <1>9 DEF NamesOf
  <2>2. ~ (k < 5)
    <3>1. 5 \in DOMAIN S /\ j \in DOMAIN S[5] /\ S[5][j].name = n /\ 5 \notin 2 .. 4
      BY <1>1, <2>1
    <3> QED BY <1>6, <3>1
  <2>3. k = 5
    BY <1>1, <1>5, <2>2
  <2>4. v = Leaf("identity")
    BY <1>1, <1>5, <2>3, IdentityFacts, ItemFacts
  <2> QED BY <1>9, <2>4 DEF v, w, S, k, i
<1>10. CASE n \notin NamesOf(Identity) \cup NamesOf(K) /\ w = Leaf("envelope")
  <2>1. k # 5
    BY <1>1, <1>5, <1>10 DEF NamesOf
  <2>2. k \notin 2 .. 4
    BY <1>5, <1>8, <1>10
  <2>3. k = 1
    BY <1>1, <1>5, <2>1, <2>2
  <2>4. v = Leaf("envelope")
    BY <1>1, <1>5, <2>3, EnvelopeFacts, ItemFacts
  <2> QED BY <1>10, <2>4 DEF v, w, S, k, i
<1>11. CASE /\ n \in NamesOf(K) \ NamesOf(Identity)
            /\ \E j \in DOMAIN K : K[j].name = n /\ Ends(CutValue(K[j].value), w)
  <2>1. PICK o \in DOMAIN K : K[o].name = n /\ Ends(CutValue(K[o].value), w)
    BY <1>11
  <2>2. o \in DOMAIN A /\ A[o].name = n /\ KeptValue(A[o].value, n, K[o].value)
    BY <2>1, KeptFacts DEF A, K
  <2> DEFINE a == A[o].value
             e == K[o].value
             u == CutValue(e)
  <2>3. Keeps(a, e) /\ IsTree(e) /\ Ends(u, w)
    BY <1>8, <2>1, <2>2 DEF KeptValue
  <2>4. Keeps(a, w)
    <3>1. Carries(e, u)
      BY <2>3, CutCarries
    <3> HIDE DEF a, e, u
    <3> QED BY <2>3, <3>1 DEF Ends, Carries, Keeps
  <2>5. IsSeq(A) /\ IsDict(A) /\ n \in NamesOf(Xs(r)) \cup NamesOf(s.attributes) \cup NamesOf(Gs(s))
        /\ \A z : Val(A, n, z) =>
             /\ n \in NamesOf(Gs(s)) => Val(Gs(s), n, z)
             /\ n \in NamesOf(Xs(r)) \ NamesOf(Gs(s)) =>
                  IF n \in Sensitive THEN z = REDACTED ELSE Val(Xs(r), n, z)
             /\ n \notin NamesOf(Gs(s)) \cup NamesOf(Xs(r)) => Val(s.attributes, n, z)
    <3>1. n \in NamesOf(A)
      BY <2>2 DEF NamesOf
    <3>2. IsSeq(A) /\ IsDict(A) /\ NamesOf(A) = NamesOf(Xs(r)) \cup NamesOf(s.attributes) \cup NamesOf(Gs(s))
          /\ \A z : Val(A, n, z) =>
               /\ n \in NamesOf(Gs(s)) => Val(Gs(s), n, z)
               /\ n \in NamesOf(Xs(r)) \ NamesOf(Gs(s)) =>
                    IF n \in Sensitive THEN z = REDACTED ELSE Val(Xs(r), n, z)
               /\ n \notin NamesOf(Gs(s)) \cup NamesOf(Xs(r)) => Val(s.attributes, n, z)
      BY AllFacts DEF A
    <3> QED BY <3>1, <3>2
  <2>6. Val(A, n, a)
    BY <2>2, <2>5, DictFacts
  <2> HIDE DEF a, e, u
  <2>7. \A l \in 2 .. 4 : \A j \in DOMAIN S[l] : S[l][j].name = n => ~ (k < l) /\ (k = l => ~ (i < j))
    BY <1>1, <1>6, <1>8, <1>11
  <2>8. k # 5
    BY <1>1, <1>5, <1>11 DEF NamesOf
  <2>9. n \in NamesOf(Gs(s)) => ~ (k < 4)
    BY <1>1, <2>7 DEF NamesOf
  <2>10. n \in NamesOf(Xs(r)) => ~ (k < 3)
    BY <1>1, <2>7 DEF NamesOf
  <2>11. n \in NamesOf(s.attributes) => ~ (k < 2)
    BY <1>1, <2>7 DEF NamesOf
  <2>12. /\ k = 4 => n \in NamesOf(Gs(s))
         /\ k = 3 => n \in NamesOf(Xs(r))
    BY <1>1, <1>5 DEF NamesOf
  <2>13. k \in 2 .. 4
    BY <1>1, <1>5, <2>5, <2>8, <2>9, <2>10, <2>11
  <2>14. v = a
    <3>1. DOMAIN Xs(r) \subseteq Nat /\ DOMAIN s.attributes \subseteq Nat /\ DOMAIN Gs(s) \subseteq Nat
      BY SourceDomains
    <3>2. i \in DOMAIN S[k] /\ S[k][i].name = n /\ \A j \in DOMAIN S[k] : S[k][j].name = n => ~ (i < j)
      BY <1>5, <2>7, <2>13
    <3>3. Val(S[k], n, a) /\ DOMAIN S[k] \subseteq Nat
      <4>1. CASE k = 4
        BY <1>1, <2>5, <2>6, <2>12, <3>1, <4>1
      <4>2. CASE k = 3
        <5>1. n \in NamesOf(Xs(r)) \ NamesOf(Gs(s))
          BY <2>9, <2>12, <4>2
        <5> QED BY <1>1, <1>8, <2>5, <2>6, <3>1, <4>2, <5>1
      <4>3. CASE k = 2
        <5>1. n \notin NamesOf(Gs(s)) \cup NamesOf(Xs(r))
          BY <2>9, <2>10, <4>3
        <5> QED BY <1>1, <2>5, <2>6, <3>1, <4>3, <5>1
      <4> QED BY <2>13, <4>1, <4>2, <4>3
    <3> DEFINE f == S[k]
    <3>4. i \in DOMAIN f /\ f[i].name = n /\ (\A j \in DOMAIN f : f[j].name = n => ~ (i < j))
          /\ Val(f, n, a) /\ DOMAIN f \subseteq Nat
      BY <3>2, <3>3
    <3> HIDE DEF f
    <3>5. f[i].value = a
      BY <3>4, LastPlace
    <3> QED BY <3>5 DEF f
  <2>15. w = v
    <3>1. Short \subseteq Fixed
      BY DEF Fixed
    <3> HIDE DEF v
    <3> QED BY <1>8, <2>4, <2>14, <3>1 DEF Keeps
  <2> QED BY <2>15 DEF v, w, S, k, i
<1> QED BY <1>7, <1>9, <1>10, <1>11

\* A line is what the sources say.
LEMMA LineResolved ==
  ASSUME NEW r \in Records, NEW s \in Snapshots, limit \in Int, limit >= 0, NEW stack
  PROVE  Resolved(Line(r, s, stack), r, s, KeptNames(r, s, limit))
<1> DEFINE l == Line(r, s, stack)
           kept == KeptNames(r, s, limit)
<1>1. kept = NamesOf(Kept(r, s)) /\ l.dropped = Cardinality(NamesIn(Given(r, s))) - Cardinality(kept)
  BY KeptFirst
<1>2. NamesOf(l.members) = NamesOf(Envelope) \cup NamesOf(Kept(r, s)) \cup NamesOf(Identity)
  BY LineMembers
<1> HIDE DEF kept
<1>3. ASSUME NEW m \in ToSet(l.members), NEW p \in Having(r, s, kept, m.name),
             \A q \in Having(r, s, kept, m.name) : ~ Earlier(p, q), m.name \notin Sensitive,
             {m.value[<<>>], Strength(r, s)[p[1]][p[2]].value[<<>>]} \cap Short # {}
      PROVE  m.value = Strength(r, s)[p[1]][p[2]].value
  <2>1. m \in ToSet(Line(r, s, stack).members) /\ kept = NamesOf(Kept(r, s))
    BY <1>1
  <2> HIDE DEF l
  <2> QED BY <1>3, <2>1, Strongest
<1> HIDE DEF l
<1>4. Resolved(l, r, s, kept)
  BY <1>1, <1>2, <1>3 DEF Resolved
<1> QED BY <1>4 DEF l, kept

Matches ==
  line # None /\ limit >= 0 =>
    Resolved(line, at.record, at.snapshot, KeptNames(at.record, at.snapshot, limit))

\* LRC-010, TCP-007: which names src/semlog/_format.py keeps, what it counts as dropped and
\* whose value it writes are those of the attributes it was given.
THEOREM Resolution == Spec => []Resolves
<1>1. Init => Matches
  BY DEF Init, Matches
<1>2. ASSUME Matches, Configured, [Next]_vars PROVE Matches'
  <2>1. CASE Hand
    BY <2>1 DEF Hand, Matches
  <2>2. ASSUME NEW r \in Records, NEW s \in Snapshots, Format(r, s) PROVE Matches'
    <3> DEFINE l == Line(r, s, HasStack(r))
    <3>1. (line' = None \/ line' = l) /\ limit' = limit /\ at' = [record |-> r, snapshot |-> s]
      BY <2>2 DEF Format, config
    <3>2. limit >= 0 => Resolved(l, r, s, KeptNames(r, s, limit))
      BY <1>2, LineResolved DEF Configured
    <3> HIDE DEF l
    <3>3. CASE line' = None
      BY <3>3 DEF Matches
    <3>4. CASE line' = l
      BY <3>1, <3>2, <3>4 DEF Matches
    <3> QED BY <3>1, <3>3, <3>4
  <2>3. CASE UNCHANGED vars
    BY <1>2, <2>3 DEF Matches, vars, config
  <2> QED BY <1>2, <2>1, <2>2, <2>3 DEF Next
<1>3. Matches => Resolves
  BY DEF Matches, Resolves, Resolved, KeptNames, Having, Strength, NamesIn, BeforeIn, Given, Xs, Gs
<1> QED BY <1>1, <1>2, <1>3, ConfiguredAlways, PTL DEF Spec
=============================================================================
