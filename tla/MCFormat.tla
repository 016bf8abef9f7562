------------------------------ MODULE MCFormat ------------------------------
\* Instances of Format for TLC: what may be logged, bound and received.
EXTENDS Format, TLC

CONSTANTS e1, e2

MCName == "user" :> "app.user" @@ "app.user" :> "app.user" @@ "password" :> "app.password"
            @@ "service.name" :> "service.name"
MCPrefixed == "user" :> "app.user" @@ "password" :> "app.password" @@ "other" :> "app.other"
MCSensitive == {"password", "app.password"}
MCDeclared == "known" :> {"app.user"}
MCIdentity == <<Item("service.name", Leaf("identity"))>>

Map(items) ==
  LET At(p) == CHOOSE x \in ToSet(items) : x.name = Head(p)
      paths == UNION {{<<x.name>> \o p : p \in DOMAIN x.value} : x \in ToSet(items)}
  IN [p \in paths \cup {<<>>} |-> IF p = <<>> THEN "map" ELSE At(p).value[Tail(p)]]

Inner == Map(<<Item("password", Leaf("long")), Item("x", Leaf("long"))>>)
Values == {Leaf("extra"), Leaf("long"), Leaf("object"), Leaf("enum"), Leaf("bytes"), Inner}
Nested == {Leaf("nan"), Map(<<Item("x", Inner)>>), Map(<<Item("x", Inner), Item("y", Leaf("nan"))>>),
           Map(<<Item("x", Map(<<Item("x", Inner)>>))>>),
           Map(<<Item("x", Leaf("enum")), Item("y", Leaf("object")), Item("z", Leaf("bytes"))>>)}

Keys == DOMAIN MCName
One(values) == {<<Item(k, v)>> : k \in Keys, v \in values}
Two == {<<Item(p[1], v), Item(p[2], w)>> :
          p \in {q \in Keys \X Keys : q[1] # q[2]}, v \in Values \ {Leaf("enum")}, w \in {Leaf("extra"), Leaf("object"), Inner}}

MCRecords ==
  {[event |-> "known", extras |-> x, exc |-> None] : x \in {<<>>} \cup One(Values \cup Nested) \cup Two}
    \cup {[event |-> v, extras |-> <<>>, exc |-> x] : v \in {"known", "unknown", None}, x \in {e1, e2}}

Member(k, n, ok) == [key |-> k, value |-> Leaf("baggage"), size |-> n, valid |-> ok]
Headers == {<<>>, <<Member("user", 1, TRUE)>>, <<Member("other", 1, TRUE), Member("user", 1, TRUE)>>,
            <<Member("password", 1, FALSE), Member("other", 3, TRUE), Member("user", 1, TRUE)>>,
            <<Member("hidden", 1, TRUE), Member("password", 1, TRUE), Member("user", 1, TRUE)>>}
Bound == {<<>>} \cup {<<Item(n, Leaf("bound"))>> : n \in {"app.user", "password", "trace_id"}}
           \cup {<<Item("app.user", Inner)>>, <<Item("trace_id", Leaf("object"))>>}
MCSnapshots == {[attributes |-> b, header |-> h] : b \in Bound, h \in Headers}
MCAllowed == {"user", "other", "password"}
MCLimits == {-1, 1, 2}
=============================================================================
