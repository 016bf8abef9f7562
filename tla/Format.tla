------------------------------- MODULE Format -------------------------------
(***************************************************************************)
(* src/semlog/_format.py: Formatter.format, which makes one line of a      *)
(* record, of what is bound around the call and of the identity; with the  *)
(* inbound baggage of src/semlog/_baggage.py.  Texts, times and      *)
(* escapes are left out.                                                   *)
(***************************************************************************)
EXTENDS Integers, Sequences, FiniteSets, SequencesExt

CONSTANTS
  Records,     \* [event, extras, exc]: what a call site may log
  Snapshots,   \* [attributes, header]: what may be bound around it
  Identity,    \* the identity's members
  Name,        \* of a call site's key: dotted as it is, else in the namespace
  Prefixed,    \* of a baggage key: behind baggage_prefix
  Sensitive,   \* names and keys that redaction knows
  Declared,    \* the catalog: of each event it has, the names of its attributes
  Allowed,     \* baggage_allow
  Slotted,     \* exceptions that take no new attribute
  MaxDepth,    \* _MAX_RECURSION_DEPTH
  MaxMembers, MaxBytes,  \* _MAX_MEMBERS, _MAX_BYTES
  Limits,      \* what max_attributes may be; the environment may say a negative one
  None

VARIABLES
  strict,    \* catalog_mode is "strict"; "warn" adds a line of its own
  limit,     \* max_attributes
  cutting,   \* max_attribute_length is set; it is shorter than a "long" text
  rendered,  \* the exceptions with _STACKTRACE_RENDERED_MARKER
  at,        \* history: what format() was called with; None between two calls
  line,      \* what it has returned; None if it has raised
  stacks,    \* history: how often, up to 2, an exception's stack trace was in a line
  shown,     \* history: the exceptions that were in a line
  lost       \* history: the exceptions in whose records it has raised

config == <<strict, limit, cutting>>
vars == <<config, rendered, at, line, stacks, shown, lost>>

Exceptions == {r.exc : r \in Records} \ {None}

-----------------------------------------------------------------------------
\* A value is the kind of each of its parts, by the path of keys that leads there; the
\* code visits the parts by recursion, and what it does at one depends on its path alone.
\* "object": no JSON type, its str() is long.  "enum": its value is nan.  "bytes" are
\* longer than the limit; they pass for JSON until the encoder makes base64 of them.
Leaf(kind) == [p \in {<<>>} |-> kind]
Item(name, value) == [name |-> name, value |-> value]

\* The short ones are named for where they come from.
Short == {"envelope", "extra", "bound", "baggage", "identity"}
Scalar == Short \cup {"long", "nan"}
REDACTED == Leaf("redacted")

IsValue(v) ==
  /\ v = [p \in DOMAIN v |-> v[p]] /\ <<>> \in DOMAIN v
  /\ \A p \in DOMAIN v : v[p] \in Scalar \cup {"object", "enum", "bytes", "map"}
  /\ v[<<>>] # "map" => DOMAIN v = {<<>>}

\* From depth 1 on: the i-th key of a path is one of a dict at depth i.
Hidden(p) == {i \in 1 .. Len(p) : i <= MaxDepth /\ p[i] \in Sensitive}
Redact(v) ==
  [p \in {q \in DOMAIN v : Hidden(q) \subseteq {Len(q)}} |->
     IF Hidden(p) = {} THEN v[p] ELSE "redacted"]

\* From depth 0 on.  Bytes are cut as they are, before anyone makes a text of them.
Shortened(kind) == CASE kind = "long"  -> "cut"
                     [] kind = "bytes" -> "cut bytes"
                     [] OTHER          -> kind
Truncate(v) == [p \in DOMAIN v |-> IF Len(p) <= MaxDepth THEN Shortened(v[p]) ELSE v[p]]

\* What is not JSON-native, which bytes are, becomes a value that is.
Coerce(kind) == CASE kind = "object" -> "long"
                  [] kind = "enum"   -> "nan"
                  [] OTHER           -> kind

\* From depth 1 on, which is an attribute's in the envelope.
Sanitize(v, coerce) ==
  LET Finite(kind) == IF kind = "nan" THEN "NaN" ELSE kind IN
  [p \in {q \in DOMAIN v : Len(q) <= MaxDepth} |->
     IF Len(p) = MaxDepth THEN "deep" ELSE Finite(IF coerce THEN Coerce(v[p]) ELSE v[p])]

\* JSONEncoder.encode with default=_coerce_scalar, or ValueError.
Text(kind) == CASE kind = "bytes"     -> "base64"
                [] kind = "cut bytes" -> "cut base64"
                [] OTHER              -> Coerce(kind)
Encodes(v) == \A p \in DOMAIN v : Text(v[p]) # "nan"
Encoded(v) == [p \in DOMAIN v |-> Text(v[p])]

-----------------------------------------------------------------------------
\* Dicts: sequences of members, each name once.
NamesOf(d) == {d[i].name : i \in DOMAIN d}
IsDict(d) == \A i, j \in DOMAIN d : d[i].name = d[j].name => i = j
Put(d, m) == IF m.name \in NamesOf(d)
             THEN [i \in DOMAIN d |-> IF d[i].name = m.name THEN m ELSE d[i]]
             ELSE Append(d, m)

\* The members that have one of the names are assigned, one after the other.
Assign(d, members, names) ==
  LET u[i \in 0 .. Len(members)] ==
        IF i = 0 THEN d
        ELSE IF members[i].name \in names THEN Put(u[i - 1], members[i]) ELSE u[i - 1]
  IN u[Len(members)]
Update(d, members) == Assign(d, members, NamesOf(members))

\* d[: n]
Slice(d, n) == SubSeq(d, 1, IF n < 0 THEN Len(d) + n ELSE IF n > Len(d) THEN Len(d) ELSE n)

\* parse_baggage: malformed members are skipped, the first one beyond a limit ends it.
Taken(acc, m) ==
  IF acc.end \/ Len(acc.members) >= MaxMembers THEN acc
  ELSE IF acc.bytes + m.size > MaxBytes THEN [acc EXCEPT !.end = TRUE]
  ELSE IF ~ m.valid THEN acc
  ELSE [acc EXCEPT !.members = Append(@, Item(m.key, m.value)), !.bytes = @ + m.size]

Parse(header) ==
  LET taken[i \in 0 .. Len(header)] ==
        IF i = 0 THEN [members |-> <<>>, bytes |-> 0, end |-> FALSE]
        ELSE Taken(taken[i - 1], header[i])
  IN taken[Len(header)].members

HoldsValues(d) ==
  /\ d \in Seq(ToSet(d))
  /\ \A i \in DOMAIN d : d[i] = Item(d[i].name, d[i].value) /\ IsValue(d[i].value)

\* What the code is given: a record's extras and the bound attributes are dicts, a prefix
\* keeps keys apart, and the identity's members are texts that the process chose.
ASSUME FormatAssumption ==
  /\ MaxDepth \in Nat \ {0} /\ MaxMembers \in Nat /\ MaxBytes \in Nat /\ Limits \subseteq Int
  /\ \A r \in Records :
       /\ IsDict(r.extras) /\ HoldsValues(r.extras)
       /\ NamesOf(r.extras) \subseteq DOMAIN Name
  /\ \A s \in Snapshots :
       /\ IsDict(s.attributes) /\ HoldsValues(s.attributes)
       /\ s.header \in Seq(ToSet(s.header))
       /\ \A m \in ToSet(s.header) : m.size \in Nat /\ m.valid \in BOOLEAN /\ IsValue(m.value)
  /\ Allowed \subseteq DOMAIN Prefixed
  /\ \A k, l \in DOMAIN Prefixed : Prefixed[k] = Prefixed[l] => k = l
  /\ IsDict(Identity) /\ HoldsValues(Identity)
  /\ \A i \in DOMAIN Identity : Identity[i].value = Leaf("identity")

\* to_log_attributes, and the prefix format() gives them.
Baggage(s) ==
  LET allowed == Assign(<<>>, Parse(s.header), Allowed)
  IN [i \in DOMAIN allowed |-> Item(Prefixed[allowed[i].name], allowed[i].value)]

\* The pass over the call site's extras, and the names it leaves for the slow path.
Extras(r) ==
  Update(<<>>, [i \in DOMAIN r.extras |->
    LET n == Name[r.extras[i].name] IN
    Item(n, IF n \in Sensitive THEN REDACTED ELSE r.extras[i].value)])

SlowExtras(r) == {Name[x.name] : x \in {y \in ToSet(r.extras) :
                    Name[y.name] \notin Sensitive /\ y.value[<<>>] \notin Scalar}}

\* Bound context never overrides a call-site attribute; baggage does.
Context(r, s) ==
  Update(Assign(<<>>, s.attributes, NamesOf(s.attributes) \ NamesOf(Extras(r))), Baggage(s))

WrongSlow(r, s) == SlowExtras(r)
Slow(r, s) == SlowExtras(r) \cup NamesOf(Context(r, s))

Redacted(d, slow) ==
  [i \in DOMAIN d |->
     IF d[i].name \notin slow THEN d[i]
     ELSE Item(d[i].name, IF d[i].name \in Sensitive THEN REDACTED ELSE Redact(d[i].value))]

Coerced(d, slow) ==
  [i \in DOMAIN d |-> IF d[i].name \in slow
                      THEN Item(d[i].name, [d[i].value EXCEPT ![<<>>] = Coerce(@)])
                      ELSE d[i]]

Cut(d) == IF cutting THEN [i \in DOMAIN d |-> Item(d[i].name, Truncate(d[i].value))] ELSE d

WrongDropped(d) == IF Len(d) >= limit THEN Len(d) - limit + 1 ELSE 0
Dropped(d) == IF Len(d) > limit THEN Len(d) - limit ELSE 0

\* The envelope's own members that a dotted or bound name may meet.
Envelope == <<Item("trace_id", Leaf("envelope")), Item("otel.scope.name", Leaf("envelope"))>>

\* The identity's text is spliced in as it is, unless one of its names is taken.
WrongSplice(d) == d \o Identity
Splice(d) == IF NamesOf(d) \cap NamesOf(Identity) = {} THEN d \o Identity ELSE Update(d, Identity)

Encode(d) ==
  LET All(coerce) == [i \in DOMAIN d |-> Item(d[i].name, Sanitize(d[i].value, coerce))]
      Can(e) == \A i \in DOMAIN e : Encodes(e[i].value)
  IN CASE Can(d) -> d
       [] ~ Can(d) /\ Can(All(FALSE)) -> All(FALSE)
       [] OTHER -> All(TRUE)

\* What the steps of format() make of a record, one after the other.
Attributes(r, s) == Redacted(Update(Extras(r), Context(r, s)), Slow(r, s))

Kept(r, s) ==
  LET all == Attributes(r, s)
  IN Coerced(IF Dropped(all) > 0 THEN Slice(all, limit) ELSE all, Slow(r, s))

Whole(r, s) == Encode(Splice(Update(Envelope, Cut(Kept(r, s)))))

Line(r, s, stack) ==
  LET whole == Whole(r, s)
      kept  == Kept(r, s)
  IN [members   |-> [i \in DOMAIN whole |-> Item(whole[i].name, Encoded(whole[i].value))],
      dropped   |-> Dropped(Attributes(r, s)),
      truncated |-> Cardinality({i \in DOMAIN kept : Cut(kept)[i] # kept[i]}),
      stack     |-> stack]

\* _catalog_violations: free text is never checked.
Violates(r) ==
  /\ r.event # None
  /\ r.event \in DOMAIN Declared => ~ NamesOf(Extras(r)) \subseteq Declared[r.event]

-----------------------------------------------------------------------------
Init ==
  /\ strict \in BOOLEAN /\ limit \in Limits /\ cutting \in BOOLEAN
  /\ rendered = {} /\ at = None /\ line = None
  /\ stacks = [e \in Exceptions |-> 0] /\ shown = {} /\ lost = {}

\* Bound: records without an exception, which leave nothing behind, are tried before
\* those with one.
OnlyFirst == shown \cup lost = {}

\* format(record).  The marker is set before the catalog is looked at.
WrongHasStack(r) == r.exc # None
HasStack(r) == r.exc # None /\ r.exc \notin rendered

Format(r, s) ==
  LET raises == strict /\ Violates(r) IN
  /\ at = None
  /\ r.exc = None => OnlyFirst
  /\ at' = [record |-> r, snapshot |-> s]
  /\ line' = IF raises THEN None ELSE Line(r, s, HasStack(r))
  /\ rendered' = rendered \cup ({r.exc} \ (Slotted \cup {None}))
  /\ stacks' = IF HasStack(r) /\ ~ raises
              THEN [stacks EXCEPT ![r.exc] = IF @ < 2 THEN @ + 1 ELSE 2]
              ELSE stacks
  /\ shown' = IF raises THEN shown ELSE shown \cup ({r.exc} \ {None})
  /\ lost' = IF raises THEN lost \cup ({r.exc} \ {None}) ELSE lost
  /\ UNCHANGED config

\* The handler takes the line, or logging.Handler.handleError the exception.
Hand ==
  /\ at # None
  /\ at' = None /\ line' = None
  /\ UNCHANGED <<config, rendered, stacks, shown, lost>>

Next == Hand \/ \E r \in Records, s \in Snapshots : Format(r, s)
Spec == Init /\ [][Next]_vars
-----------------------------------------------------------------------------
\* LP-005: no value under a sensitive name is in a line, at any depth up to the cap,
\* whether it was logged, bound or received, kept, coerced or sanitized; what sanitizing
\* replaces for its depth was redacted before.
Hides(v) ==
  \A p \in DOMAIN v : \A i \in 1 .. Len(p) :
    i <= MaxDepth /\ p[i] \in Sensitive => i = Len(p) /\ v[p] \in {"redacted", "deep"}

NothingBare ==
  line # None =>
    \A m \in ToSet(line.members) \ (ToSet(Envelope) \cup ToSet(Identity)) :
      IF m.name \in Sensitive THEN m.value = REDACTED ELSE Hides(m.value)

\* LRC-010, TCP-007: the members are those of the envelope, of the identity and the first
\* attributes up to the limit, in the order call site, bound, baggage; what is left out is
\* counted.  A name that several have is the identity's, else the baggage's, else the call
\* site's, where the later wins, else what was bound, else the envelope's.
Received(header) ==
  LET bytes[i \in 0 .. Len(header)] ==
        IF i = 0 THEN 0 ELSE bytes[i - 1] + (IF header[i].valid THEN header[i].size ELSE 0)
  IN {i \in DOMAIN header :
        /\ header[i].valid /\ header[i].key \in Allowed
        /\ Cardinality({j \in 1 .. i - 1 : header[j].valid}) < MaxMembers
        /\ \A j \in 1 .. i : bytes[j - 1] + header[j].size <= MaxBytes}

\* The places of several sources, one after the other.
Places(sources) == UNION {{k} \X DOMAIN sources[k] : k \in DOMAIN sources}
Earlier(p, q) == p[1] < q[1] \/ (p[1] = q[1] /\ p[2] < q[2])
NamedAt(sources, p) == sources[p[1]][p[2]].name

Resolves ==
  line # None /\ limit >= 0 =>
    LET header  == at.snapshot.header
        extras  == [i \in DOMAIN at.record.extras |->
                      Item(Name[at.record.extras[i].name], at.record.extras[i].value)]
        bound   == at.snapshot.attributes
        baggage == [i \in Received(header) |-> Item(Prefixed[header[i].key], header[i].value)]
        given   == <<extras, bound, baggage>>
        names   == {NamedAt(given, p) : p \in Places(given)}
        Before(n) == {NamedAt(given, p) : p \in {q \in Places(given) :
                        \A o \in Places(given) : NamedAt(given, o) = n => Earlier(q, o)}}
        kept    == {n \in names : Cardinality(Before(n)) < limit}
        strength == <<Envelope, bound, extras, baggage, Identity>>
        Has(n)  == {p \in Places(strength) :
                      NamedAt(strength, p) = n /\ (p[1] \in 2 .. 4 => n \in kept)}
        Wins(p, n) == \A q \in Has(n) : ~ Earlier(p, q)
    IN /\ NamesOf(line.members) = NamesOf(Envelope) \cup kept \cup NamesOf(Identity)
       /\ line.dropped = Cardinality(names) - Cardinality(kept)
       /\ \A m \in ToSet(line.members) : \A p \in Has(m.name) :
            LET value == strength[p[1]][p[2]].value IN
            Wins(p, m.name) /\ m.name \notin Sensitive
                /\ {m.value[<<>>], value[<<>>]} \cap Short # {} =>
              m.value = value

\* LRC-001, 009, 010: whatever was logged, the line is one JSON object with each name
\* once and has no value that JSON has not; with a limit of length no attribute is a text
\* of more characters or made of more bytes (the base64 of which is longer than what was
\* cut: tests/test_limits.py:96-105), and what was cut is counted.
KindsOf(v) == {v[p] : p \in DOMAIN v}
NoJSON == {"object", "enum", "nan", "bytes", "cut bytes"}
CutTexts == {"cut", "cut base64"}

Conformant ==
  line # None =>
    /\ IsDict(line.members)
    /\ \A m \in ToSet(line.members) :
         /\ KindsOf(m.value) \cap NoJSON = {}
         /\ cutting => m.value[<<>>] \notin {"long", "base64"}
    /\ line.truncated >=
         Cardinality({m \in ToSet(line.members) : KindsOf(m.value) \cap CutTexts # {}})

\* LP-004: an exception that takes the marker has its stack trace in one line, the first
\* that is made of it, unless format() has raised for a record of it: its stack trace is
\* then in none (README, section 6).
StackOnce ==
  \A e \in Exceptions \ Slotted :
    /\ stacks[e] <= 1
    /\ e \in shown \ lost => stacks[e] = 1
=============================================================================
