# Verification of semlog

semlog is a structured-logging library for Python built on the standard
library alone. A program calls `configure()`; from then on every record of
`logging` becomes one JSON line, enriched with the request's context, that a
background thread writes to stdout. This directory holds TLA+ models of that
program, the TLC configurations that check them and the proofs TLAPS checks.

The reference is the code under `src/`; where a document disagrees with it, the
model follows the code and section 6 has the disagreement: as a run that is
expected to fail, or as the formula and the instance that show it.

## 1. Inventory

| component | code | state it keeps | operations |
|---|---|---|---|
| transport, steady state | `src/semlog/_transport.py` | `_state.handler/writer`; per handler: queue, `_started`, `_start_lock`, `counters.dropped`; per writer: `_reported`, its thread | `emit`, `Writer.handle`, `_report_drops`, `_start_writer`, `flush` |
| transport, lifecycle | `src/semlog/_transport.py` | the same, `_state.was_running`, the root logger's handler list | `install`, `attach_root`, the three at-fork hooks, `_shutdown` |
| modes and configuration | `_config.py`, `_modes.py` | current mode, the routing filter, marks on records, captured loggers | `configure` in `full`, `hybrid` and `off` mode, hybrid routing |
| request context | `_context.py` | the `ContextVar` with one immutable snapshot per context, the tokens of its scopes | `operation()`, `bind`, `inject`, push and pop |
| HTTP integrations | `_middleware.py` | per request: its token, the exception it has seen, the body that is still to be taken | WSGI, ASGI, Django and aiohttp middlewares, streamed bodies, exceptions, the completion event |
| Celery | `_celery.py` | `_scopes` by `id(request)`, the messages' headers | publish, prerun and postrun signals; who owns the worker's loggers |
| request id | `_request_id.py`, `_uuid7_fallback.py` | last millisecond and 42-bit counter under a lock | make an id |
| formatter | `_format.py` | a mark on each exception whose stack trace is written, the catalog | precedence, redaction, limits, coercion, the encoder's fallbacks |
| baggage and trace | `_baggage.py`, `_trace.py` | none | parse `baggage` and `traceparent` |
| identity | `_identity.py` | the resolved service attributes | read environment and package metadata |
| release policy | `tools/release_policy.py`, `version-check.yml`, `tag.yml`, `release.yml` | versions on main, tags, runs, what PyPI has | check a pull request, tag a merge, publish |
| command line, schemas, benchmark | `__main__.py`, `schemas/`, `benchmark/` | none of interest | print the guide; measure |

How they interact. `configure()` calls `install()` (which may stop the previous
writer) and `attach_root()`; application threads call `SemlogQueueHandler.emit`
through the root logger and never write; the `Writer` thread alone writes to
stdout. The middlewares, `operation()` and the Celery signals push and pop the
snapshots that the formatter reads when `emit` calls `prepare`, and all of them
look at the mode that `configure()` may change under them. `os.fork` enters the transport
through three hooks, interpreter exit through `atexit`.

What is hard in it:

* threads: two first emits race for the start of the writer; the `drop` policy
  looks at `qsize()` and puts in a second step; the writer reads the drop
  counter that call sites increment; `flush()` travels through the same bounded
  queue as the lines it waits for;
* lifetime: a fork stops and restarts the writer and resets the child; a second
  `configure()` replaces queue, handler and writer under running threads;
  shutdown drains within a deadline and then swaps handlers;
* failure: formatting, resolving the stream, `write`, `flush` and
  `Thread.start()` may raise, and logging must neither raise nor lose count;
* order: `_reported` moves before the notice is written, a body is taken after
  its request has returned and in turns with other requests, an `id()` is used
  again while its scope is still kept, the clock goes back, a run of one merge
  overtakes that of an earlier one;
* combinations: what is redacted, cut, coerced and replaced in one line depends
  on where each of its values came from.

What makes each component correct is in section 2 as the properties of its
module; the hazards, each at its line, are listed in `PROJECT.json`.

## 2. What is modelled

| module | what it is |
|---|---|
| `LogChannel` | the promise: a bounded channel that hands each accepted line to the stream once, in order |
| `Transport` | emit, the writer thread and `flush()`, with every interleaving of any number of threads |
| `TransportProofs` | theorems about `Transport`, for every number of threads and every queue size, and that each of its pipelines is a `LogChannel` |
| `ModesProofs` | theorems about `Modes`, for any handlers, any threads and any depth of nesting |
| `Lifecycle` | extends `Transport` with fork, a further `configure()` and shutdown |
| `LifecycleProofs` | theorems about `Lifecycle`, for any number of threads, pipelines and jobs |
| `Modes` | the `semlog=True` keyword, hybrid routing and the switches of `configure()`, under threads that log |
| `Context` | `ContextVar`, tokens, `operation()`, `bind`, in any number of contexts |
| `Requests`, `Celery` | extend `Context` with the four middlewares, and with tasks |
| `Scopes` | composes the two: everything in one process that binds a scope |
| `ScopeStack` | the promise of the three: a stack of snapshots per context |
| `ScopesProofs` | theorems about `Scopes`, for any nesting of any requests, blocks and tasks |
| `RequestId` | the generator of request ids, with a clock that may be set back |
| `RequestIdProofs` | theorems about `RequestId`, for any clock, counter and number of threads |
| `Format` | one line from record, bound context, baggage and identity |
| `FormatProofs` | theorems about `Format`, for any records, bindings, headers, limits and names |
| `Release` | the release policy and the workflows that call it |
| `ReleaseProofs` | theorems about `Release`, for any history of main and any order of the runs |
| `Facts` | facts about numbers, finite sets and sums that the proofs share |
| `MCTransport`, `MCLifecycle`, `MCModes`, `MCScopes`, `MCFormat`, `MCRelease` | instances for TLC |

### Transport

One pipeline is one `SemlogQueueHandler` with its queue, its counters and its
start lock; one writer is one `Writer` object. All of them are indexed although
`Transport` has a single pipeline, so that `Lifecycle` can make new ones.

| code (`_transport.py`) | variables | actions |
|---|---|---|
| `_state.handler`, `_state.writer`, root's handler | `handler`, `writer`, `root` | |
| `handler.queue`, `_started`, `_start_lock`, `counters.dropped` | `queue`, `started`, `startLock`, `dropped` | |
| `emit` 85-90, `_start_writer` | `ppc`, `via`, `level` | `Dispatch` `SeeStarted` `StartedMeanwhile` `ClaimStart` `CreateWriter` `LaunchWriter` `LaunchFails` |
| `emit` 91-109 | the same | `Prepare` `PrepareFails` `Enqueue` `CheckRoom` `OfferFull` `CountDrop` |
| `QueueListener._monitor`, `Writer.handle`, `_report_drops` | `wpc`, `hand`, `reported`, `stream`, `flushed`, `released` | `Take` `HandleMarker` `WriteLine` `WriteFails` `FlushIfEmpty` `FlushFails` |
| `flush` 283-318 | `fpc`, `fon`, `fwriter`, `timed`, `calls` | `FlushCall` `PutMarker` `FlushReleased` `FlushTimesOut`; in `Lifecycle`, where a writer can end, `FlushFindsDead` |

`tickets`, `logged`, `before` and `broken` (some operation of the stream has
failed) are history: no guard reads them. A line is
its ticket (the how-manieth line of its pipeline) and its severity; its text is
not modelled. `stream` is everything written, `flushed` how much of it has left
the buffer of the process: the buffer may spill older lines by itself when a
line is written (`flushed' \in {flushed, Len(stream)}`), and `stream.flush()`
empties it. `FlushCovers` and `NoticesComplete` speak of runs in
which the stream has not failed so far; what holds after a failure is
`NoSilentLoss` and the refinement with a lossy stream.

*Granularity.* CPython with a GIL changes threads around calls, so a step runs
from one call that can block, or between whose return and the next call another
thread matters, to the next. In particular `counters.dropped += 1`
(no call inside) and the two reads in `_report_drops` are one step each;
`_start_writer` is cut at `start()`, and the argument list of `Writer(...)` is
read in the same step in which `_state.writer` is set. `STANDARDS.md:519`
makes the free-threaded build informative only.

*Clocks.* A deadline may pass whenever the code would look at it
(`FlushTimesOut`), so no order of timeouts and answers is left out.

### Lifecycle

`Admin` is the thread that runs the jobs, one after the other; it flushes only
within `_shutdown`. The jobs go
through `writer.stop()` (`PutSentinel`, `Join`, or `ForceSentinel` and
`ForceFull` when no thread runs: releases of `QueueListener` differ in whether a
sentinel is left behind then, so both outcomes are possible, and those that leave one
join a thread that has been started meanwhile) and then on:

| job | actions |
|---|---|
| `os.fork()` | `ForkBegin` (before), `ParentResumes` `RestartWriter` `RelaunchWriter` `RelaunchAgain` (after_in_parent), `ChildResumes` (after_in_child) |
| `configure()` again | `InstallBegin` `InstallHandler` (install), `DetachRoot` `AttachRoot` (attach_root) |
| exit | `ShutdownBegin` (flush(timeout=5)), `ShutdownStop`, `RedirectRoot`, `ForgetHandler` |

At a fork the model goes on in the parent or in the child, both are explored. In
the child all threads but the Admin's are gone where they were, a lock stays as
it was, and the part of `stream` that was not flushed is in the child's buffer
as well. `StartRaises`, `StartAgain` and `LogElsewhere` are what an emit meets
when a job has changed `_state` or root under it.

*A second `start()`.* An emit that has claimed the start and the parent's restart may both call
`start()` on the writer in `_state.writer`, in either order. Newer releases of `QueueListener`
raise then, older ones add a thread; `StartAgain` (the emit comes second) and
`RelaunchAgain` (the hook does) have both outcomes. An index of `Writers` is a `Writer` together
with its thread, so the second thread is a new index on the same queue (`AddThread`), and
the `Writer` is renamed to it wherever it is remembered; only a `join()` that has been
called may wait for the first. `_reported` is one attribute in the code and one
per thread here: the properties of this module say nothing of notices.

`Regime` says which moments the application chooses. *solo*: no thread logs
while a job runs, as in a program with one thread. *warm*: any moment after the
first line has started the writer. *free*: any moment. Properties are checked in
the widest regime in which they hold, and where a document promises them in a
wider one, section 6 has the counterexample.

### Modes

A record is followed from `Logger._log` to the last handler. Its dispatch is a
record on the stack of its thread, because a handler may log (an observer, or the
formatter with its catalog diagnostic), and `_dispatching` is the index of the
record on the stack that is being hidden.

| code | variables | actions |
|---|---|---|
| `_modes.state`, `_routing_armed`, `_transport._state.handler` | `mode`, `marking`, `armed`, `current` | |
| handler lists of root and of one library logger, its `propagate` | `attached`, `propagates` | |
| `_log` | `stack` | `Call`, and the nested calls of `Proceed` |
| `_call_handlers`, `_stream_handle` | `stack`, `hidden` | `Route` `Deliver` `Hide` `Return` `Raise` `DeliverRaises`, `Concealed` |
| `logging.Logger.callHandlers` (external) | `stack` | `Handle` `Ascend`: an iterator over a list that `configure()` changes, then root, then `lastResort` |
| `configure()` 119-192 | `cpc`, `target`, `capture`, `fresh` | `ConfigureOff` `Configure` `InstallHandler` `Detach` `AttachRoot` `ArmRouting` `CaptureHandler` `CapturePropagate` `CaptureRaises` `Finish` |

`configure()` is cut at every change that another thread can see. A call that
validation rejects changes nothing and is no step. The pyproject diagnostic that
hybrid logs at the end is a `Call` like any other. `calm` and `torn` are history:
whether a configure() overlaps the dispatch, and whether the last one raised half
way (`capture_loggers` with a name that is no string).

A dispatch ends by return (`Return`), or by an exception of a handler that has had the
record (`Raise`), and both leave the wrapper through its `finally` (`Leave`). The
exception ends the innermost dispatch only: the handler that was logging may take it,
and go on, or let it end its own in a further `Raise`. `DeliverRaises` is an exception
of `handler.handle(record)`, before anything is hidden. Threads share nothing but
what configure() changes, so one thread is enough to check the rest.

### Context, Requests, Celery and Scopes

A context is a thread, a task of an event loop, or the `Context` that the WSGI
middleware makes for one request. A snapshot is not its contents but whose it is:
the scope that began the trace, the one that made the span, the scopes whose code
has bound attributes. `open` is the stack of code that runs in a context, which is
the program's, not semlog's; the properties compare it with what semlog has bound.

| code | variables | actions |
|---|---|---|
| `_context.py`: `_current`, `push`, `pop`, `bind`, `operation` | `bound`, `token` | `With` `EndWith` `Bind`; `Push`, `Pop`, `Opening` and `Injected` in the others |
| `_modes.is_off()` | `off` | `Flip` |
| `_middleware.py`: the calls and the response | `kind`, `home`, `rpc` | `Begin` `Pass` `Answer` `AnswerStream` `Raise` |
| `process_exception`, `_semlog_exc_info` | `stashed` | `ViewRaises` |
| `_emit_request_event` | `events` | `Emit`, within the others |
| `_wrap_iterable`, `_stream_in_scope` and the server that takes them | `rpc`, `home` | `Start` `End` `Drop` |
| `_celery.py`: `before_task_publish` | `header` | `Publish` |
| `task_prerun`, `task_postrun`, `_scopes` | `tpc`, `idOf`, `scopes` | `RunSent` `RunEagerly` (receivers that work or fail) `Postrun` |

A step is a whole call of the library: its calls do not block, and two contexts share
only the mode and `_scopes`, whose operations are single dict operations.
`dark` (requests that the mode "off" has touched), `outcome` and `origin` are
history. A worker thread runs a sent task when it runs nothing else; an eager task
runs in the middle of any code. The server takes a WSGI body on the thread that
called the application, a Django body on any free thread, in one go (`Idle`).

`ScopeStack` has no tokens: a scope puts a snapshot on the stack of its context, code
adds attributes to the top, the end of the scope takes the top away. `StackOf` reads
the stack off `bound` and the tokens of the scopes that are open.

### RequestId

| code (`_uuid7_fallback.py`) | variables | actions |
|---|---|---|
| `_lock` | `lock`, `cpc` | `Acquire` `Release` |
| `_state["ts_ms"]`, `_state["counter"]` | `ts`, `counter` | `Renew` `Count` |
| `time.time_ns() // 1_000_000` (external) | `clock`, `now` | `SetClock`, to any moment at any time |

An id is its timestamp and its counter, which are its high bits; the 32 random bits
below them are left out, so that nothing shown rests on luck. `issued` and `wraps`
are history. A new millisecond draws any counter.

### Format

`Line` is what `Formatter.format` returns, made by the code's passes in the code's order:

| code (`_format.py`, `_baggage.py`) | definitions |
|---|---|
| the pass over the extras, bound context and baggage, redaction | `Extras` `Context` `Slow` `Redacted`, together `Attributes` |
| the limit of attributes, coercion | `Dropped` `Coerced`, in `Kept` |
| the limit of length, the envelope, the identity's spliced text, the encoder and its two fallbacks | `Cut` `Envelope` `Splice` `Encode`, in `Whole` |
| `_redact_value`, `_truncate`, `_coerce_scalar`, `_sanitize` | `Redact` `Truncate` (of a part, `Shortened`) `Coerce` `Sanitize`, the encoder's `Text` |
| `parse_baggage`, `to_log_attributes` | `Parse` (one member is `Taken`), `Baggage` |

A dict is a sequence of members, as its order decides what the limit keeps. A value is
the kind of each of its parts, by the path of keys that leads there: the four functions
on values visit the parts by recursion, and what they do at a part depends on its path
and kind alone, so each is one function on paths. The kinds: a short text of one
of the five sources; "long", text that the length limit cuts; "bytes", more of them than the
limit, which count as JSON until the encoder makes base64 of them, so that they are cut
first ("cut bytes") and are text afterwards ("base64", "cut base64"); "nan", a number JSON
has not; "object", what the encoder cannot take; "enum", what becomes a nan once it is
coerced; "map", a dict. Lists are not told apart from dicts.

`Resolves` is the reference definition: it says in one go who wins a name and which names
are kept, with no updates, passes or slices. What `format` keeps from one call to
the next is `rendered`, the mark on exceptions, which `Format` and `Hand` (the
handler that takes the line) make a state machine of.

### Release

| code | variables | actions |
|---|---|---|
| `check_pr`, `required_bump`, `next_version`, `latest_release`; `version-check.yml` | `head` | `VersionCheck` |
| GitHub (external) | `main` | `Merge` |
| `tag.yml`: plan with `tag_info`, ci, build | `job`, `passed` | `Plan` |
| `tag.yml`: the job in the group `release-tag` | `job`, `tags`, `created` | `Look` `PushTag`, where the runner may be lost after the push, and `PushRefused`, where the tag has come in between |
| a maintainer (external) | `tags`, `byHand` | `PushByHand` |
| `tag.yml`: publish; `release.yml` | `pypi`, `passed` | `Publish` `Dispatch` |

A commit is what its subject requires, the version it declares and whether
`CHANGELOG.md` has a section of it. It starts before the first release, or with one.
A pull request is on top of main when it is merged (branches are up to date), but
tags may have been pushed since it was checked.

`PushByHand` is what `RELEASING.md:144-156` tells a maintainer to do when a tag is
missing: to a commit of main that declares the version and has its section, at any time, also
while `tag.yml` is on its way to the same tag. Nothing has tested that commit then. A tag
pushed by a person starts `release.yml` (`:4-6`), which a person may also start for any
tag: `Dispatch` is CI, verify-tag, build and upload of a run of it that comes to its end.
`byHand` and `passed` are history.

## 3. Plan

Done: `Transport`, `Lifecycle`, `Modes`; `Scopes` with its parts and its abstract
specification; `RequestId`; `Format` with the inbound half of `_baggage.py`; `Release`.
Proved: every safety property of `Transport` and its refinement of `LogChannel`, and of
`Lifecycle`; every property of `Scopes`, with its refinement of `ScopeStack`, of `Modes`,
of `RequestId`, of `Format` and of `Release`. So each safety property of a passing run
is also a theorem.

Left, in this order:

1. In `Lifecycle`, two threads that run jobs at once, for which a `Thread` has to be an
   object apart from its `Writer`.
2. An abstract specification of `Modes` (a record goes where the mode of the moment says,
   once); the worker's side of Celery (logger ownership, the flush at its end).

The order follows the damage a mistake does: lines lost or doubled first, lines in
the wrong place or with the wrong context next, the rest after.

## 4. Runs

| run | instance | shows |
|---|---|---|
| `transport_block` | 2 threads logging twice, 1 flushing, queue of 2, `block`, fairness | `OneWriter`, `InOrder`, `FlushCovers`, `EventuallyDurable`, `ImplementsFairChannel`: with the fairness of `LogChannel`, nothing is lost and everybody is answered |
| `transport_drop` | 2 threads logging 6 times, queue of 10, `drop` | `LowLinesBounded` |
| `transport_faults` | 2 threads logging twice, 1 flushing, queue of 2, `drop`, every fault | `TypeOK`, `NoSilentLoss`, `NoticesComplete`, `ImplementsChannel` with a lossy stream |
| `lifecycle_warm` | two forks, a reconfiguration and an exit under 2 logging threads, queue of 2, `block` | `StopDrains`, `ForkQuiet`, `SoleWriter` |
| `lifecycle_live` | a fork, a logging and a flushing thread, queue of 1, fairness | `EmitReturns`, `FlushReturns`, `JobReturns`, `LineReachesStream` |
| `lifecycle_free` | one job of each kind at any moment, `drop`, 5 writers | `NothingStranded`, `WritesOwnOnce` |
| `lifecycle_fork_buffer` | one fork, one logging thread | the violation of section 6 |
| `modes` | three calls of configure() in any modes, a thread that logs twice and from inside its handlers, which may raise, on two loggers | `TypeOK`, `JsonOnce`, `LegacyUnchanged`, `MarkedHidden`, `MarkerGone`, `HiddenInnermost`, `OnceEach` |
| `scopes` | 2 threads, 2 requests in any middleware, a block of operation(), 2 tasks, 2 ids, one change of mode | `ScopesTypeOK`, `InScope`, `OneEvent`, `TraceContinues`, `ImplementsStacks` |
| `request_id` | 2 threads, 6 ids, a counter of 3 values, a clock of 3 moments | `TypeOK`, `TimeOrdered`, `NoNearTwin` |
| `format` | 4 keys, 11 values, up to 2 extras, 6 bound contexts, 5 baggage headers, 3 limits, 2 exceptions | `NothingBare`, `Resolves`, `Conformant`, `StackOnce` |
| `release` | commits of 4 kinds, first versions 0.1.0 and 1.0.0, 3 runs of `tag.yml`, one tag pushed by hand | `Provenance`, `SemVer` |

*Bounds.* `Quota` and `FlushQuota` bound the calls of each thread, `Jobs` the
jobs, `Writers` and `Pipelines` the objects that can be made. Two threads are
enough for every race in emit (two at the start lock, two past the `qsize()`
check); a queue of one or two slots is full and empty many times in a run, and
puts marker, sentinel and lines into competition for a slot. `transport_drop`
needs the smallest queue whose tenth part is a slot, ten; it uses a VIEW that
leaves out history and stream, which no guard reads. As many objects are given
as a run can make. Symmetry (of threads, requests, tasks and ids, of objects not yet
made) is used in runs of safety properties only.

In `scopes`, `Budget` 3 lets three scopes be used in a run, in every combination: a
task inside a block inside a streamed request, two streamed requests on one
thread, a task published by a request and run on another thread, an eager task
in a task that uses its id again. A fourth would be one more level of the same
nesting. `Flips` 1 changes the mode in the middle of any of them, from on to off or
back. In `request_id` the counter wraps within three ids, so six are two rounds; a
clock of three moments goes on, stands and goes back. In `format`, `MaxDepth` 2 is
passed by a value of three levels, `MaxMembers` 2 and `MaxBytes` 3 by headers of
three members; 1 and 2 are below the number of names, -1 is what the environment
may say; `OnlyFirst` keeps apart what the formatter remembers (exceptions) and what it
does not (all other records). In `release` three runs are the smallest number in
which one overtakes two, or a lost one is repeated after two others; one tag by hand
comes before, between or after each of their steps. Pull requests end with the last run.

In `lifecycle_free` the writers are never used up, threads of a second `start()` included: one
index is always left.

*Fairness* is stated in `transport_block` and `lifecycle_live`. Each thread that can take
a step takes one in the end: the operating system's and the interpreter's scheduling,
and that a waiter on a queue is woken. Starting to log, to flush, or a job is never
forced. Nothing in the other modules waits, but for the lock in `RequestId`, which is
held for two steps.

*Deadlock* is checked in every run but four. In the runs of `Lifecycle`, `LifeFinished` says
what may be left for good: a process that is over or has nothing more to do, or threads of
which each waits, in `put` for room in a queue that nobody reads any more (section 6), for
a start lock that was held at the fork, for a marker or in `join()`. No other step of a
job or an emit may be left undone. In `transport_block` a thread that waits
for ever is what the liveness properties report, so the check would repeat them.
`scopes` stops when its requests, tasks and changes of mode are used up,
`request_id` when all ids are issued and its clock is the only thing left to change, and
`release` when its last run is over, or cannot go on for want of a section, and nobody pushes.

## 5. What is proved

`TransportProofs`, for every set of threads, every queue size, both policies and
all faults, from `ConstantsAssumption` alone:

* `TypeCorrect`: `Spec => []TypeOK`. `TypeOK` by itself is not inductive: that
  what a writer holds is an item, that a record in emit has a handler, that the
  reported drops do not exceed the counted ones (so that a notice is a number)
  is in `Shape`, and `Typed` proves both together, one step per action.
* `SingleWriter`: `Spec => []OneWriter`. Strengthened by `FirstWriter`: a queue
  whose `_started` is unset has no writer and a free lock, and no writer exists
  for a queue whose start is in the hands of a thread. Only `ClaimStart` and
  `CreateWriter` bear on it; all other steps keep the frame `StartFrame`.
* `Ordered`: `Spec => []InOrder`. Strengthened by `Staged`: tickets rise along
  the path queue, hand, stream, so what a writer takes is younger than what is
  written. It needs `OneWriter`: with two writers the order is lost. All steps
  but `Enqueue`, `PutMarker`, `Take` and `WriteLine` keep the frame `LineFrame`.

The second half of the module goes on from there, from the same assumption: that a process has
finitely many threads matters here, because they are counted.

* `ReserveBounded`: `Spec => []LowLinesBounded`. `LowInv` adds to the low lines in the
  queue those of the threads that have passed `qsize()` and not yet put, and bounds the
  sum by `Reserve - 1` and the number of threads. Only `CheckRoom` makes the sum
  larger, and it has just seen fewer than `Reserve` items.
* `AllAccounted`: `Spec => []NoSilentLoss`. Inductive with `TypeOK`, `Shape`, `Staged` and
  `OneWriter`, because of which a writer that writes or drops its line does so for
  nobody else: tickets are unique and one hand is on a queue.
* `IsChannel`: `Spec => ImplementsChannel`. A line's fate is read off where its ticket
  is. `Ranged` and `AllThere` say that the tickets from 1 on are queued, in the hand or
  written, unless the stream has failed; `Disjoint`, from `Staged`, that no ticket
  is in two places. `WayIsNarrow` gives the channel's capacity: the queue and
  one hand. Of a step `StepMoves` says which kind it is (a line enters, is written, is
  lost with the stream, or all stays), and `ChannelStep` that each kind is `Accept`, `Deliver`,
  `GiveUp` or a stutter.
* `FlushCovered`: `Spec => []FlushCovers`. `Marked` has the markers of a caller numbered by
  its calls, so that one left over from a call that timed out is not taken for the
  present one (`MarksNumbered`), and no line that was there when it called behind its marker
  (`MarksBehind`), in the queue or in the hand. With `AllThere`, what is not behind
  the marker has been written when it is taken.
* `DropsReported`: `Spec => NoticesComplete`, an action property. `Noticed` says that the
  notices on the stream add up to what the one writer of the pipeline has reported.

`LifecycleProofs`, for any numbers of threads, pipelines and jobs, any queue size and both
policies, from `ConstantsAssumption` and `LifecycleAssumption`. It does not build on
the invariants of `Transport`: with jobs at any moment most of them no longer hold, two
writers of one queue included. Four theorems hold in every regime:

* `LifeTypeCorrect`: `LifeSpec => []LifeTypeOK`, together with `Given`: what a thread, a
  writer or a job uses was given to it before. A fork resets the counters of a
  pipeline; that a writer's `reported` still is at most `dropped` holds because the hook
  leaves no thread that could compare them.
* `LinesApart`: no line is twice on a stream. `Apart` has a line in one place: queue, one
  hand or one position of the stream. `EveryMove` first reduces every step to one of
  seven things that can happen to lines (one is put, taken, written or lost, the child
  leaves all behind, something that is no line is put, nothing happens), and one lemma
  for each says that lines stay apart. Unlike `Staged` it demands order only within a queue:
  two writers can overtake each other. Where a second `start()` adds a thread, both take from one
  queue, and a line is taken once (`AddThreadMoves`).
* `OwnLinesOnce`: `LifeSpec => WritesOwnOnce`, an action property; its second half is `LinesApart`. `Own` says that every line which a
  writer has in its hand, or can get at in its queue, was put there in this process. Lines
  from before the fork may be left in queues of earlier pipelines, which no thread of
  the child serves; that none ever will needs `MadeSound` and `QueuesMade`: a writer is
  only given a handler that exists, and one that `install()` has yet to make has an empty queue.
* `NoLineLost`: `LifeSpec => []NothingStranded`, if writes do not fail (`"stream" \notin Faults`;
  a line lost to a failing write is counted as dropped, which `NoSilentLoss` is about).
  From the same moves: `NothingVanishes`.

Three need the moments of the regimes *solo* or *warm*, because in *free* TLC finds
them violated (section 6). `LifeCalm` proves two more invariants of each other:

* `Calm`: between a first line's look at `_started` and the start of the writer no job is
  under way, while a job is under way nobody but the job starts a writer, and a
  thread that serves any queue is the one in `_state.writer`. It says at which step of a
  job there is no writer, one that runs, or one made and not yet started;
* `Drained`: a sentinel is in a queue only while its writer is joined, it is the only one,
  and no line behind it is from before the job began. `Calm` needs it, since only a
  sentinel ends a thread; and it needs `Calm`, since a second writer could take the
  sentinel meant for the first.

From them follow `QuietFork` (`ForkQuiet`), `WriterAlone` (`SoleWriter`) and, with
`NoLineLost`, `StopIsComplete` (`StopDrains`): no writer runs, so nothing is in a hand, and
what is in the queue is younger than the job.

`ModesProofs`, for any handlers of the application, any number of threads and of
calls of configure(), and records logged inside one another to any depth (the
run has one thread and depth 2), from `ModesAssumption` alone: that the kinds of
handlers are apart, and that no logger starts with a handler twice (`addHandler`
refuses it). `Invariant` proves `TypeOK`, `Records` and `Switches` together:

* `Switches` says how far configure() has come: `marking` is only ever true when the
  wrappers are armed and a handler is installed, because `Finish` comes after
  `ArmRouting` and neither is taken back.
* `Records` holds of each stack. `Nested` is a chain: the identity that is hidden is
  the innermost record that went to JSON directly, and each such record has kept
  the next one out (`previous` in the wrapper), so that any depth of returns, and of
  exceptions, restores the right one: both come to `Leave`. `Sound` is what a record has been
  through.
* `OneThread` and `ProceedKeeps` reduce a step of a thread to its own stack; the
  lemmas `Nested...` are about sequences alone.

From it follow `TypeCorrect` (`TypeOK`), `MarkerNeverSeen` (`MarkerGone`),
`InnermostHidden` (`HiddenInnermost`) and `NeverShownTwice` (`MarkedHidden`).

`RoutingHolds` proves a second invariant on top of it, `Routing`, which follows a record
along the lists that `configure()` is changing:

* `Lists`: no list holds a handler twice, root holds the application's handlers or one
  pipeline alone, which is the current one whenever `configure()` is not under way, and a
  captured logger is empty and ends at a pipeline. It says at which step of `configure()`
  each of them has come true. For "off" it is what tells which pipeline may be left on root.
* `Settled`: what a `configure()` that did not raise leaves behind when it returns.
* `Dispatches`: of every record, that no handler ahead of it in the list has had it, and
  that it has met at most one pipeline (`OnItsWay`). And if no `configure()` is under
  way or has come in between (`calm`), then exactly the handlers passed so far have
  had it, once each (`Undisturbed`).

The first part of `Dispatches` has to hold while lists change under the iterator
(a removal makes it skip a handler, never meet one twice), the second only between
calls. `LinesOnce` (`JsonOnce`), `NobodyElseNotices` (`LegacyUnchanged`) and `MetOnce`
(`OnceEach`) follow from it.

`RequestIdProofs`, for any number of threads, any counter, any set of moments and
any way the clock goes between them, from `RequestIdAssumption` alone. `IdInv` is

* `Exclusive`: the lock is held exactly when a caller is between `Acquire` and
  `Release`, and there is one such caller. Every later step of a caller needs it;
* `Monotone`: the state is later than all ids issued or equal to the last of them, so
  that a caller who finds the same or an earlier millisecond counts on from it;
* `Spread`: how far the counter is from that of any id of the same millisecond: by
  less than the number of ids since then only if it has gone round. `OneFurther` is
  the arithmetic of the step modulo `CounterMax + 1`.

With `TypeOK`, `TimeOrdered` and `NoNearTwin` it is inductive, so `TypeCorrect`,
`InTimeOrder` (`TimeOrdered`) and `TwinsFarApart` (`NoNearTwin`) hold of the real
42-bit counter: two ids of one timestamp and counter are at least 2^42 calls apart.

`FormatProofs`, for any records, bound attributes, baggage headers, names, sensitive names,
catalog, limits and identity, from `FormatAssumption`: what a call site gives and what is
bound are dicts, a prefix keeps keys apart, the names of the allowlist have a prefixed
form, and the identity's members are texts. A line is one expression, so here the
work is in the data and the invariants of the state machine are small. In this order:

* Recursive functions. `Recursion` shows that one exists for any step (by the induction of
  `Facts`); then `Assigned` and `AssignFacts` say what assigning members does to a dict
  (which names it has, in which order, the last value of each), and `ParseFacts` that
  `parse_baggage` returns exactly the accepted members in their order: while it
  runs it has those accepted so far, and what ends it would refuse all later ones.
* Dicts. `AllFacts` takes the three sources together: the names of all, ordered by first
  appearance, and which source's value each name has. `SliceFacts` and `KeptFacts` say
  which of them are left after the limit, `SpliceFacts` what the identity adds or
  takes over.
* Values. `Carries` is what the stages after redaction keep: a short text and REDACTED
  stay what they are and nothing else becomes one, and what hides its sensitive parts
  goes on hiding them; each stage has its lemma (`RedactFacts` to `EncodedFacts`).
* Lines. `LineMembers` and `MemberFacts`: each member of a line comes from one member of
  one source, and what has become of its value on the way.

`Redaction` (`NothingBare`), `Conformance` (`Conformant`) and `Resolution` (`Resolves`)
follow for each line, with `Configured` (the configuration stays what `Init` chose) and
`Matches` (a line is what the reference makes of the record and the snapshot
in `at`). For `Resolution`,
`ThreeSources` and `KeptFirst` count the names that come before a name in the
reference definition, which must be its place in the dict, and `Strongest` compares
the winners. `Rendering` (`StackOnce`) needs `Marked`: an exception that takes
the marker and has not got it was in no line, and one that has got it and was not lost
had its stack trace in one line.

The first attempt at `Redaction` failed for a reason: at the last level before the cap a
part that was redacted is replaced once more when the line is sanitized, so that a
line need not say "redacted" there. `Hides` says so now, and the run has a value for it.
`Conformance` says of bytes what the code does and `tests/test_limits.py:96-105` pins: no
attribute is made of more bytes than the limit, though the base64 of them may be a text of
more characters (section 6).

`ReleaseProofs`, for any number of commits and runs, any first version and any way in
which runs overtake each other, stop and are repeated. From `ReleaseAssumption`
alone. `Kept` is `ReleaseTypeOK` with

* `Planned`: a job is past its plan, and has said `created=true`, only with a section, CI and
  the build behind it. It makes `Provenance` inductive, and gives `TagsAreProven`: a tag
  that `tag.yml` has pushed is on a commit that passed, one that a maintainer has pushed
  need not be, and what is published passed in either case;
* `Stepwise`: seen from a position of the history that has a tag or may still get one, every
  later one, up to the next tag, declares the same version or the next one. A position may
  no longer get one if another tag has its version (`Shadowed`): the second run finds it
  and stops. So a tag that a late run, or a maintainer, sets in the middle splits a stretch of
  commits in two of which each is a step by itself, which `Rebase` shows: what two
  stretches require together is what the second requires, or the first had it already;
* `Rooted`: before the first tag there is one version only;
* `Rising`: the version rises with the tags, so that the highest is the last
  (`LatestIsLast`) and the check of a pull request compares with the right one.

From it follow `SemanticVersions` (`SemVer`) and `VersionsRise`.

`ScopesProofs`, for any threads, requests, operations and tasks, scopes open inside one
another to any depth and any number of changes of mode (the run has three scopes and
one change). From `ContextAssumption` (the sorts of names are apart), `LoggedAssumption`,
`CeleryAssumption` and `ScopesAssumption`. `ScopesInv` is `ScopesTypeOK` and `OneEvent` with

* `Placed`: a scope's code runs once, in the context where the scope belongs, and what runs
  in the `Context` of a WSGI request runs inside that request;
* `Held`: a scope has a token while it is open and not before it has begun; a request
  that runs without one has met the mode "off";
* `Registered`: `_scopes` has a task exactly while its scope is open, under the id of its
  request. Without it postrun might pop another task's scope;
* `Carried`: a message that is under way has the trace of the code that published it;
* `Chained`: the tokens of the scopes that are open in a context form a chain. Each was
  made there, the first puts back nothing, each later one puts back what the
  scope before it sees: its own span, what was bound in it or around it, and its trace;
* `Silent`: a request says nothing of itself before it is over.

`Chained` is what all the others serve. `MoveKeeps` looks at the seven kinds of steps as far
as scopes are concerned (one comes or goes, with a token or without, one is left
without a pop with its context, something is bound, or nothing happens) and shows of each
that the chains stay chains and what becomes of the stacks, which `StackStep` finds to be
a step of `ScopeStack`. The lemmas `...Keeps` after it say of every action which kind it
is, and that the rest of the invariant holds after it. From it follow `ScopesTyped`
(`ScopesTypeOK`), `ScopesSeen` (`InScope`), `StacksImplemented` (`ImplementsStacks`),
`EventsCounted` (`OneEvent`) and `TracesContinue` (`TraceContinues`).

The strengthenings were checked as invariants of the runs' instances, or of smaller
ones, before they were proved. Some things had to be put in another form. Induction over
numbers is in `Facts` as a statement about sets (a set with 0 and every successor has all
numbers), from the well-founded order of the numbers; with it the sum of the notices
in a sequence, a recursive function, is shown to grow by what is appended. And the lists
of handlers are parameters of the definitions of `Routing`, so that a step of a
thread and a step of `configure()` are looked at one at a time. For the same reason the
scopes of a context that are bound are taken by a function of positions (`Among`)
rather than by `SelectSeq`, of whose definition the provers know nothing.

Only model-checked: liveness (`EventuallyDurable`, `EmitReturns`, `FlushReturns`,
`JobReturns`, `LineReachesStream`), and the fairness in `ImplementsFairChannel`, whose
steps are those of `IsChannel`. TLAPS does not prove what rests on ENABLED.

## 6. Where the code and its documents disagree

One disagreement has a run that is expected to find the violation:
`lifecycle_fork_buffer`. The sentinel keeps the last line from being flushed before a
fork; parent and child both write it (LP-008, `STANDARDS.md:358`). One thread is
enough.

The models show more, which bounds what the passing runs can claim. Each of these is
got by checking the formula given in the instance or regime given.

In the transport and the modes:

* Each fork makes the parent report all earlier drops again, because the new writer
  starts with `_reported = 0`: `ReportedOnce`, in the instance of
  `lifecycle_fork_buffer` with a queue of 1, `drop` and a quota of 4.
* The child of a fork during the first emit inherits a held `_start_lock` (LP-008):
  `LocksOwned`, in the instance of `lifecycle_fork_buffer` in the regime *free*.
* Two threads that pass the `qsize()` check together put lines below WARNING into
  the tenth reserved for WARNING and above (LP-007, `STANDARDS.md:356`):
  `transport_drop`, with `Reserve` in place of the bound of `LowLinesBounded`.
* Drops after the last written line, or before any, are never reported (LP-007,
  the same line): `transport_faults`, `Quiet => NoticeTotal(h) = dropped[h]`.
* `_started` stays set when `Thread.start()` raises; no writer is ever made and
  `block` waits for ever once the queue is full (LP-006, `STANDARDS.md:352`):
  `EmitReturns` in the instance of `transport_block` with the fault "start".
* A job during the first emit (LP-003, `STANDARDS.md:350`): the writer may start between
  the before hook and the fork (`ForkQuiet`), be made but not started, so that `stop()` has
  nothing to join and the queue stays full (`StopDrains`), or start when `stop()` has looked,
  and go on next to the parent's new one (`SoleWriter`): `lifecycle_warm` in the regime *free*.
* A thread that is in emit while `configure()` runs again puts its line behind the
  sentinel, into a queue that nobody reads (`agent_guide.md:44`): in the regime
  *warm*, "a queue other than the handler's holds no line when no job runs".
* `flush()` without a timeout waits for room in the full queue of a writer that a
  second `configure()` has stopped (LP-011, `STANDARDS.md:366`): `FlushReturns` in
  the regime *warm* with an install.
* A marked record logged while `configure(mode="full")` runs in a hybrid process,
  after `attach_root` and before `marking` is reset, reaches the pipeline twice
  when it has a queue: directly and through root (LM-003, `_modes.py:145`):
  `modes`, `NoLine(d) \/ OneLine(d)` without its condition. If `capture_loggers` raises in
  between, this lasts until the next `configure()`.
* `configure(mode="off")` in a process that has been in `full` returns before anything is
  taken down (`_config.py:119`), so the pipeline stays on root and every record that gets
  there is still a JSON line. `STANDARDS.md:418` (LM-005: "as if semlog were never
  imported") makes no exception for it; the README of the repository does (`README.md:445`:
  "a process-start switch, not a live toggle"), and `JsonOnce` follows it: `modes`,
  `mode = "off" => NoLine(d)`, is violated by full, off and a record.

In the scopes:

* An exception in a body is an INFO event without a stack trace for WSGI and for
  Django (HTM-007, `STANDARDS.md:235`): `OneEvent` with ERROR for the outcome "body".
* A body that is closed before its first chunk (`Drop`) has no event, and WSGI's does
  not close the application's iterable, as a generator that was not started runs
  nothing (HTM-001 and 003, `STANDARDS.md:223` and `:227`); one whose `close()` raises
  (`End` with "close") has no event and keeps its scope bound in its own context:
  `OneEvent` without its last exceptions.
* Two streamed Django bodies that one thread takes in turns put each other's snapshot
  back (HTM-006 and 013, `STANDARDS.md:233` and `:259`): `InScope` without the
  condition on Django in `Idle`, and with `End` for a body that is not the innermost.
* Attributes that a Django view binds are missing while its body streams, because
  the snapshot pushed again is that of the beginning: `Start` as it stands.
* `bind` outside any scope looks at `_bind_warned` and sets it afterwards, so two
  threads may both warn (TCP-012, `STANDARDS.md:283`, `_context.py:128`; not in the
  model).

In request ids: the counter starts anywhere, so it may wrap at its first step, and an
id is then smaller than the one before it in the same millisecond (TCP-010,
`STANDARDS.md:206`): `TimeOrdered` without `wraps`. The lock is not renewed in a
forked child.

In the formatter:

* If the catalog is strict and raises, the mark on the exception is set already, so
  that its stack trace is in no later line either (LP-004, `STANDARDS.md:184`,
  `_format.py:102` and `:342`): `StackOnce` without `lost`.
* A negative limit of attributes cuts at the other end and counts the attributes plus
  the limit's size as dropped (`_format.py:368`): `Resolves` without `limit >= 0`.
* Bytes are cut before they are base64, so the text in the line may have more characters than
  the limit, also at the top of an attribute: 8 for a limit of 4 in `tests/test_limits.py:96-105`,
  which pins it; LRC-010 (`STANDARDS.md:169`) does not say which of the two is meant:
  `Conformant` with "cut base64" next to "base64".
* A text that only coercion makes, inside a container, is not cut (LRC-010,
  `STANDARDS.md:169`): `Conformant` with `cutting => "long" \notin KindsOf(m.value)`. Below the
  sixteenth level nothing is redacted or cut: `Hides` without `i <= MaxDepth`. Bound
  names are not put into the namespace and may replace members of the envelope; the
  reference in `Resolves` says so.
* A member of an `Enum` whose value is a dict is coerced to that dict after the pass that
  redacts, so that a sensitive name in it keeps its value (LP-005, `_format.py:216` and
  `:372`). In the model the value of an "enum" is a number.
* A named tuple among the extras makes `_redact_value` raise TypeError (LRC-009,
  `STANDARDS.md:167`, `_format.py:176`), and two threads that format one exception may both
  write its stack trace; neither is in the model.

In releases:

* A merge that requires a release may get none of its own (PRV-005, `STANDARDS.md:531`).
  `RELEASING.md:125` advises to let the previous merge's run create its tag before the
  next merge, which is not enough when the second pull request was checked before the
  tag: `\A n \in DOMAIN main : Rank[main[n].kind] > 0 => \A k \in tags : k < n =>
  Version(k) # Version(n)` is violated by VersionCheck, Merge, VersionCheck, then Plan,
  Look and PushTag of the first, then Merge. The second declares a version whose tag
  is another commit's, and its change waits for the release after.
* `tag_info` needs the section of a version that is released already, and `check_pr`
  does not (`release_policy.py:289` and `:339`), so a run after such a merge fails,
  though PRV-006 (`STANDARDS.md:533`) says it must finish: `Plan` is never enabled.
* A run that is lost between the push of its tag and `created=true` never publishes;
  `Dispatch` by hand has to. So it is with a run that finds a tag pushed by hand.
* A tag pushed by hand is on a commit that nothing need have tested (`RELEASING.md:144-156`);
  `release.yml` tests it afterwards, and the tag stays if that fails: `Provenance` with
  `n \in passed` alone.

## 7. What is not modelled

Not at all: identity (reads the environment once), the command line, benchmarks and
schemas (no state).

In the transport: `queue=False` (no queue, no thread), the resolution of the stream
(`_resolve_stream`; that it may find none is the fault "stream"), the text of lines
and notices, Windows (no `register_at_fork`), a stream that blocks for ever, two
threads that run jobs at the same moment, and the position of semlog's hooks among
those of other libraries.

In the modes: where the mode and the limits come from, what validation rejects,
levels (every record passes), and what `_shutdown` does to root, which is in
`Lifecycle`.

In the scopes: middlewares inside one another (HTM-010), tasks that a request starts
and that keep a copy of its context, Django bodies that are abandoned and never
closed (`finally` then runs whenever the generator is collected), asynchronous Django
bodies as something other than synchronous ones, the members of the completion
event, and the contents of a snapshot. Of Celery: who owns the worker's loggers,
`import_modules`, the flush when a worker ends (CEL-002, 003, 007), which are
`configure()` and `flush()` once more.

In the formatter: texts, times and escapes, the extra line of the catalog mode "warn",
an identity that cannot be encoded, the exact types a value may have. Parsing of a
`traceparent` is only whether there is one.

In releases: the texts of commits and changelogs, tags that are no versions, GitHub's
cancelling of an older pending job in a concurrency group (here it just waits),
branches that are not up to date, tags that are pushed against the instructions of
`RELEASING.md` (to a commit that declares another version, or has no section of it) or are
deleted, and the maintainer's override of `version-check` that takes the version to 1.0.0
(`RELEASING.md:42` and `:158`), which is no level that commits can require.
