# Formal models of MirrorCPP

MirrorCPP is a C++23 client of the ModelMirrors server: it sends a TLA+
specification to the server, lets the application under test execute the
actions the server asks for, and compares the two. Next to the client it has a
family of schedulers that run an application's own threads under control, so
that one interleaving can be replayed and compared. This directory holds TLA+
models of that code, the TLC runs that check them and proofs checked by TLAPS.
Paths below are those of the repository.

## 1. Inventory

| Component | Source | State it keeps | Operations | Model |
|---|---|---|---|---|
| Checkpoint scheduler | `src/schedule.cpp` | `Shared` (mutex, condition variable, actor phases, permits, first failure), `Execution::Impl` (position in the schedule, events, observations, report, threads) | `start_schedule`, `advance`, `finish`, `cleanup`, `~Execution`, `run_schedule`, `Checkpoint::arrive`, stop callback | `CheckpointSchedule` |
| Controlled synchronization | `src/schedule_sync.cpp` | `State` (actors, pending operations, grants, mutex owners, queue contents, events, observations, wait graph), `Execution::Impl` | `Execution`, `enabled`, `advance`, `cleanup`, `~Execution`, `Hook::request`, `MutexGuard`, `explore` | `ControlledSync`, `PrefixExploration` |
| Finite exploration | `src/schedule_exploration.cpp` | enumerated schedules, attempted and completed runs, rows, coverage, first failure | `explore_finite` with `enumerate`, `category` | `FiniteExploration` |
| Schedule binding | `src/schedule_binding.cpp` | the live execution, retained receipts, lifecycle counters, the observed terminal message | `initialize`, `advance`, `observation`, `dispose`, `receipt`, `replay_with_traces` | `ScheduleBinding` |
| Client flows | `src/client.cpp` | transport, negotiated interface, interactive session, job handles | `run_client*`, `gen_traces`, `validate`, `explore`, `ExploreSession`, `submit_async`, `query_job*`, `await_job`, `cancel_job` | `StepFlow` (abstract: `Conversation`), `ExploreSession`, `JobControl` |
| Protocol codec, phase guard | `src/protocol.cpp` | phase of the conversation | `encode_client_message`, `decode_mirror_message`, `PhaseGuard::sent/received` | `PhaseGuard`, `MessageCodec` |
| Transports | `src/transport.cpp`, `src/detail/{process,net}.cpp`, `line.hpp` | child process, socket, line buffer | `send_line`, `recv_line`, `close`, destructor | `LineTransport` |
| TLS | `src/detail/tls.cpp` | OpenSSL session | connect, read, write | `LineTransport` (framing, closing), `RegistryLookup` (phases of connect) |
| Values | `src/value.cpp` | none | equality, encode, decode | `ItfValue` |
| Spec closure | `src/spec.cpp` | loaded files, visited paths, the importer in hand | `spec_from_files`, `import_names` | `SpecClosure`, `ImportScan` |
| Registry | `src/registry.cpp`, `src/detail/http.cpp` | candidates, the pin in effect, the connection in hand | `http_get`, `discover_mirrors`, `connect_from_registry` | `RegistryLookup` |
| Model interface | `src/model_interface.cpp` | none | admission of contracts, replies and failures; choice of an adapter | `ModelInterface` |
| Command line | `cli/validate.cpp` | the options, the exit code | `main`, `parse_args`, `connect` | `ValidateCommand` |

How they interact. `run_schedule` and `start_schedule` are called by finite
exploration (once per enumerated schedule) and by the binding, which turns each
matched arrival into an answer of the stepping protocol that the client flow
exchanges over a transport. `mirrorcpp-validate` parses its arguments, has
`spec_from_files` collect the spec, reaches a mirror directly or through
`connect_from_registry`, and makes one call of the client flows. Every flow reads
and writes lines through the codec, which reads and writes values; a negotiated
flow has `model_interface.cpp` admit what it is told. `explore` of controlled synchronization creates one
`Execution` per prefix. Schedulers share memory with the application's threads
and are driven through callbacks (factory, worker, observer, teardown); all
other interaction is by call.

What is hard. (a) Real threads: an actor, the controller, foreign threads and
a `std::stop_token` callback meet in one mutex and one condition variable.
(b) Application callbacks run without the mutex, so what was known before them
is stale after them. (c) Deadlines: every wait is timed, and late results race
the deadline. (d) Cleanup may fail, run out of its budget and be retried, and
the destructor does what is left. (e) The evidence (events, observations,
report) must stay true whatever fails. The hazards, with the line where each
one bites and the properties that watch it, are listed in `PROJECT.json`.

What makes each component correct:

* scheduler: one actor runs at a time; the observer sees a quiescent program;
  a report that passes describes a complete replay; the first failure stays;
  teardown happens once and only after every thread is gone; calls return.
* controlled synchronization: the same, and a grant stays possible until
  applied, the receipt explains the resources, a deadlock verdict is proved by
  the graph that is kept with it.
* explorations: `complete` is claimed only when every schedule, or every
  maximal prefix, was executed exactly once.
* client: the transport is closed on every terminal path, except where the codec
  throws, which the code does not foresee; nothing is applied
  to the application that the negotiated interface does not allow; a session
  that failed once is never used again.
* transports: closing ends; a line is delivered whole or not at all; a child
  is collected once and never left behind.
* values and messages: equality is equality of mathematical values; a value and
  a message survive the wire; whatever the mirror sends is a message or an error.
* spec closure: what is sent is exactly what the root needs, each file once.
* registry: the first mirror that can be reached, is trusted and meets its pin is
  connected, and no mirror that must be skipped is contacted.
* model interface: limits hold for a contract as a whole, and an adapter is
  used only for exactly its key.
* command: the exit code is the mirror's verdict, and the command ends.

## 2. Modules

### CheckpointSchedule: `src/schedule.cpp`

An application's actors run in threads and stop at declared checkpoints. The
controller follows a schedule of steps (actor, checkpoint): it gives one actor
a permit, waits for its next arrival, checks it against the schedule and calls
the observer.

`ctl` is `Execution::Impl` (the controller's program point and its fields),
`shared` and `actor` are `Shared` with the threads, `report` the `Report`,
`env` the clock and the stop token, `history` holds what the code does not
store and properties need (teardown calls, truth about the observer). All
shared fields are written under `Shared::mutex`, so a critical section is one
action; a place where the code unlocks (callbacks, joins, waits) ends an
action. A condition-variable wait is three actions (`WaitPrepare` evaluates the
predicate, `WaitSleep` blocks, `WaitWake` re-evaluates), because the stop
callback notifies *without* the mutex and may fall between the first two.
Application callbacks return a nondeterministic result. A worker may behave in
every way application code can: arrive at the wrong checkpoint, at an
undeclared name, out of turn, finish early, throw, swallow the exception with
which the scheduler stops it, or hand its hook to another thread.

### ControlledSync: `src/schedule_sync.cpp`

Actors run in threads and every `lock`, `unlock`, `send` and `receive` is a
request that parks the actor until the controller grants it. `actor` holds the
pending operation and the thread's stage, `resource` owners and queue contents,
`log` the rows of the receipt, `state` the report and the graph of owners and
waits kept with the first finding. What each actor requests is a constant
(`Programs`): a sequence of operations per actor. Exceptions may pass any of
them. `Unwinders` are actors whose code lets an application exception pass a
`MutexGuard` and handles it; it is empty except in the run about that.

The deadline of a wait and its re-check are one action here: all notifications
of this component are made under the mutex, so none can be lost. The bounds of
the policy go with the program (`program.max_decisions`, `.max_evidence`), as
they do in the code, where a policy belongs to one execution.

### PrefixExploration: `explore` of `src/schedule_sync.cpp`

The search that replays prefixes of decisions, one fresh execution per prefix,
and branches on the actors enabled at its end. `prefixes` is the code's stack,
`locals` its other locals, `run` the attempt in hand, `attempts` the rows of the
receipt, `retained` the executions that are handed back. An application is a set of maximal decision sequences, each
ending in completion or deadlock: it is assumed deterministic (the same prefix
enables the same actors again), which is what the search relies on; what one
replay does inside is `ControlledSync`'s subject and here only an outcome. The
deadline may pass between any two steps, the building of the receipt included.

### FiniteExploration: `src/schedule_exploration.cpp`

`enumerate` as the depth-first search it is (`search`: current path, loop index
of each frame, schedules found), then the campaign (`campaign`: counters, halt,
stop reason, firsts, and the schedule and the input at which the two nested loops
are) with one action per run. `positions` and the count of preemptions of the
code are functions of the current path (`Picked`, `Preemptions`). The runner is trusted code of the
application; its sample is any combination of binding to the schedule, cleanup,
comparison, verdict and evidence. An actor's next checkpoint is determined by
how often it was chosen, so a schedule is a sequence of actors. Byte bounds are
a nondeterministic "does not fit".

### ScheduleBinding: `src/schedule_binding.cpp`

`session` has the fields of `BindingSession`, `execs` every execution that was
ever started (the session keeps one), `records` the retained receipts, `flow`
the client loop as far as it reaches the generated port, `replay` the last
`ReplayResult`. Executions are `CheckpointSchedule`'s, reduced to the facts of a
`Report`; the loop is `StepFlow`'s, reduced to its messages, with the same
`PhaseGuard`. The port is taken to let the session's exceptions pass; a port
that swallowed the exception of a failed start would make `fully_completed`
overlook that generation. The owner may call the session before and after. A
codec that throws in the loop ends it as a lost connection does; on the
registration's reply it leaves `replay_with_traces` without a `ReplayResult`
(`RegistrationThrows`).

### PhaseGuard, StepFlow, Conversation: `src/protocol.cpp`, `src/client.cpp`

`PhaseGuard` is the guard as two predicates and two functions, used by every
module of the client. `StepFlow` has all synchronous flows: the stepping loop
with its six entry points, negotiation of a compiled adapter with every outcome
of the reply, creation, admission and disposal of a binding, and the one-shot
calls. `call` is the flow in progress, `app` the caller's computer, `binding`
the adapter's lifetime, `wire` the traffic, `open` the transport. The mirror
may send any message at any time, the transport may fail at any time, the
computer may throw. Paths that return before the transport is used (a missing
computer, a failed preparation) leave no traffic and are one action. `wire` is the
traffic of the flow in progress; a transport that stays open can be given to the
next flow.

The codec may throw too, wherever a flow uses it (`EncodeThrows`,
`DecodeThrows`): `decode_mirror_message` on the lines that `decode_throws` finds,
`encode_client_message` on text that is not UTF-8. Nothing catches this before a
binding exists: the exception leaves the flow (result `"escaped"`) with the
transport open. Once a negotiated flow has its binding it catches everything,
disposes and closes (`Escape`), and calls it an error of the `StateComputer`. So
`ClosedOnReturn` says exactly this: a flow that used its connection leaves it
open if and only if such an exception passed it, and it then holds no binding.
`Conversation` says what the traffic of a flow should look like from outside,
without any of this: register, agree, step, end, with at most one answer owed,
or abandonment by an exception, after which nothing of the old conversation is
continued.
`StepFlow` implements it (`ConversationKept`), with the stage and the debt
computed from the traffic.

### ExploreSession, JobControl: `src/client.cpp`

An interactive session (open, the five commands, the destructor, move
assignment, poisoning) and the job calls on a borrowed connection. In both,
every reply carries as ghost the number of the request it answers, so that a
reply taken for another request's is visible. An exception of the codec leaves
`job_exchange` with its connection open (`ReadReplyThrows`), `command` with the
session neither poisoned nor closed (`ReadThrows`), `open` with no session, and
ends the process when it comes out of the destructor (`"aborted"`), which is
`noexcept`. In each case the reply was consumed, so that what stays usable is
still in step; `outcomes` therefore records, for each command that got its
reply, whether the reply was returned or lost. The specifications of the three
client modules have names of their own (`FlowSpec`, `SessionSpec`, `JobSpec`), so
that one module can extend all three.

### LineTransport: `src/transport.cpp`, `src/detail/{line.hpp,process.cpp,net.cpp,tls.cpp}`

What the flows above call a transport: a mirror as a child process behind two
pipes, or a peer behind a socket, with or without TLS. `owner` is the thread
that makes the calls, with `closed_` and the exit code; `buf` is `buf_`; `wire`
and `output` are all bytes of each direction, with how far each side has got;
`peer` is the mirror, which closes its pipes (`"ending"`) before it can be
waited for (`"exited"`) and is then collected by one `waitpid` (`"reaped"`);
`fds` are the descriptors. A byte is the number of its line, its place in it and
whether it is the line feed. Each `read` and `write` is an action of its own and moves as
many bytes as it likes. The mirror writes lines of any length, blank ones
included, whenever it likes, and dies whenever it likes. `waitpid` is taken to
work, which needs the host to leave `SIGCHLD` at its default. A dead peer's
socket may still take bytes. On a pipe and on a plain socket `EPIPE` never becomes
a signal (`write_no_sigpipe`, `MSG_NOSIGNAL`). TLS writes through OpenSSL
(`SSL_write`, `SSL_shutdown`: `tls.cpp:276`, `164`), which does neither; there the
model takes the host to ignore `SIGPIPE`, and a host that does not may be ended
by it.

Two things the module shows as they are, and no document speaks about: a blank
line is an end of file to the stdio and TCP transports and an empty message to
TLS; and when `pipe2` fails, the arrays of descriptors are still zero, so that
`spawn` closes descriptor 0 of the host (`SpawnFails`). After an overlong line
the buffer is dropped and the rest of that line would be handed out as a line;
every flow closes the transport on that error, so `LinesWhole` speaks about the
time before.

### SpecClosure, ImportScan: `src/spec.cpp`

`SpecClosure` is the breadth-first walk of `spec_from_files`: `disk` is a file
system (what each path resolves to, what each file imports, what can be read),
`walk` the locals (`pending`, `visited`, `idx`, and `pos` within the imports of
the file in hand). A file is its canonical path, so links are several paths to
one file. `Needed` says without any walk what should come out: the smallest set
that holds the root and is closed under imports that name one file. `ImportScan`
is the scanner: its texts are sequences of characters with an identifier counted
as one, which hides how an identifier begins (section 3, last list). It is checked against texts whose clauses, comments and strings are
known because they are put together from them.

### RegistryLookup: `src/registry.cpp`, `src/detail/{http,tls}.cpp`

`net` is the world (mirrors that are up, their certificates, and one answer of
the registry that stalls or ends after any line), `lookup` the locals of
`connect_from_registry` and of the calls it makes, one action per read, per
entry of the answer and per phase of a connection. Timeouts and closed connections have the same effect and
are one: the line does not come. `Workable` says which entry of an answer can be
connected to, and `RegistryExact` compares the outcome with it.

### ValidateCommand: `cli/validate.cpp`, `run_client_validate` of `src/client.cpp`

The command composed with `SpecClosure` and `RegistryLookup`: `cmd` is `main`
with `argv`, `Options` and the exit code, `mirror` what was asked and answered.
The arguments are parsed one at a time, as the code does, from strings, and the
search directories are collected one option at a time (`AddSearchDir`). A codec
that throws, on the registration or on the mirror's answer, ends the process.

### ItfValue, MessageCodec, ModelInterface, WireDocuments

Pure code as operators. A value or a JSON document is a tuple that starts with
its kind. `ItfValue` has `Value::operator==` and both directions of the ITF
codec; a number that `cpp_int` reads from text is computed digit by digit, in
octal after a leading zero. `MessageCodec` has one table of what each message of
the mirror carries and how each member is read, and one of what each message of
the client writes always and when present; integers of the wire wrap at `Word`.
`ModelInterface` has the admission of contracts (with the nodes of all their
types counted in the code's order), literals, negotiated replies and failures,
the strict parse, and the choice of an adapter. `WireDocuments` puts one
document at a time through them and states what should come out: meanings
instead of vectors, size and depth of a type instead of counters, agreement of
keys instead of searches.

## 3. Runs

| Run | Instance | Question and answer |
|---|---|---|
| `checkpoint_safety` | 2 actors, up to 2 checkpoints, overlapping, serial and inadmissible schedules, both ways to drive (`run_schedule`, handle), one worker that swallows the stop, two cleanup attempts | isolation, evidence, first failure, cleanup, verdict: hold |
| `checkpoint_liveness` | same actors, the shortest schedule, fair threads and clock | every call returns; the destructor ends if the application is cooperative: hold |
| `checkpoint_stop_wakeup` | stop callback | a stop request always interrupts a wait: **violated**, the notification can be lost |
| `checkpoint_run_throws` | foreign hook call | `run_schedule` always hands back the handle: **violated** |
| `sync_safety` | 2 actors, 2 mutexes, a queue of capacity 1, five programs, each with its own bounds on decisions, evidence and cleanup attempts | grants, evidence, deadlock graph, late results, cleanup, verdict: hold |
| `sync_unwind` | actor 1 handles an exception that passed its guard | the receipt explains the resources: **violated** |
| `drivers` | campaigns over six spaces with every sample and 40 shapes of up to 3 actors for the enumeration alone; applications of up to 3 actors with and without deadlocks, limits below, at and above the size of their trees; a binding with a schedule of 2 steps, 3 executions, 2 replays, 9 messages | merges: the enumeration is exactly the set of merges in order, `complete` means everything, reasons are true; prefixes: nothing is forgotten or done twice, `complete` means the whole tree in time, every attempt has its row; binding: a replay passes only on complete evidence, receipts are complete and never say too much: hold |
| `client` | 2 jobs and 3 calls; or a session of 4 commands; or two flows of 2 states and 9 messages | replies belong to the call and to the job it named, the connection is in step or closed; answers belong to their command, orderly end, poisoned for good; release on every path, no step from an unreported state, earned success, authorised adapter, refinement of `Conversation`, all of it with a codec that may throw: hold |
| `edges` | 23 command lines in 7 file systems, with and without TLS, and 112 networks (not varied together with the file systems); `connect_from_registry` called directly with every pin; values nested three deep, every message of the protocol whole, damaged and extended, contracts at and around the limits, all registries of up to 3 keys, texts of up to 2 clauses with comments and strings of 13 kinds around them, and of one clause with 6 kinds between its tokens; transports with lines of 0, 1 and 3 bytes, limit 1, reads and pipes of 2, 2 addresses, 2 lines, 3 calls | the closure is exact; the right mirror is connected; the exit code is the verdict and the command ends; values and messages survive the wire; admission and choice are exact; imports are those the author wrote; lines cross whole and in order, the buffer is bounded, no descriptor leaks, the child is collected once and its code kept, no call outlives the mirror: hold |
| `command_pin` | the command part of `edges` | a pin on the command line is enforced: **violated** with `--registry` |
| `decode_throws` | the documents of `edges` | `decode_mirror_message` never throws: **violated** |
| `transport_close` | one overlong line, 2 calls | closing after a refused line reaps the child: **violated**, `close` and the child wait for each other |

Bounds. Two actors are the smallest number with a selected and a parked one;
every property speaks about at most a pair. Two cleanup attempts are a failure
and a retry; a third meets the states of the second. The schedules and programs
are chosen so that each outcome of the code is reached: the passing runs fire
every action. The evidence bound counts rows, not bytes: in `sync_safety` one
program ends exactly within it, one meets it with a result row and one with a
grant. Three commands, calls or executions let a late reply of the first meet
the third; messages are bounded so that a flow can take two steps and end. The
spaces and trees of the explorations have at most six schedules or a dozen
nodes, and limits of one less, exactly and more. The transports of `edges` have
lines at and beyond the limit; the longest line with its line feed fills a read
and a pipe, so that lines are cut, and the longest overlong one needs two pipes. The file systems have a cycle, a diamond, a link, an ambiguous
name, a missing and an unreadable file and a builtin that also exists as a file;
so an import is met for the first time, again, and in its own text. Limits of `model_interface.cpp` are constants and
small; the integers of the wire wrap at 16 instead of 2^64. Modules that ask
questions of the same kind share a run where their states do not meet: a variable
of the MC module (`drives`, `serves`, `edge`) says which of them moves, and what
does not move has one initial state. Counters are bounded by the constants named
`Max...` and the fields named `max_...`.

Fairness. Weak fairness of the controller's own steps, of each worker's
runtime steps (the ones between application calls) and of the clock: a thread
that can run is scheduled eventually and time passes. Application code gets no
fairness in the runs about calls returning: it may block outside the hooks for
ever. The owner of a handle is never obliged to call. The destructor joins
without a time limit, so `DestructorEnds` takes fairness of the application as
its hypothesis. In `edges` the command's process is fair; its one wait without a
limit is for the mirror's verdict, and there the fairness says that the mirror
answers or hangs up. For a transport the owner's thread is fair inside a call, and
so is the mirror in what it must do: go on writing while the pipe has room,
read its input, exit at its end; whether it speaks or dies is free. `recv_line`
has no timeout by design, so nothing says that it returns while the mirror is
silent, and that run does not check deadlock: a silent mirror and a blocked
reader are a state the system may stay in, and so are a command that has ended
and a document that has been read. The other runs ask safety questions
only and assume no fairness.

Some divergences met on the way have no run of their own.

* What `decode_throws` finds has consequences that the documents exclude.
  `client.cpp:32` and `docs/design.md:666` say that every terminal path closes the
  transport; `client.hpp:170-172` that a malformed reply closes and poisons a
  session; `client.cpp:831-832` that malformed replies close a job connection. An
  undecodable line that throws does none of these. The `client` run contains the
  paths, and `ClosedOnReturn`, `StrictAlternation`, `OrderlyEnd` and `InStep` say
  what does hold on them. A negotiated flow reports such a line as
  "StateComputer threw" (`client.cpp:431-443`).
* `protocol.hpp:259` says that `encode_client_message` never throws; nlohmann's
  `dump` does on a string that is not UTF-8 (`protocol.cpp:421`), which a state or
  a path may be. The flows have this as an action; the bytes of strings are not
  modelled, so no run shows it of the encoder itself.
* A module name may begin with a digit in TLA+; the scanner skips the digit and
  takes `EXTENDS 2PC` for an import of `PC` (`spec.cpp:72`).
* `docs/design.md:299-300` and `client.hpp:6-7` say that no exceptions cross the
  API boundary; what a `StateComputer` throws is rethrown by the stepping loop
  (`client.cpp:104`, after closing the transport) and leaves every flow that is
  not negotiated. `StepFlow` has this as the result `"threw"`.
* `value.cpp:36` and `value.hpp:82` call set equality "mutual membership"; the
  code tests one direction and the length. The two agree on sets without repeated
  elements, which is what `ValuesExact` says; `decode_value` accepts others, and
  for those `==` is not symmetric.
* `registry.hpp:3-5` says that an HTTP error is never more than an empty list; a
  `Content-Length` beyond what a string can hold makes `reserve` throw
  (`net.cpp:252`), which ends the command (`"threw"` in `RegistryLookup`).
* The usage text (`validate.cpp:58`) says that the directories of `--dep` files
  are searched; a `--dep` without a directory adds none (`AddSearchDir`).
* `{"#bigint": "010"}` is read as eight: the text goes to `cpp_int` as it is.

## 4. Proofs

Every theorem below holds for all values of the constants that satisfy the
module's named `ASSUME`, which TLC evaluates on the instances of the runs:
bounds are naturals, and programs, schedules, file systems and answers have the
type they should. Each is proved from an inductive invariant, because none of
the properties is inductive as it stands; the proofs have one lemma per action
(or per family of actions that leave the same things alone) and a last temporal
step. The invariants were model-checked on the instances of the runs before they
were proved.

### CheckpointScheduleProofs

* `TypeCorrect`: `Spec => []TypeOK`;
* `OneAtATime`: `Spec => []Isolation`;
* `FirstFailureStays`: `Spec => PrimaryFailureSticky`;
* `TeardownTruth`: `Spec => []TeardownOnceAfterJoin`;
* `StatusIsTrue`: `Spec => []CleanupTruthful`;
* `LimitsWin`: `Spec => LimitsBeatCompletion`;
* `ReportIsTrue`: `Spec => []EvidenceTrue`.

Typing already needs to know that the controller waits for an actor only inside
the schedule, and that one actor runs at a time is a consequence of who holds the
permit. `IInv` therefore joins to the types: `Coherence` (phase, permit and
thread stage of an actor agree), `Lifecycle` (which stages are possible at which
point of the controller), `Started` (all threads exist once the barrier is
passed), `Selection` (only the selected actor may be out of its wait while the
execution is alive) and `Quiescence` (at the points where the observer runs even
that one is back). Teardown needs `CleanInv`: which threads are joined at each
point of cleanup, and what the cleanup status says about them. Actions of the
workers only touch one actor; one lemma about such a step and one about a
controller step that leaves the actors alone carry most of the induction.

That the report is true needs three more. `ReachInv`: an arrival that the
controller is about to record was reached in this interval. `ReplayInv`: as long
as nothing failed, the rows are those of the steps taken so far, two per step and
one or two of the step under way, and so are the observations; and the arrival of
the selected actor is new, since its permit made it forget the old one.
`ConfirmedInv`: confirmed cleanup has seen the teardown return. A report that
passes is then a full replay, because completion is only recorded at the end of
the schedule. `LimitsBeatCompletion` needs only `IInv`: completion is recorded in
the critical section that looks at the deadline and the stop flag.

### ControlledSyncProofs

* `GrantsAndTeardown`: `Spec => []SyncInv`;
* `DeadlockIsProved`: `Spec => []DeadlockEvidence`;
* `EvidenceStays`: `Spec => EvidenceKept`;
* `LateWorkNeverEnds`: `Spec => LateNeverEnds`;
* `PassedIsWhole`: `Spec => []PassedIsComplete`;
* `ReceiptIsExact`: `Spec => []ReceiptExplainsResources`, if `Unwinders = {}`.

The inductive invariant is `IInv`: types, requests that fit their resource,
owners that can still release (`Owners`), who may move at each point of the
controller (`Quiet`: before the barrier nobody, later only the selected actor,
and while it sleeps with a grant the operation is possible), what a verdict
implies (`Verdicts`) and how far cleanup is (`Cleaned`). That a grant stays
possible is `Quiet`'s heart: between the grant and the wake-up nobody else can
touch a resource. The graph of a deadlock was computed from a state in which
every actor rests, and no later step replaces it.

A report that passes is described by `Complete`, which holds while the execution
is healthy: rows come in pairs of a grant and its result, observations are
numbered through, and the number of an actor's result rows is tied to its
position in its program and its stage (`Counted`). That the receipt explains the
resources is `Explained`: a mutex belongs to an actor exactly if the latest of
its rows on that mutex is a lock, and a queue is what was sent and not yet
received. Its hypothesis is not one of convenience: an actor whose code handles
an exception that passed its `MutexGuard` releases the mutex without a row, and
`sync_unwind` shows the receipt wrong then.

### ScheduleBindingProofs

* `BooksAreRight`: `BindingSpec => []BindingInv`;
* `VerdictIsEarned`: `BindingSpec => []PassedIsEarned`.

The invariant is `BooksInv`. Its part `Books(session, execs, records)` is a
predicate of three values rather than of the state, because `initialize`
disposes of one execution and starts another, and the books must balance in
between: the live execution is the last one started, all before it passed, each
has one receipt that is not better than it, what has its receipt is closed, and
no more executions were started than `initialize` counted. `Earning` says that a
replay that can still pass started an execution at every initialization, so that
`fully_completed`, which counts receipts, has missed none.

### ClientProofs

* `ConnectionTruthful`: `JobSpec => []ConnectionInv`;
* `SessionInStep`: `SessionSpec => []SessionInv`;
* `PoisonIsFinal`: `SessionSpec => PoisonedForGood`;
* `FlowLeavesNothing`: `FlowSpec => []FlowInv`;
* `ComputesFromReported`: `FlowSpec => []ContinuesFromReported`;
* `SuccessMeansAll`: `FlowSpec => []SuccessIsEarned`;
* `FlowRefinesConversation`: `FlowSpec => ConversationKept`.

The three client modules in turn. Replies carry no number on the wire, so that a
reply belongs to the call that reads it has to come from the discipline of the
connection: at most one message is underway, and nothing between calls unless
the connection is closed (`Underway` of the jobs; for the session `Waiting` and
`Usable`). This is what makes an exception of the codec harmless there: it comes
after the one reply underway was read. The session's invariant also keeps why it
ended.

For the flows one predicate per program point (`AtIdle`, `AtNegotiate`, `AtStep`,
...) says what is on the wire, what the guard allows and who owns a binding
there: in the loop, how many steps are not answered yet and that the last report
is what the computer continues from. `AtIdle` has the two ways to return, closed
or escaped; `AtDispose` does not say whether the transport is closed, since an
exception may have passed the loop before it closed. The refinement follows step by step:
`StageKnown` computes the stage and the debt of the conversation from the program
point, and each action then is a step of `Conversation` or leaves both unchanged.
Both maps are functions of the traffic, so nothing is assumed about them.

### FiniteExplorationProofs

* `EnumerationIsExact`: `Spec => []EnumerationExact`;
* `CompleteIsAll`: `Spec => []CompleteMeansAll`;
* `CampaignHolds`: `Spec => []CampaignInv`.

For every number of actors, every length of their chains, every preemption bound,
cap, number of inputs and of runs, from `SpacesAssumption` (chains and inputs are
not empty, the cap is positive), and for every runner. `FiniteInv` has two halves.

The search: that the schedules found so far are merges in order says nothing of
those that are missing. `Swept` says which they are: the loop indices of the
frames are a position in the canonical order, a merge is behind it if some index
has passed it (`PassedBy`), and the schedules found are exactly the merges behind
it. A frame that is entered passes nothing; a loop that skips an actor passes
nothing, because no merge continues the path that way (`LoopChooses`); a loop that
is exhausted has passed all that continues its path (`LoopExhausted`); a complete
path passes itself. At the end of the outermost loop everything is passed. A
search that is cut short keeps the same cut, so the rest lies beyond all that was
found. `exhausted` with nothing found is impossible, since an actor that is not
finished may always go on (`LoopHadOne`), and a list in strict order has as many
members as it is long (`OrderedOnce`).

The campaign: `Counts` and `RowsTrue` tie the counters to the rows, `Place` ties
the number of rows to the position in the two loops, `Covered` says that every
pair before it has its row, `Sound` that as long as the campaign is not halted
every row is clean, kept and in time, `Verdict` what the reason and the verdict
mean at each point. A verdict of complete then has the place at the end of both
loops, and the search exhausted.

The merges are counted without any recursion: positions are cardinalities of
sets of steps, for which `FiniteSetTheorems` has the facts about one element more.

### PrefixExplorationProofs

* `SearchAccounts`: `PrefixSpec => []SearchInv`;
* `CompleteIsWholeTree`: `PrefixSpec => []CompleteMeansTree`.

For every finite set of actors, every application and every bound, from
`SearchAssumption`: an application has a maximal decision sequence, and none of
them continues another, which is what "maximal" means; nothing is assumed about
how long or how many they are. `PrefixInv` says why an unexplored node lies below exactly one
waiting prefix: no waiting prefix continues another, none is related to the one
in hand, and nothing below them was explored (`Apart`); and every node is
explored or below one of them (`Below`). Replacing a prefix by its branches keeps
this because an inner node continues with an enabled actor and with no other.
`Tallied` ties the two counters to the leaves explored, `Underway` says what is
known of the attempt at each point (a search not stopped has a confirmed cleanup
and an outcome that is the application's), `Accounted` ties the rows to the runs.
That the enabled actors are pushed in descending order, each once, is
`Descending`, a function of the number of larger members, so that no sorting has
to be reasoned about.

### LineTransportProofs

* `TransportSound`: `LineSpec => []TransportInv`;
* `LinesCrossWhole`: `LineSpec => []LinesWhole`.

For every kind of transport, limit, size of a read and of a pipe, every set of
line lengths and every mirror, from `TransportAssumption` (the sizes are
positive). `LineInv` has a part for each thing a step may disturb: `Held` (which
descriptors and bytes there can be before and after a connection), `Child` (who
has the child's exit code, and when), `Writing` and `Sent` (what was written ends
at the offset of the line in hand, as long as somebody may read it) and
`Received`: the buffer is the mirror's output from just after a line feed up to
what was read, and every line before that was handed out or was a blank one.
Most steps move no byte (`Control`) and share one lemma. `recv_line` takes the
first line feed of the buffer (`LfAtFirst`); that the bytes before it are one
whole line (`LineInBuffer`) is an induction on their places, which rests on
`Least`: a set of numbers has a least member.

### ValidateCommandProofs

* `WalkExact`: `ClosureSpec => []ClosureExact`;
* `RegistryTruth`: `LookupSpec => []RegistryExact`;
* `CommandTruth`: `CommandSpec => []CommandTruthful`;
* `CommandCallsExact`: `CommandSpec => [](ClosureExact /\ RegistryExact)`.

`WalkExact` holds for every file system, every root and every list of search
directories, from `ClosureAssumption` (the file systems
have the type they should, and "no file" is not a file). That the result is the
smallest closed set says nothing about a walk that is under way, so the inductive
invariant `WalkInv` says what has been achieved: `LoadedInv` (the root first, no
file twice, `visited` is what was loaded, every loaded file is readable and
needed) and `ProgressInv` (the imports of every file before `idx`, and those
before `pos` of the file at `idx`, are builtins or resolve to one visited file).
At the end nothing is left, so that what was loaded is closed, and therefore
holds all that is needed. No induction over the file system's graph is used:
`Needed` is the intersection of all closed sets.

`LookupInv` follows the answer and the attempts: how much has arrived
(`Arrived`), that the candidates are the usable entries among those parsed so
far, in order (`Found`), that those before the one in hand cannot be connected to
and only those up to it were contacted (`Tried`), what the attempt in hand has
passed (`Attempt`) and which socket is open (`Connection`). Each candidate keeps
the number of its entry, so that order needs no induction. `CommandInv` joins it
to `WalkInv` and says for each point of `main` which of the two calls has not
begun, is under way or has succeeded; the exit code then is the verdict
(`ExitTold`). The command is a composition: its steps are steps of the walk or of
the lookup beside an unchanged rest, so the lemmas about both are used as they
are. Both invariants hold for the calls inside the command too, which is
what `CommandCallsExact` says.

### Only model-checked

* Liveness (`CallsReturn`, `DestructorEnds`, `CommandEnds` and the other
  properties with fairness): outside the prover's reach.
* `ValuesExact`, `MessagesExact`, `AdmissionExact`, `ImportsExact`: the codec, the
  admission and the scanner are recursive, and what a recursive definition
  computes for every input is out of reach: the provers lose their SMT backend in
  a module that reaches a RECURSIVE operator.

Code that builds a sequence in a loop is modelled as that loop where a proof is
about it (`ParseEntry`, `AddSearchDir`, the two loops of `explore_finite`): positions and `Append` can be reasoned
about, a filter over a whole sequence cannot.

## 5. What could come next

1. The request side of `model_interface.cpp` with its size limit.
2. That the executions `ScheduleBinding` assumes are those of
   `CheckpointSchedule`, as a refinement rather than by reduction to a `Report`.
3. Termination of both searches: each ends after as many steps as there are
   merges or nodes. The invariants above name the measure, but the argument
   needs fairness, which is out of the prover's reach, and no run asks for it.

## 6. What is not modelled

Text: identifiers, digests, wording, byte counts; the parsing of JSON text into
documents (nlohmann's) and of URLs; what is rendered for people. Where the code
refuses a text, a model value stands for it or an action may refuse. In
`model_interface.cpp` the building of a registration request and its size limit
and the report texts; in `spec.cpp` `default_search_dirs`, which splits an
environment variable. Memory: object lifetime beyond the handle's. OpenSSL and
the operating system except for what calls on them return. The Windows branches of `process.cpp` and `net.cpp`, which the
sources call unvalidated, follow the POSIX ones and are not told apart.
