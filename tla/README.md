# llm-osd in TLA+

`llm-osd` is a daemon that carries out *action plans* for a language model: a client
connects to a Unix socket, sends one JSON plan, and gets back one result per action.
This directory holds TLA+ models of it, TLC configurations that check them on small
instances, and proofs checked by TLAPS for every instance.

Names in the modules follow the source (`MayAct` and a few others are ours).
A text of the plan is abstracted to what the code compares: its exact value, what
`str::trim` leaves of it, and its length. An `Option<T>` is a set with at most one
member. Wording of messages, the values of output bytes and JSON syntax are left out.

## The system

| part | source | state | operations | modelled by |
|---|---|---|---|---|
| request handling | `llm-osd/src/server.rs`, `main.rs` | one task per connection: where its handler is, the results so far | `run`, `handle_client`, `execute_action`, `plan_action`, `write_request_error` | `Daemon` |
| request intake | `server.rs` (the read loop) | `input`, `exceeded`, `idle` | read with idle timeout, limit | `RequestRead` |
| plan contract | `llm-os-common/src/lib.rs` | none | `parse_action_plan`, `validate_action_plan` | `ActionPlan` |
| octal modes | `lib.rs`, `llm-osd/src/actions/files.rs` | none | `is_octal_mode`, `parse_mode` | `FileMode` |
| policy | `llm-osd/src/policy.rs` | none | denied and free programs, sensitive paths, token comparison | `Policy` |
| exec action | `actions/exec.rs` | the child process, its pipes | spawn, wait and collect under a timeout, truncate | `Daemon` (the process), `ExecOutput` (its output) |
| file actions | `actions/files.rs` | the file, offsets, collected bytes | `read`, `write` | `FileActions`, and one step each in `Daemon` |
| audit log | `audit.rs` | the file | `append_record` | `Daemon` (when, and what of the results), `AuditLog` (the bytes); not its redaction |
| socket path | `server.rs`, start of `run` | a file system entry | exists, remove, bind | `SocketPath` |
| client | `llmsh/src` | what it sent and read | `send`, `ping`, `validate`: overrides, local validation, the exchange | `Llmsh` |
| peer credentials, schema generator | | none | | not modelled |

How they interact: `run` accepts and spawns `handle_client`, which reads the request
(`RequestRead`), parses and validates it (`ActionPlan`), and loops over the actions; each
goes through the gates (`Policy`) and then to `exec::run`, `files::read` or `files::write`.
Only after the response has been written does `audit::append_record` run. Handlers share
no memory. They share the file system, the log, the process table (a timed-out child is
left running) and the fate of the process: an error of `accept` ends `run`, and with it
every handler. `llmsh` shares the contract crate with the daemon and meets it only at the
socket: it writes a request, shuts down its writing half, and reads until the end.

What is hard here: handlers that interleave at every await; effects that come before the
answer and the answer before the record, with fallible awaits on the client's socket in
between; children that outlive the handler that started them; crashes at any of these
points; the same gates written twice (`execute_action`, `plan_action`) and the same mode
string examined twice, in two crates; file actions on one path, appends to one log and
daemons on one socket path with no order between them; two pipes and one timer; a socket that
both sides fill before either reads.
`PROJECT.json` lists each hazard at its line.

What makes each part correct:

- request handling: only permitted actions ever act, one at a time and in order; answers,
  effects and audit records agree; handlers do not block each other, though each may be held by its own client or plan.
- intake: no byte is lost or reordered unless the request is rejected as too large, and
  that happens exactly above the limit; a pause or the end of the client's sending ends it.
- contract and policy: a valid plan meets no fallback behind validation; a dry run predicts
  the gates; an unconfirmed path stays in scope.
- file actions: an undisturbed write is exact, an undisturbed read is the beginning of the
  file; what is reported under concurrency is still backed by the file.
- exec output: an answer with output is complete, whoever inherited the pipes; nobody is held
  on a full pipe while the daemon waits; once the child is gone only a holder of its pipes prolongs the wait.
- audit log: what was acknowledged is in the file, lines keep their bytes in order, a torn line
  costs at most the record glued to it.
- socket path: what vanishes or is in use during a start was another start's; after the starts the path leads to a daemon, unless one
  died or was denied its bind.
- client: the daemon accepts what `llmsh` found valid, the answer arrives whole while the daemon lives and can read, no exchange hangs.

## The modules

`FileMode` → `ActionPlan` → `Policy` → `Daemon` extend each other in this order;
`RequestRead`, `FileActions`, `ExecOutput` and `AuditLog` look into what is a step or a wait of
`Daemon`; `SocketPath` is what comes before it. `Llmsh` extends `ActionPlan` and composes the client
with an instance of `RequestRead`.

**FileMode.** `IsOctalMode` and `ParseModeOk` on sequences of characters. The width of `u32`
matters for `parse_mode`, so `FitsU32` says which octal numerals are below 2^32.

**ActionPlan.** `ValidPlan` with one operator per variant of `Action` and every limit of the
code. All checks end in the same error code, so their order is left out.

**Policy.** `policy.rs`, and the two gate functions `ExecuteRefusal` and `PlanRefusal`, which give
an action its error code or `NoError`. A path is the sequence of its parts between slashes.

**Daemon.** Each connection `c` has a `phase`:

| phase | the handler is | left by |
|---|---|---|
| fresh | not accepted yet | `Accept` |
| reading | in the read loop, parsing, validating | `RejectOversized`, `RejectUnreadable`, `RejectInvalid`, `ReadFails`, `Admit` |
| acting | in the loop over the actions (index `Len(results[c]) + 1`), or past its end | `Spawn` (the other steps of an action stay in the phase), `Respond`, `RespondFails` |
| waiting | in `timeout(.., cmd.output())` | `ExecFinishes`, `ExecWaitFails`, `ExecTimesOut` |
| auditing | between the response and the end of `append_record` | `AppendRecord`, `AuditFails` |
| done, lost | returned, or gone with the process | – |

`Heard(c)` stands for the end of the read loop, and all that leaves `reading` but a failed read needs it. The loop times only the wait for
the next byte, so that a client of which `peer[c] = "sending"` is read, or drained, for as long as it goes on.

`peer[c]` is the client's end (reading, stalled, sending, gone; `ClientTurns` makes it read again), `answer[c]` the response written to it
(a set with at most one member), `children` the running child processes, `touched` a history
of the actions that have begun to have an effect, `audit` the log. A child process may act (`ChildActs`)
as long as it lives, also after the timeout, the answer or a crash. A file write is two steps, `FileChanges` and its end `WriteFile`,
so that a crash or a failure may come before the file has changed or after. `AtWaitingFile` is a file action on what may
keep its caller waiting, such as a FIFO: the code sets no timeout there. `AuditFails` is each `?` after the response,
that of `shutdown` included. `Crash` stands for both the death of the process
and `accept` returning an error. A result that is not `NoError` is reported exactly as the
code's early returns do; an `exec` that ran carries no error whatever its exit status.

What may have an effect is stated once, by `Permitted`: `PermittedActions` tabulates, for every
request, what validation, the mode and the gates leave, so that the properties do not depend on the guards
of the actions they examine.

**PlanService** is the abstract specification: what a client may rely on, without phases, child processes or
policy. A request is `Refuse`d as a whole, or its actions are `Report`ed one at a time and in order,
each at most once; an allowed action may `Act` from its turn on, even after its report (a timed-out child) and
after the request has `Cease`d (a crash, a client that left), but never for a refused request; a full report is
`Answer`ed, and only what has been answered is `Record`ed, once. `Daemon!Service` instantiates it with
`reported` the number of results, `effects` the history `touched`, `log` the connections of the audit
records and `status` computed by `Status` from the phase, the log and the answer: a handler is open until it
has answered, a crash or a failed `?` makes it ceased.

**RequestRead.** `Send` and `Close` are the client, `Read` one turn of the loop, `EndOfInput`,
`IdleTimeout` and `ReadFails` the ways out. A byte is its position in what was sent, so
that `input` shows what it was made of. The timeout needs an empty socket: while bytes are
there, `stream.read` is ready and wins. `taken` is a history counter, cut off one past the limit.

**FileActions.** One path, several writers and readers, one action per system call: open with
truncation, `write(2)` of any part at the writer's own offset, `chmod` on the path; open,
`read(2)` of any part. A byte is `<<writer, position>>`. `undisturbed` and `lengths` are history variables.

**ExecOutput.** One subprocess, and what it forks: `holds[p]` are the pipes `p` has a writing end of, which a fork
passes on. A process writes a byte by `BeginsToWrite`, and is held until `Prints` finds room or `BreaksOff` finds the daemon's
end closed, or the process is killed (`Exits`). The daemon `Collects` from both pipes, and `Returns` when the child has exited and both pipes have
ended, or it gives up (`WaitFails`, `TimesOut`). Bytes are counted, and `Shown` is `truncate_bytes` on counts.

**AuditLog.** `append_record` on a `tokio` file: `HandOver` gives the line to a thread, whose `Put`s are `write(2)` calls of
any length at the end of the file (`O_APPEND`), and `Flush` waits for it. `AcceptFails` takes the
handlers away and lets the threads finish, `Kill` takes the threads too, `Restart` appends to the same file. A byte is
`<<handler, position>>`; `cuts` is a history: the last byte of each `write(2)` that took less than it was given.

**SocketPath.** `run` up to `bind`, by any number of daemons: `Look`, `Remove` or `RemoveFails`, `Bind` or `BindFails`, and
death at any point. A start fails in one of three ways: what was to be removed has vanished (ENOENT), the path is in use (EADDRINUSE), or the
system denies `remove_file` or `bind` for any other reason (`Denied`: a sticky directory, a directory at the path, a dangling link, no
descriptors left). All three return from `run`; they are told apart because only the first two say something of other
starts. `path` is whose socket is there, dead daemons' included. `raced` and `vacant` are histories: who overlapped
another start, and whether the daemon that had the path last has died, or one that was about to bind has died or was denied it.

**Llmsh.** `Compose` decides what becomes of a command: `SendAccepts` applies the overrides and validates, `PingAccepts` parses, validates and
then applies the overrides, as the code does; `plan_only` is refused by `send`. The client then `Connect`s, which may be refused though the daemon lives, `Write`s pieces
of its request as the socket takes them, shuts down and reads to the end. The handler reads through `Intake!Read` and the other actions
of `RequestRead`, `Decides`, `Replies` piece by piece, `HangsUp` and `Drops` the connection. A read that fails (`Intake!ReadFails`, the `?` on `stream.read`)
leads to `Drops` at once, without an answer, and the daemon may die at any time. A dropped
connection with unread bytes is reset, so that the client's next read may fail.

**MCDaemon, MCFileActions, MCAuditLog, MCLlmsh.** Values for the constants.

Modules ending in `Proofs` hold the theorems. Operators introduced by a comment "A wrong ..."
are plausible mistakes in the definition that follows them; nothing uses them, they exist so
that each property can be shown to notice one.

## The runs

| run | module | what it checks |
|---|---|---|
| `daemon_gates` | MCDaemon | `OnlyPermittedEffects`, `DryRunPredictsRefusals`, `NoFallbackReached`, `UnconfirmedFilesInScope` |
| `daemon_faults` | MCDaemon | `TypeOK`, `ActionsStartInOrder`, `UnexecutedMeansUntouched`, `OneResultPerAction`, `ReportedMeansDone`, `AuditMatchesAnswers`, and `ServesPlans`, the refinement of `PlanService` |
| `daemon_liveness` | MCDaemon | `HandlersEnd`, `EffectsGetAudited` |
| `request_read` | RequestRead | `TypeOK`, `InputIsAPrefix`, `LimitIsExact`, `ReadingEnds` |
| `file_actions` | MCFileActions | `TypeOK`, `BytesKeepTheirPlace`, `QuietWriteIsExact`, `ReportedLengthWasSeen`, `QuietReadIsExact` |
| `exec_output` | ExecOutput | `ResultTellsAll`, `NobodyIsCutOff`, `WritersGetOn`, `WaitsOnlyForHolders` |
| `audit_log` | MCAuditLog | `AcknowledgedIsWhole`, `BytesInOrder`, `DamageIsBounded` |
| `socket_path` | SocketPath | `StartFailsOnlyInARace`, `PathLeadsToAServer`, `StartsBringAServer` |
| `llmsh` | MCLlmsh | `TypeOK`, `SentIsAccepted`, `AnswerArrives`, `PrintedIsWhole`, `ExchangeEnds` |

All of these hold. Their bounds:

- *Two connections* are enough for every property of `Daemon`: each relates at most two
  connections (the dry run to the execution, one record to another, one handler held up by another).
- `daemon_gates` takes every pair of requests from `GateRequests`: one action of each kind that a
  gate or a fallback tells apart (an allowed, an unlisted and a denied program; a path in `/tmp`,
  one elsewhere, a relative one that climbs, one that leaves `/tmp` through `..`; an observe tool
  that is known and one that is not; each kind only plan_only supports; mode strings and targets that must be
  rejected), both modes, no token, the right token in blanks, a wrong token.
- `daemon_faults` uses plans of two actions, because order, partial failure and a child that is
  still alive during the next action need two and no more, with every fault but a client that stalls or sends on: one that
  takes no step of its own only holds its handler back, so only the liveness run can tell. A crash can happen any number of times.
- `daemon_liveness` has a write followed by a read of a FIFO, a program, and a text that is no plan, clients that leave, stall and send on, and
  crashes; no symmetry.
- `request_read` has a limit of 5, a buffer of 3 and a socket of 4: chunks that end below, at and
  above the limit, and chunks that would fit again after one was dropped. The modelled sizes need
  only this relation; the code has 262144, 4096 and the kernel's.
- `file_actions` has a write shorter and one longer than the reader's limit of 2, on a file that is
  at first empty, shorter than, equal to, one or two longer than the limit.
- `exec_output` has a child and one process that inherits from it, pipes of one byte, a limit of 2 and
  up to 3 bytes in each pipe: below, at and above the limit, and more than a pipe holds.
- `audit_log` has three lines of 3, 3 and 2 bytes. A torn line needs two `write(2)` calls; two lines can tear each
  other, and a third is hit by either.
- `socket_path` has three daemons, enough for two to race while a third serves or has died.
- `llmsh` has a limit of 3, requests of 1, 3, 4 and 7 bytes, a buffer and a socket of 2: a request that is sent in
  one piece, one at the limit, and two above it, the longer of which the client is still writing when the limit is passed.

Two properties deserve a remark. `AuditMatchesAnswers` is one direction only: that every answer
has a record is what the code does not do (see below). `EffectsGetAudited` excepts clients that leave, a daemon that
dies, and a handler that is `Held`, for the same reason. `Held` names the three waits that nothing in the code bounds: a client that sends on and on, one that
does not read the answer that is being written to it, and a call on a file that does not return. Each is brought about by the client or the plan of that
very connection; that no other connection and no child process can do it is what `HandlersEnd` says.

### Fairness

`Daemon!Fairness` is per connection, because each is a task of its own, and tokio polls every task that is ready and fires every timer. `Accept` is fair; the
handler's own steps are, except those on a file that waits; and what is written to the client (a rejection or the response) goes
through only if the client is not stalled. No fairness ends the reading of a client that sends on: `Heard` keeps all that follows
disabled. `ExecTimesOut` is always enabled while a handler waits, so nothing has to be
assumed of child processes; nothing is assumed of clients leaving or turning, crashes or restarts.
`RequestRead!Fairness` makes a read that can go on, the end of the input and the idle timer fair,
and leaves the client free. `SocketPath!Fairness` is about the steps of a daemon's start, not about anyone starting or
dying. `ExecOutput!Fairness` makes the daemon collect and return, and the kernel complete or break a write; it leaves the
timer out, so that `WritersGetOn` does not hold by waiting for it, and binds no process: none has to exit, to close or to
write. `Llmsh!Fairness` is one condition for each side, because each is one task, which goes on when it can.

### Where the code and its documents disagree

Each of these three runs checks a sentence of the documents and finds a counterexample. None of
them says which side is to change.

| run | the document says | the code does |
|---|---|---|
| `doc_each_operation_audited` | `main.rs:2`, an audit log for each request; the task note of 2025-12-27T21-26-33, line 11, every privileged operation is logged | `?` on the response write ends the handler before the record |
| `doc_runtime_bounded` | `exec.rs:1`, bounded runtime | the timed-out child is not killed |
| `doc_danger_needs_token` | the implementation note of 2025-12-26, line 190, no dangerous action without a token | `observe` with `danger` needs none |

Others are plain in the code and have no run of their own:

- `ERRORS.md:9` has `invalid_mode` for a non-execute mode; plan_only is answered with results.
- The summary of 2025-12-27, line 101, says reading stops above the cap; the rest is read and dropped. `AnswerArrives`
  shows why that is better: its mutant `ReadUpToLimit` stops at the cap, and a client that is still writing never sees the error.
- The implementation note of 2025-12-26, line 79, has artifacts as paths created or modified; a failed `chmod` or a partial
  write reports none.
- The same note, line 80, promises an error whenever `ok=false`; a program with a non-zero exit status has none.
- Requests that are rejected (lines 83 to 120 of `server.rs`) are never audited.
- `docs/internal/USAGE.md` pipes plan_only plans into `llmsh send` (from line 36 on) and promises `executed=false`; `send` refuses
  every mode but execute (`llmsh/src/lib.rs:83`), so that only another client gets a dry run.
- `USAGE.md:161` and line 136 of the summary have one JSON object per line in the log; after a cut-off record the next one is glued to it.
  `DamageIsBounded` says how far that goes.

## The proofs

Every invariant that a passing run checks is also proved, as is the refinement; a run shows it on its bounds, the theorem for
all values of the constants that the assumptions of the modules allow:

| assumption | what it says of the constants |
|---|---|
| `RequestsAssumption` | a request has a known form; a `json` one has a mode of the enum and a finite sequence of actions; the mode and the parts of the path of a file action are sequences, and its path waits or not |
| `FaultsAssumption` | the faults are some of those named; any subset will do |
| `InvocationsAssumption` | a command of `llmsh` has one of three names, and a plan with the fields of `ActionPlan`; ids and requests have sizes |
| `AnswersAssumption` | a request error fits into the socket's buffer, see below |
| `SizesAssumption`, `IntakeAssumption`, `LengthAssumption` | buffers and sockets hold something, a line is not empty, limits are numbers |
| `NoFileAssumption` | no daemon is the file that is not there |

Nothing is assumed of the contents of an action: that it is of a known kind, for example, follows from its having passed `ValidPlan`.

**DaemonProofs** shows `TypeOK`, `OnlyPermittedEffects` and `UnexecutedMeansUntouched`. None is inductive: that a child process was
permitted is known when it is spawned, in a handler that is acting, and the handler knows it because its plan
was admitted. `IInv` therefore adds `AdmittedIsValid` (past reading, the plan is valid), `WaitingIsPermitted` (the
action waited for has passed the gates) and `UnexecutedIsNoExecution` (an answer with `executed = false` comes
from a request that could not execute). The last one with `OnlyPermittedEffects` gives `UnexecutedMeansUntouched`.

The same module shows `DryRunPredictsRefusals` and `NoFallbackReached`, for plans of any length. `GInv` adds `ResultsAreJudged`: each
result, of either mode, has the code that the gates of its mode give its action. Then `SameGates` (both gate functions
agree on the kinds that execute mode carries out) gives the first, and validation the second: a mode string by `OctalModesParse`, the
targets of `cgroup_apply` and `firmware_op` by `ValidAction`. `OctalModesParse` is about strings alone: each sequence of
characters, of any length, that validation accepts as a mode is one the daemon can parse.

`UnconfirmedFilesInScope` follows from `GInv` too. A result that is ok, or an action that has had an effect, was not refused, so that its path
needs no token; and `FreePathsInScope` shows that such a path, of any number of parts, stays where it starts. `Depth` counts names and
`..` up to each part, so that no induction is needed: there is no `..`, and from `/tmp` on there is one name at least.

**DaemonServesProofs** shows `ActionsStartInOrder`, `OneResultPerAction`, `ReportedMeansDone`, `AuditMatchesAnswers`, and that `Daemon` implements
`PlanService`. The invariant is `SInv`: `IInv`, and

| conjunct | why it is needed |
|---|---|
| `ActionsStartInOrder` | inductive with the types alone; bounds the effects of PlanService |
| `WaitsForChild` | the result of a wait is one of an `exec` or an `observe` |
| `UnreadIsUntouched` | a rejection finds no result and no effect |
| `WithinPlan` | past the loop there are exactly as many results as actions |
| `ResultsAreTrue` | each result is of its action's kind and backed by `touched` and `children`, before it is answered |
| `AnswersFit` | an answer is an error of a handler that is done and not logged, or the full report of what is in `results` |
| `RecordsFit` | a record is that of a handler that is done, and equals its answer |

Two dozen actions would make seven lemmas of as many cases each. Instead `ActingReports` and `WaitingReports` show once that every
action which ends with a result is a `Reports` step, and `Sorts` leaves eleven sorts of steps for the lemmas. For the refinement,
each sort has a lemma naming the step of PlanService it is (`ReportRefines`, `RejectRefines`, `RespondRefines`, `AppendRefines`,
`CeaseRefines` for a crash and the failing `?`, `ActRefines` for the change of a file and the act of a child), or `StutterRefines`.

**RequestReadProofs** shows all safety properties of the read loop for every limit, buffer and socket size, with an invariant
that ties `input`, `taken` and `exceeded` together.

**FileActionsProofs** shows every property of `FileActions`, for any number of readers and writers. The properties speak of handlers
that have ended; `FInv` says what holds before: the file of an undisturbed write is exactly what it has put (`QuietWrites`), an
undisturbed read has the beginning of the file (`QuietReads`), and what a read has collected fits a length seen, the present
one among them (`LengthsSeen`). `OverwrittenFile` and `FetchedData` say once what one system call does, place by place.

**ExecOutputProofs** shows `ResultTellsAll` and `NobodyIsCutOff`, for any processes and pipes. That an answer also tells what is *ever*
printed needs `WritersHoldTheirPipes`: only a holder of a pipe writes or passes it on, so that once nobody holds it nobody
will (`OutputIsComplete`).

**AuditLogProofs** shows `AcknowledgedIsWhole` and `BytesInOrder`, for any handlers and lines. `LogInv`: the bytes of a line
in the log are its first `put[h]` ones, all of them (`PutBytesAreThere`) and no others (`NoByteAhead`), and `Ok` comes after
the thread that put the last (`OkAfterTheThread`).

For `DamageIsBounded` it adds `DamageInv`: a byte of the log ends a line, or is one of `cuts`, or is followed by the next byte of its own
line (`BreaksAreCuts`), and a line none of whose bytes is a cut is in one piece (`UncutIsWhole`). So a record that was written and
cannot be read has a cut of its own, or it was put whole behind a byte that is a cut; no two of the second kind follow the same byte. `EachDamageHasACut`
makes this two one-to-one maps into the cuts, the first of them into those of records that were written in the end.

**SocketPathProofs** shows `StartFailsOnlyInARace` and `PathLeadsToAServer`, for any number of daemons, with two invariants: whoever finds the
path otherwise than it left it has met another start (`RInv`), and the path is handed on from who removed it to
who binds it (`PInv`), unless that one dies or is denied. A start that is denied is no exception to the first theorem, which speaks of the two other
failures, and is one to the second only when the old socket is already gone.

**LlmshProofs** shows `TypeOK`, `SentIsAccepted`, `AnswerArrives` and `PrintedIsWhole`, for commands, requests and answers of any size. The
handler's steps are those of `RequestRead`, so the lemmas of `RequestReadProofs` are cited through an `INSTANCE`, and its properties hold
in company too (`LoopKeepsItsWord`). `IInv` adds what neither side knows of the other by itself:

| conjunct | why it is needed |
|---|---|
| `Flow` | a byte that was written is in the socket or was read, until one is dropped: what is parsed is the request |
| `HeardOut` | the loop ends with all the client had to say, or on a pause, or on an error: otherwise a connection that is dropped has nothing unread |
| `Connected` | a client that writes or reads has a connection, a client that has not begun has none, and a connection is that of a request `llmsh` let through |
| `InOrder` | an answer comes after reading, and the socket is shut down, or dropped by a handler that could read, when all of it has been written |
| `OnlyLateFail` | a client that was connected fails only if it paused, or the daemon has died or could not read |

`SentIsAccepted` leaves two things to the daemon: the size of the whole request, and the length of an id that `ping` sets after
validating its own plan.

## What is only model-checked

Liveness (`HandlersEnd`, `EffectsGetAudited`, `ReadingEnds`, `StartsBringAServer`, `WritersGetOn`, `WaitsOnlyForHolders`, `ExchangeEnds`): fairness and
ENABLED are out of the prover's reach.

`AnswersAssumption` holds for what `llmsh` sends: an error is fixed text around a message of validation or of serde, and the `request_id`,
which `validation_failed` echoes. `send` keeps that id to 128 bytes, and `ping`, which does not check it again, to what Linux allows for one
argument, 128 KiB; the kernel's buffer has some two hundred thousand bytes. And it is needed, for `ExchangeEnds`:
a client that pauses in the middle of a long request is parsed early, and if the error did not fit, the handler and the client would
each be in `write_all`, waiting for the other.

The limits of `ValidPlan` are translated, but only some of them have a run on their boundary.

## What is not modelled

- Symbolic links, and what a program does beyond "it acts" and "it prints": the code looks at neither.
- The values of program output (lossy UTF-8, base64) and the memory it takes before it is truncated.
- The redaction of audit records (`redact_plan`, `redact_result`): a list of fields by serde tag, with no state; a model would set a second list beside it.
- What the thread of a file write that has begun still does when the runtime is dropped around it: `Daemon` takes the change of a
  file for part of the handler (`AuditLog` follows such a thread for the log).
- Peer credentials (one `getsockopt`, copied into the record) and timestamps.
- JSON decoding: a request is `json` when serde accepts it. What serde derives from the types, and the schema generator
  that prints them, keep no state.
- Where `llmsh` takes its input text from (option, file, standard input), and the command line parsing of both programs.
- Two hosts: the socket is local, so that a connection never loses or reorders bytes.

## Plan

1. done: `FileMode`, `ActionPlan`, `Policy`, `Daemon` with `PlanService`, `RequestRead`, `FileActions`, `ExecOutput`, `AuditLog`, `SocketPath`,
   `Llmsh`, and the proofs above.
2. `FileActions` and `ExecOutput` as implementations of the single steps `ReadFile`, `WriteFile` and `ExecFinishes` of `Daemon`.
3. What a client may conclude from `PlanService` alone, as theorems about it, which `Implementation` carries over to `Daemon`.
4. A run of `ValidPlan` on all the boundaries of its limits.
