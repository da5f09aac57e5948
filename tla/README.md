# A TLA+ model of Lethetic

Lethetic is a coding agent: a terminal program (Rust, `src/src`) that holds a
conversation with a model server, runs the tool calls of the model's replies
under the user's control, and can be driven from a browser (`src/web`) through a
server inside the same process (`src/src/wfe`). This directory holds TLA+ models
of its concurrent core, the TLC runs that check them on small instances, and
TLAPS proofs about them. Paths below are relative to the repository; `bin/` is
`src/bin/lethetic/`, `app/` is `src/app/`.

## The system

| | component | state | operations | speaks to |
|---|---|---|---|---|
| A | **Turn engine** (`bin/`, `app/`, `client.rs`) | the flags of `App` and `RuntimeContext`, the queue of `StreamEvent`s, the cancellation token, the shutdown coordinator | send a prompt, handle an event, approve/deny/answer, stop, retry, shut down | the client task of each request (events, checkpoint acknowledgements), the tool tasks (results), the user, the signal supervisor |
| B | **Mirror stream** (`wfe/state.rs`, `wfe/server.rs`) | the snapshot and a broadcast channel of patches; per connection the state it sent last | publish, send a snapshot, send a patch, recover from a lag | the actor (publishes), the browser's reducer |
| C | **Command replay** (`wfe/actor.rs`, `wfe/runtime.rs`, `wfe/server.rs`, `web/src/transport.ts`) | requests in flight, a bounded cache of answers; in the browser the unanswered commands | send, resend after a reconnect, admit, refuse, execute, remember, evict | B (the expected revision of a command), A (commands are its inputs) |
| T | **Browser transport** (`web/src/transport.ts`, `app.tsx`) | the socket, five timers, the authentication and its proof, the liveness request; the phase that the page shows | authenticate, connect, watch, reconnect, go stale, sleep and wake with the network and the page | B and C (their messages travel on its sockets) |
| D | **Background tasks** (`background.rs`) | the registry of tasks, each with its state, stop token and notify target | start, stop, finish, switch the mode, collect finish notices, forget | A (a notice becomes a prompt) |
| E | **Session storage** (`session_store.rs`, `app/lifecycle.rs`, `storage*`) | session directories, lifecycle records, leases, the database, legacy files | create, lock, save, resume, load, delete, recover, migrate | A (checkpoints), F (the runtime of a session) |
| F | **Retained Python runtime** (`python/retained_*`, `python/runtime_store`) | container records, leases | launch, attach, expire, clean up after a crash | podman |
| L | **Transient container cleanup** (`python/mod.rs`, `python/retained_podman/transient.rs`, `cleanup_queue.rs`) | the guard or worker that owns a container, a directory of cleanup records | create, discard, drop, record, retry; work off the queue | podman, other programs on the same directory |
| G | **Egress broker** (`python/egress_broker`) | policy, open relays | admit, relay | the network |
| H | **Pure algorithms** (`loop_detector.rs`, `provider_retry.rs`, `engine/compaction_plan.rs`, `todo_store.rs`) | none, or a small sequential one | detect a loop, delay a retry, plan a compaction, edit the todo list | A |
| I | **Browser agent** (`browser/src`) | its own loop, in one thread | a turn without server | |
| J | **Web front end** (`web/src`) | the reducer's copy of the state | apply a snapshot or a patch, follow the chat | B, C |
| K | nested agents, tools, language servers, terminal UI, configuration, native shells, TLS and login | | | |

What is hard in it, and where:

* **A** is one actor, but what it waits for is not: the client of a request, a
  tool, the user and the signals each put their end of the story in the same
  queue in any order. The same turn can be ended by a reply, an error, a stop, a
  failed save, a shutdown or a retry; each end has to give every call exactly one
  result, take down exactly the flags it owns, and leave something that will take
  down the others. Two events may each think it is theirs to go on with the turn.
  The client blocks until the actor has acknowledged its checkpoint.
* **B** publishes the new snapshot before its patch, and a connection may lag:
  what a browser shows must be a state that was published, and patches must
  extend exactly the state that it was sent last.
* **C** resends commands whose answer was lost. Applied at most once across
  reconnects is the point; the cache forgets, admission refuses.
* **T** has no thread, and yet everything interleaves: sockets, timers, the network, the
  back/forward cache and the server each fire an event of their own, and each handler has to leave
  something behind that will fire the next one, but never two.
* **D** runs processes that outlive the turn; their end is to be told once, to
  the model or to the user, whichever mode is on by then.
* **E, F, L** persist: a crash between two steps leaves records that the next start
  must understand.
* **L** has to remove what it made although a create that was cut off may take effect later, and although
  the worker's own cleanup and passes of several programs work on the same record.

`PROJECT.json` lists every component and, under "hazards", each of these at the
line where it bites.

## What is modelled now

| module | of | contents |
|---|---|---|
| `TurnPromise` | A | what the engine promises of a turn, without queues, flags, tokens and saves: one works at a time, a due call runs or gets its result, the model is asked with all results |
| `TurnEngine` | A | state, actions and properties of the turn engine; the mapping to `TurnPromise` |
| `MCTurnEngine` | | sets of call kinds for the configurations |
| `TurnEngineProofs` | A | type correctness |
| `TurnEngineSafetyProofs` | A | the liveness markers, the executing flag and the pending call; one worker, one result a call, the reach of a stop, requests with complete results; that the engine is never stuck, that nothing starts after a stop, and that `TurnEngine` implements `TurnPromise` |
| `MirrorPromise` | B, J | what the mirror promises, without channels: published revisions are shown whole and in order |
| `MirrorStream` | B, J | publisher, connection, wire and reducer; properties; the mapping to `MirrorPromise` |
| `MCMirrorStream` | | the blank state of the instance |
| `MirrorStreamProofs` | B, J | type correctness, views, order of patches, and that `MirrorStream` implements `MirrorPromise` |
| `CommandPromise` | C | what remote control promises of a command, without sockets, mailboxes and caches |
| `CommandReplay` | C | browser, wire, session tasks, mailbox, admission, cache, session loads, stops and crashes; properties; the mapping to `CommandPromise` |
| `MCCommandReplay` | | a command of each kind |
| `CommandReplayProofs` | C | type correctness, capacities included; at most once, no misplaced answer, true refusals, and that `CommandReplay` implements `CommandPromise` |
| `BrowserTransport` | T | the page's transport and phase, the network and the server around it; properties |
| `MCBrowserTransport` | | the instance |
| `BrowserTransportProofs` | T | type correctness and the five safety invariants |
| `BackgroundTasks` | D | registry, supervisors, the waiting call, the loop's notices, the exit; properties |
| `MCBackgroundTasks` | | the instance |
| `BackgroundTasksProofs` | D | type correctness and the three safety invariants |
| `SessionStore` | E | the processes on a project's sessions: records, directories, locks, the Python runtime, crashes; properties |
| `MCSessionStore` | | the instance |
| `SessionStoreProofs` | E | type correctness, one user per session, the order in which a session is let go, and that saved work is kept |
| `ContainerCleanup` | L | the workers' containers, their cleanup records, and the passes over them; properties |
| `MCContainerCleanup` | | the instance |
| `ContainerCleanupProofs` | L | type correctness, that no container is forgotten, and that no record is cleared too early |

The models meet where the components do, and are not composed: what one needs of another is an
action that may happen at any time. `CommandReplay` has the revision of the mirror as a number that others
move; `MirrorStream` and `CommandReplay` have a socket that breaks whenever it likes, of which
`BrowserTransport` is the cause; `BackgroundTasks` has turns that begin and end.

A definition that a comment calls a seeded fault is a plausible mistake in the definition after it
(`mutants` of `PROJECT.json`); it is no part of `Next`, and TLC finds the property violated when it takes the place of the right one.

### How `TurnEngine` corresponds to the code

The actor's flags are the fields of `app`:

| field | in the source | field | in the source |
|---|---|---|---|
| `processing` | `is_processing` | `turn` | `active_logical_turn_id.is_some()` |
| `executing` | `is_executing_tool` | `text` | `full_response_content` is not empty |
| `processedCalls` | `tool_calls_processed_this_request` | `cancelPending` | `RuntimeContext.cancellation_pending` |
| `dispatched` | `tool_call_dispatched` | `retryAt` | `provider_retry_at.is_some()` |
| `approval` | the approval prompt is shown | `attempts` | `provider_retry_attempts` |
| `asking` | the question dialog is shown | `pending` | `pending_tool_call` |
| `always` | the standing approval | `queued` | the batch's queued calls |
| `active` | `active_request_id` | `open` | keys of `provider_request_turns` |

`called`, `taken` and `results` are what the transcript holds: the calls of
assistant messages, those of them that the engine admitted, and how many results each has.
`rx` is the mpsc queue, `task` the client of each request (`client.rs`,
with the checkpoint handshake of `bin/provider.rs`), `tools` the spawned tool
tasks. `token`, `cancelled` and `rooted` are the `CancellationToken`s, named
after the request that they were made for; `rooted` are the children of the shutdown
token. `life` is the `ShutdownCoordinator` with the shutdown token and the
queued signal. `batch` is true while the actor drains stream events: the actor
handles up to `MAX_STREAM_EVENTS_PER_TICK` of them before it looks at the keyboard, so
commands, timers and signals wait for the end of a batch (`BatchCut` lets a batch end
while events are queued).

An action is a handler as a whole, with its saves and its calls: `HandleChunk`,
`HandlePersist`, `HandleToolCalls`, `HandleToolResult`, `HandleDone`,
`HandleError`, `HandleCancelled`, `HandleFailed` and `HandleIntention` are the arms of
`handle_stream_event`; `SendPrompt`, `AnswerUser`, `Approve`, `Deny`, `Stop` and
`CtrlC` are the user's; `RunDueRetry`, `HandleSignal`, `Exit`, `AbandonRetryAtShutdown` and
`Contain` are the loop's. A handler builds the record it leaves behind and gives it to
the operator that ends it: `StartRequest`, `BeginCall`, `Dispatch` or `Settle`.
A save that may fail is a nondeterministic choice when `SaveFaults` is TRUE.

Abstracted: texts, token counts and logging; which tool runs (a tool is a task
that ends with one result, at any time); Python calls are told from others
only where the actor rejects them ("bad"). Left out of the model, though they
share the actor: Python setup and policy changes, LSP installation, text-format tool
calls, requests nested in a tool, compaction, and loading or switching
sessions. This is why the component is listed as "partly" modelled.

### How `MirrorStream` corresponds to the code

| variable | in the source |
|---|---|
| `state`, `revision` | `MirrorPublisher.state`, `.sequence` and `.revision`; the latest snapshot of the watch channel is made of them |
| `patches`, `broadcast` | the patches made, and how many the broadcast channel has been given; `Oldest` is the oldest that its ring still has |
| `conn` | the locals of `run_websocket_session`: `last` is `last_sequence` and `last_revision`, `known` is `last_known_snapshot`, `patched` is `patched_known`, `next` the position of the patch receiver, `fresh` whether `snapshots.changed()` is ready; `phase` says where between two awaits the task is |
| `wire` | the messages that the server has sent and the browser has not read |
| `browser` | `RemoteState` of `protocol.ts`: `view` is what is shown, `rev` its `sequence` and `revision`, `hello` those of the hello |
| `asked` | the browser's `request_snapshot`: none, pending but not sent on this socket, sent, answered |
| `history` | a record for the properties: what each revision was published as |

`publish` is three actions. A change of volatile sections only (`PublishVolatile`)
replaces the snapshot and makes no revision; `PublishRevision` replaces the snapshot,
and `BroadcastPatch` gives the patch to the ring, after which alone the actor may publish again:
a connection on another thread runs in between. The arms of the `select!` of
`run_websocket_session` are `SkipPatch`, `RelayPatch` with `CheckPatched` (they are two because the
send is awaited between them), `RecoverLag`, `SnapshotChanged`, and `SendAnswer` with
`SendAskedSnapshot`. `TakeHello`, `TakeSnapshot` and `TakePatch` are the cases of
`reduceServerMessage` with what `serverMessage` in `app.tsx` does with the reducer's
effect; `Doubt` is what makes `commandResponse` call a state stale; `RequestSnapshot` is the
stale browser's timer and the probe of an idle one. A socket breaks whenever it likes (`Disconnect`):
this stands for every `break` of the loop, send timeouts and the browser's recovery timers too.

Abstracted: sequence and revision are one number, because the publisher changes them together
and nothing else does. Sections are a set, some of them volatile; in the code `status` and `debugger` have fields of
both kinds and are replaced as a whole, which is a volatile and a semantic section that change together.
A send that waits for room is a send that has the last place on the wire.
Left out: a new authentication epoch, in which the browser starts from nothing; a request for a
snapshot that is refused because the server is busy; the end of the counters' range
(2^53 - 1); protocol errors, which close the socket (`BrowserTransport` has them); commands (`CommandReplay` has them).

The reducer's answers to gaps, repeated patches and old snapshots are in the model, and TLC
never reaches them: the server alone makes sure that they are not needed, which
is what `PatchFollows` and `KeepsPromise` say.

### How `CommandReplay` corresponds to the code

| variable | in the source |
|---|---|
| `browser` | `BrowserTransport` of `transport.ts`: `conn` and `open` are `#socket`, `synced` is `#synchronized`, `proof` the process that the proof belongs to, `pending` is `#pending` in its order, `sent` each command's `sentGeneration`, `completed` is `#completedResponses`, `faulty` a protocol fault for an answer without a command |
| `outcome`, `expected` | what the command's promise was resolved with, and its `expected_revision` |
| `up`, `down` | frames that one side has written and the other has not read, per socket |
| `serving`, `calls` | the tasks of `run_websocket_session` and their `FuturesUnordered` of answers |
| `mailbox` | the mpsc channel of `wfe/actor.rs` |
| `actor` | `WfeRuntime`: `on` is `wfe_runtime.is_some()`, `cache` the replay cache (oldest first), `waiters` the responders of `in_flight` |
| `app` | the application: `load` is `pending_wfe_session_load`, `times` how often each command took effect, `up` whether the loop runs; history: `halfway`, the commands that acted and were then answered with an error |

The browser's operations are `Issue`, `Synchronize` (with `#replayPending`), `MarkStale`, `TakeAnswer`
(`#routeResponse`), `Break`, `Connect` and `Reauthenticate`, which gives the pending commands up when the
server is another process. A session task reads a frame (`ReadFrame`: busy, handed on, or unavailable), sends
answers in any order (`SendAnswer`) and ends (`Leave`). The actor takes one request from the mailbox and answers
it from the cache (`AnswerAgain`), joins it to the one in flight (`Coalesce`), refuses it (`RefuseStale`,
`Fail`), or executes it: `Edit` at once, `FailHalfway` with an error after it acted, `StartLoad` when it is finished by `FinishLoad`. `Remember` evicts for the
count and, because answers differ in length, any number more for the byte budget. `StopRemoteControl` drops the
runtime and keeps the program; `EndProcess` is an exit or a crash; `StartServer` is a new server, with a new proof.

Abstracted: what a command does ("edit" stands for every command that acts and answers in one turn of the loop, "load" for
`ResumeSession`); payloads and fingerprints (a request ID stands for one command: the browser makes a new one for each).
Left out: commands that change nothing, several browsers (their changes are `OtherChange`), questions of login.

### How `BrowserTransport` corresponds to the code

`b` is the page: `socket`, `synced`, `hello`, `closed`, `suspended`, `opened`, `failures` and `token` are the private fields
of the class `BrowserTransport`; `timers` are those of its five timer handles that are set; `action` is `#reconnectAction`;
`asking` is `#authenticationInFlight`; `probe` and `sent` are the pending request for a snapshot, the application's or the
liveness check's; `proof` the process whose proof the page holds (0: none); `mute` says that the other side is gone
without the socket having noticed. `phase`, `wait` and `lag` are the application's: `RemoteState.phase` and its two timers.
`world` is the network, the number of the process that serves, whether a snapshot is owed, and `calm`, from which on nothing fails.
`history` is for the properties: whether the server has asked for a wait that is not over, has refused the page for good, has sent
something that closes it for good, and whether a late lag timer met a new connection.

There is an action per listener, timer and answer. A handler that has several ends (a constructor that throws, a buffer that is full)
is the set of the states it may leave; `ConnectOutcomes`, `ReconnectOutcomes`, `AskOutcomes`, `DoubtOutcomes` and `FaultOutcomes` are
those sets. An event of a socket that was replaced changes nothing, because each listener begins with
`this.#socket !== socket`, and is therefore no action. Authentication's three ends are actions of their own: accepted, failed without a
verdict (with or without a time to wait), refused.

Abstracted: the delays of the backoff (a timer fires at any time; `RetryAfterKept` is about a wait that the server asked for);
the contents of states (they are `MirrorStream`'s) and commands (they are `CommandReplay`'s, apart from an answer that raises a doubt).
Left out: how the first session or token is had, and the close of the page by its user.

### How `BackgroundTasks` corresponds to the code

`task` is the registry's `Task` (`state`, `notify`, the stop token, `delivered`, `announced`), and keeps those
that were forgotten as such; `proc` is the process; `sup` says where in its `tokio::spawn`ed supervisor a task is: waiting for its end,
in the grace after SIGTERM, after SIGKILL, draining its output, with a verdict (`stop.is_cancelled()` is read before the
registry is locked), recorded, done (waiters notified). `tool` is the `background_task` call that waits, with whether its
`Notified` has been notified: `Listen`, `Look` and `Sleep` are three steps, because an end may come between any two.
`engine` has whether a turn is under way and whether Lethetic runs; `mode` is `MODE`. History, for the properties: `asked`, and `told`, in which ways the end of each
task came to the model.

`Start` ends with `ForgetOld`, as the code does. `Push` is the head of `run_actor`: it announces to the user and, in mode `notify`, takes the
notices for the model and prompts it with them. The prompt starts a turn, or is in the conversation and could not be saved or sent, or is refused before that and the
notices are lost. An end comes to the model by `status` and `wait`, which count as delivered (`Read`), by a notice, and without any account of it by `output` and a `stop` that
comes too late (`Glance`), by `list` (`List`), and in the summary that each request carries (`Summarize`). `Leave` is `stop_all`, and `Gone` the drop of the runtime, which kills what is left.

Left out: the contents of output files, progress, a watched file (they change no state that a property is about), and commands that cannot be spawned.

### How `SessionStore` corresponds to the code

| variable | in the source |
|---|---|
| `record` | `lifecycle-<id>.json`: `state`, whether it has a `binding`, whether it names a `python_runtime_id` |
| `disk` | the session's directory (`dir`), its entry in the identity registry (`registered`), the managed workspace and the retained runtime of its Python, and its saved state (`saved`: none, or one that does or does not name a runtime) |
| `lock` | the holders of the `flock`s `path-<key>.lock` and `identity-<id>.lock`; both together are a `SessionLease` |
| `app` | each process: `cur`, `python` and `committed` are `App.session_id`, `.python_runtime_id` and `.session_creation_committed`; `at` is the step that it is about to take in an operation on `tgt`, `then` where a save goes on to; `seen` and `found` are locals: the record, and whether a runtime was found, as they were read before the locks |
| `history` | for the properties: the deletions that were asked for, the runtimes that were launched behind the back of one, and the number of faults |

An operation is a chain of actions, and a new one begins at each durable write, at each lock and at each await, for
two reasons: another process may take a step there, and a crash may leave what is written so far. `New`, `Resume`, `Load`, `Python` and `Delete` are the
user's; each but the deletion of another session saves the session that the process is in first (`SaveState`, `CommitSaved`). `NewRecord` to
`NewBound` are `create_locked_session`; `LockPath` and `BindIdentity` are its and everyone's way to a lease. `ResumeRead`, `ResumeCheck` and `Adopt` are
`resume_registered_session` (and `Adopt` the end of a load). `MakeWorkspace` and `Launch` are `ensure_nonlocal_python_session`, which names the runtime in the
saved state before there is one. `DeleteRead`, `RecoverRead` and `RecoverSave` are the two preparations of a deletion; `Begin` to `Gone`
are `execute_session_deletion` with `remove_locked_session`. `Fail` ends an operation at any step, as an error or a shutdown does, and drops its lease (not that of
the session in use); `Exit` is a process that ends or crashes, with its locks.

Abstracted: the contents of states (all but whether there is one, and whether it names a runtime), identities of
directories (device, inode: the lease's `verify` never fails in the model, because nobody but Lethetic touches the directories), session IDs, which are fresh.
`Wipe` is one step although files are removed one by one: the state goes last of them, and without the state nothing else is looked at.
Left out: directories that were copied or restored, `delete_python_runtime_transaction`, the headless variant, `WipeSessions` (deletions in a row), other systems
than Linux, and the storage below (SQLite, migration of legacy files).

### How `ContainerCleanup` corresponds to the code

| variable | in the source |
|---|---|
| `present`, `coming` | the containers that podman has, and those whose `podman create` may still take effect, perhaps after its caller was dropped or timed out |
| `worker` | who owns each container: a `TransientCreationGuard` without an id ("creating"), one with it, a `CleanupOwner` or a `Worker` ("owned"), one of them in `cleanup_now` or `terminate` ("discarding"), or its `Drop`: before the record ("dropping", "saving"), in the attempts ("trying", with `tries` left), before the record is cleared ("verified"). `saved` is `cleanup_record.is_some()`. A worker is "over" when it has done its part, and "lost" when it ended without a record and without having removed the container |
| `record` | the file of `transient-python-cleanups` that bears the container's id or name, with its `attempts` |
| `litter` | a temporary file that a crash left in that directory |
| `pass` | each run of `retry_pending_transient_cleanups_at`: the entries still to read, the `pending` map with the attempts as they were read, the record at work |

`Launch` to `Drop` are `Worker::materialize_launch`, `spawn` and `terminate`; `BeginSave` to `Crash` are the two drop cleanups, `Probe` to `Abandon` a pass.
A pass reads its records one by one, and what it read is what it writes back (`Rewrite`): a record may be cleared, filed or counted up by another in between, and
then the older number is written. `Removed` and `NotRemoved` are the two ends of `cleanup_interrupted_transient_create` and `cleanup_transient_container`, and the latter may leave the container
or have removed it. A crash of a program is one crash of a worker or a pass after another.

Assumed of podman: a create that takes effect at all does so before the last of the five looks for its name (`resolve_named_recovery_target`); after it the
container is taken for absent for good. Abstracted: attestation (a container that is not recognised is one that podman refuses to remove), time. Left out: what a worker runs,
containers that podman removes by itself when their process ends (`--rm`: they are only gone earlier), records that are malformed, oversized or of another podman, and
names that come again when a process number does.

### Bounds

The mirror's instance has a section of each kind with two contents, so that a patch may carry one
of them, the other or both. A ring of one patch is overrun by two publications, which are as many
as the run has; a socket of two messages is full after the greeting. Two connections
are one break and one reconnect. The invariants were also checked with three revisions on one connection (7 million states), without a difference.

`MaxRequests`, `MaxPrompts`, `MaxBatch` and `MaxRetries` bound the run. A request
beyond `MaxRequests` fails to start, which is a path of the code
(the start's error path), so the bound does not cut behaviours short in the middle of a turn. Two requests are the
least in which the end of one can meet the start of the next, and a second
prompt starts a turn after one that was stopped, failed or cancelled. Batches of two are
the least with a queue behind the pending call.
One retry is the least at which the counter reaches its limit.

The switches select hazards, because all of them at once, with two requests,
are beyond a five-minute run: `BatchModes` (the values of `tool_calls`), `AllowAlways` (the user
may answer "always"), `SaveFaults`, `DoneLag` (the client may be preempted between
sending `ToolCalls` and `Done`), `BatchCut`, `Signals`.

`CommandReplay` has a command of each kind, a mailbox and a cache of one (so that the second command of any
browser finds the mailbox full or evicts the first's answer), two sockets (one break and one
reconnect) and two servers. The last socket may break only after its session has ended, and the last server does not
end: otherwise every command could be lost for want of a further one, which would be the bound's doing and not the code's.

`BrowserTransport` needs no bound but on the processes that are started: three, so that a proof may be two processes old.
`RefreshInterval` is the code's 5.

`BackgroundTasks` has two tasks in a registry of one, so that the second start forgets the first.

`SessionStore` is checked with two processes, one session and three faults: a fault leaves something behind, and the other process or the restarted one finds it. A second session is where a process goes to or comes
from; safety was also checked with two sessions and one fault (2.78 million states), and is proved for any number of both. `MaxFaults` counts failed steps and crashes in the middle
of an operation; a process that quits between two operations costs nothing.

`ContainerCleanup` has two containers, the first of which (in the order of file names) podman refuses to remove, and passes of one record: the least in which a record can be kept out
by one that fails. Two programs may be in a pass at a time. Two faults may leave a record behind and then cut off the pass that would work it off. `MaxFaults` is less than `MaxAttempts`, where the counter
saturates (2^64 - 1 in the code): a record whose container can be removed is counted up by faults only, so that it never draws level with the one that always fails; with fewer attempts the saturated
counter would let the name decide, which is the bound's doing. A dropped worker tries once (three times in the code), which halves the run; with two attempts
(1.83 million states) nothing changed, and the theorems hold for any number.

### Runs

| run | instance | what it shows |
|---|---|---|
| `turn_races` | 2 requests, 2 prompts, batches of 2, tools and questions, 1 retry, failing saves, lag, cuts, signals | markers, the pending call and the executing flag are owned, whatever races. 691 213 states |
| `turn_lifecycle` | 2 requests, 2 prompts, batches of 2, tools and rejected calls, standing approval, failing saves, `tool_calls` both `single` and `batch`; fair | one worker at a time, one result a call, and a stop reaches what runs; what is shown as work ends; nothing starts during a cancellation or a shutdown; requests only with complete results, and altogether a turn as `TurnPromise` says; cancellations and shutdowns end. 122 004 states |
| `mirror` | as above; fair | the browser's view is a published revision, never an older one after a newer one; patches follow; a connected browser comes to show the last state, volatile sections too; a stale one recovers. 331 363 states |
| `command_replay` | an edit and a load, 2 sockets, 2 servers, mailbox and cache of 1; fair | no command takes effect twice, every answer finds its command, a refusal is true unless its answer was evicted or the command acted before it failed, success is reported only of what took effect, what was given up takes no effect any more, and every command ends. 703 966 states |
| `transport` | sessions and tokens, 3 processes; fair | one attempt at a time, a page never falls asleep and an open socket is watched, a wait is kept, a page closes for a cause, and recovers when the world is calm. 56 882 states |
| `background_tasks` | 2 tasks, a registry of 1; fair | verdicts are true, no wakeup is lost, what counts as delivered was read, noticed or lost with a refused prompt and not merely shown, no notice repeats what was read or noticed, and what is due is told. 664 878 states |
| `session_crash` | 2 processes, 1 session, 3 faults; fair | one user per session; the directory is the last to go, so that no workspace or runtime is left that no one can delete; nothing that was saved is lost before a deletion is asked for; and a deletion that has begun ends, wherever it was interrupted, unless a process stays in the session or its mark is lost (`MarkStays` below). 74 528 states |
| `container_cleanup` | 2 containers, one of which cannot be removed, 2 programs, 1 record a pass, 2 faults; fair | no container is forgotten; where podman is probed again and again, the record of what can be removed is worked off. 1.08 million states |

Four runs show that the code does something other than what its documents say;
each checks one property on the smallest instance that shows it:

| run | property | what happens |
|---|---|---|
| `retry_at_shutdown` | `ShutdownEnds` | an exit during the wait for a retry sets `cancellation_pending`; dropping the retry does not clear it, and the program never leaves its loop |
| `stop_before_calls` | `TranscriptComplete` | a stop between the terminal checkpoint and `ToolCalls` leaves calls without results in the transcript, and the next prompt sends it |
| `stop_during_load` | `StopIsNotFatal` | remote control is stopped, or its listener fails, while a session that a browser asked for is loading; the loaded session finds no runtime, which the loop takes for a fatal failure: the program ends |
| `leftover` | `LeftoverGoes` | what a crash has left of a creation is listed for cleanup, but `deletion_resources` accepts only tombstones: every deletion of it fails |

This is also why the passing runs are split as they are: `turn_races` has every race but the
standing approval, and checks what holds in all of them; `turn_lifecycle` has no questions, retries or signals, and no
`DoneLag` or `BatchCut`. With these the other properties are violated in the ways that are listed next, which would hide
any other. The theorems below say of each property which of the switches it needs: `OneWorker`, `AnsweredOnce`,
`StopReaches`, `ResultsComplete` and `KeepsTurnPromise` hold with retries, questions and signals.

Defects met while modelling that have no run of their own (TLC finds each of the first eight with the constants that are named):

* An answered question whose result is still queued at the exit starts a request during the shutdown (`bin/stream_events.rs:1082` looks at
  no shutdown): `NothingStarts`, with questions.
* Under a standing approval `Done` dispatches a question that is on the screen (`bin/stream_events.rs:1454`), and the call is answered twice: `AnsweredOnce`, with
  questions and `AllowAlways`.
* `Done` names no request. When the client is preempted between sending `ToolCalls` and `Done` (`DoneLag`), the `Done` of a reply whose calls were answered
  at once may be handled after the next request has started, and settles the turn under it (`bin/stream_events.rs:1454`): `StopReaches` with two requests, `OneWorker`
  with three; with four and a retry `AnsweredOnce`.
* A batch of events that is cut between `ToolCalls` and `Done` (`MAX_STREAM_EVENTS_PER_TICK`) lets a stop in between. `Done` then settles the cancellation although the result of a
  rejected call is queued; a prompt starts a turn, and the old result starts another request in it: `OneWorker` and `AnsweredOnce`, with `BatchCut` and three requests.
* Ctrl+C during the wait for a retry leaves the retry scheduled, and it sends the request again (`bin/input.rs:222`); if that start fails, the cancellation stays pending:
  `NothingStarts` and `BusyOwned`, with a retry.
* `RequestCancelled` handled before the signal settles nothing (`bin/stream_events.rs:1245`); the shutdown then waits for a request that is over:
  `ShutdownEnds`, with `Signals`.
* A deletion reads the saved state before it locks the session (`app/lifecycle.rs:565`). A first Python runtime that the process in the session launches before it leaves is not
  deleted with the session, and nothing names it any more: `RuntimeFollows`, two processes, one session, no fault.
* The recovery of a session reads the lifecycle record before it has the locks (`session_store.rs:580`) and writes it back (623). The record of an incomplete creation so replaces the
  tombstone of a removal that another process has begun and not finished: `MarkStays`, two processes, one session, one fault.
* The lag timer of `app.tsx:729` is not cleared when the socket closes. When it fires before the hello of the next
  connection it makes the state stale, the hello is then taken for a protocol fault (`protocol.ts:1762`), and the page
  closes for good. `ClosedForCause` allows this case by name (`history.late`), and no other.
* A prompt that carries a finish notice may be refused; the notice counts as delivered all the same and is lost
  (`background.rs:710`). `DeliveredIsTold` allows this loss by name (`"lost"`), and no other.
* `take_model_notifications` is documented as "Finished tasks the model has not been told about yet" (`background.rs:700`), but `output`, `list` and a `stop` that comes too late
  tell of an end without marking it (`tools/background_task.rs:205`), as does the summary (`background.rs:743`): the notice tells it again, and starts a turn for it.
  No property says that an end is told only once; `DeliveredIsTold` says that no notice repeats another or what was read by `status` or `wait`.
* A stop that comes after the supervisor has judged the end is not in the verdict, and one that comes while the output is drained is,
  although the process had ended by itself (`background.rs:427`). `VerdictTrue` says `asked` in time, which is the former.
* A remote command may act and then be answered with an error that says it may be tried again: a switched model that cannot be saved (`bin/wfe_commands.rs:341`; a theme is taken back,
  308), some of the sessions deleted and one not (463), a prompt in the conversation whose request was not started (165). The answer is cached like any other, and a user
  who tries again repeats what was done. `RefusalIsTrue` allows these commands by name (`app.halfway`).
* A task with `notify = user` that the model polls counts as delivered, and may be forgotten without having been announced.

* A crash in the middle of writing a cleanup record (`TornWrites`) leaves the temporary file of `atomic_write_nofollow` (`platform/native.rs:279`) beside the records, and no code removes it. Every
  later pass fails on it before it works off anything (`python/retained_podman/cleanup_queue.rs:130`), and with it every probe of Podman, though `docs/python-isolation.md:236` says that the
  pending records are retried: `Drained`, two containers, one program.
* A pass over the cleanup records fails, and with it the probe of Podman, also when it comes upon the temporary file of a record that another program is just writing
  (`python/retained_podman/cleanup_queue.rs:130`), or upon a record that its worker clears between the listing and the read (138). It is only put off: `Drained` holds.
* A session whose deletion was interrupted while a process stays in it remains usable there, and a Python runtime that is launched in it then is not in the
  tombstone, which is all that a later cleanup goes by. `ReleasedFirst` allows these by name (`history.late`).

### Fairness

`FairSpec` assumes weak fairness of: the actor's handlers and timers (the loop of
`bin/runtime.rs` runs until it is contained, and drains the queue each round),
the signal supervisor, a client whose request is over or cancelled (`client.rs`
selects on the token and then only sends to an unbounded channel or waits for an acknowledgement
that the actor gives), and a tool whose token is cancelled (tools run under a `select!` on
it). Nothing is assumed of the user, of the model server, or of a tool that nobody
cancelled: a request may hang for ever, and `CancellationEnds` and `ShutdownEnds` hold all
the same. Strong fairness is not needed there.

`MirrorStream` assumes weak fairness of the actor between a snapshot and its patch, of each
step of the connection's task and of the browser's reading, and of the timer of a stale browser. It
assumes strong fairness of two arms of the `select!`, the changed snapshot and the answer: the
other arms may disable them for a while (by taking the task to an await, or filling the socket), and `select!` without
`biased` polls its arms in random order, so that none is passed over for ever. Nothing is assumed of publications, breaks and reconnects:
`CaughtUp` speaks of runs in which publications end and the connection lasts, and
`LiveAgain` allows the connection to break.

`CommandReplay` assumes weak fairness of the browser's reconnects, resends and reading (its timers retry without end), of each
session's task, of the actor's handling of its mailbox, and of a load, which ends one way or the other. Nothing is assumed of users, of
breaks, of stops and of starts: `EveryCommandEnds` allows that there is no server any more.

`BrowserTransport` assumes that timers fire, that requests and sockets that are on their way end, and that the server sends the hello and
the snapshots it owes. `Recovers` speaks of a world that is calm from some time on, on a page that is shown.

`BackgroundTasks` assumes weak fairness of supervisors, of the end of a process that got SIGKILL, and of the steps of the waiting call (it has a timeout),
and strong fairness of the end of a turn and of `Push`: both are there again and again, at the head of each round of the loop, even if a turn comes between.
Nothing is assumed of processes that nobody stopped.

`SessionStore` assumes weak fairness of a process in the middle of an operation (after a crash there is none), and strong fairness of `Delete`: the user asks
again for a deletion that did not succeed. Faults are bounded, so that it is not interrupted for ever.

`ContainerCleanup` assumes weak fairness of a cleanup that has begun and of a pass (each command of podman has a timeout). Nothing makes a program probe podman, so `Drained` speaks of runs in
which it is probed again and again; and nothing is assumed of workers before they are dropped.

## What is proved

For every number of requests, prompts, calls and retries:

* `TypeCorrect` (`TurnEngineProofs`): `Spec => []TypeOK`.
* `MarkersCorrect`, `ExecutingCorrect`, `PendingCorrect`
  (`TurnEngineSafetyProofs`): `MarkerIsLive`, `ExecutingOwned`, `PendingOwned`.
* `OneWorkerCorrect`, `AnsweredOnceCorrect`, `StopReachesCorrect`, `ResultsCompleteCorrect`, of an engine that is `Orderly`: neither `DoneLag` nor
  `BatchCut`, and no questions where a standing approval may be given. Retries, signals, failing saves and both batch modes are included.
* `TurnPromiseCorrect`, of an `Orderly` engine too: `KeepsTurnPromise`, the refinement. No run checks `AnsweredOnce` or `ResultsComplete` by itself, which the
  promise's actions say and more; neither does one check `AppliedOnce` and `ViewIsRevision` (below), which the other two promises say.
* `BusyOwnedCorrect`, if moreover no retry is configured (`Unretried`: `provider_retries` is 0), and `NothingStartsCorrect`, if there are no questions either
  (`Unasked`). Signals are included.

`Orderly`, `Unretried` and `Unasked` are hypotheses of those theorems, and no more is assumed than must be: for
each part of them TLC has a behaviour that breaks the property (the defects above). The first four theorems hold for every setting of the switches.

They rest on the named assumptions of `TurnEngine` alone: the bounds are
natural numbers (positive but for the retries), the call kinds are those the model knows, the switches are booleans.

`TypeOK` is inductive by itself. The proof has a lemma per helper that builds a
record (`AnswerType`, `SettleTurnType`, ...), one per operator that a handler ends with
(`StartShape`, `BeginShape`, `DispatchShape`, `SettleShape`) and one per action.

The three invariants of `TurnEngineSafetyProofs` are inductive together
with `TypeOK` (`IInv`). They are needed together: a handler closes a marker, takes a flag
down and drops the pending call in one step, often through the same helper. To prove a handler from the helpers
that it calls, `IInv` is stated once more of the record and the
queue that a handler has built so far (`Good` = `Marked`, `Busy`, `Owned`): lemmas say
which helpers leave the requests and the call alone (`SameRequests`, `SameCall`) or
close a request (`Closed`), that `Good` survives them, that it survives
taking an event off the queue if the handler deals with it, and that each ending operator
turns a `Good` record into a `Good` state.

Under `Orderly` the invariant is `TurnInv`. A turn is in one of four phases, which the queue tells apart (events of refused
checkpoints, which change nothing, are not counted): the model is asked (`Asked`: the last request is at work, and at most its chunk and its checkpoint are queued),
it has replied (`Replied`: the end of its reply is queued, nothing else), a call is in hand (`Calling`: it is shown to the user, or runs, or its result is queued), or
there is nothing to come (`Settled`). `InOrder` says which two events may be queued together, `Addressed` that they are of the last request and of the call in hand,
`DoneNext` that a `Done` behind calls that were handled comes before the user does. `Tally` counts results: each call that was taken has one, but those still due (in
hand or queued), which have none; `Known` and `Ahead` say that a reply's calls are new when they are taken. `OneWorker` and `StopReaches` are then read off the
phase, `AnsweredOnce` off the tally, and `ResultsComplete` off the steps that start a request, in which nothing is due. Each operator that ends a handler has a lemma that
leads into a phase (`StartTurn`, `BeginTurn`, `DispatchTurn`, `QuietNext`), each handler one that finds its phase by its event.

For the refinement the tally does half of the work: which results there are is a function of what was taken and what is in hand (`Due`), so a handler has to be followed for those two
alone. `Hands` says that it puts nothing in hand that was not; it composes, and each helper and ending operator has a lemma that says so. The one exception is the calls of a reply, which
`Ahead` shows to be new (`Takes`). No step both begins and ends something (`Grows`, `Shrinks`). A step with nobody at work is then `Ask`, `Take` or `Proceed`, told apart by who works afterwards; with
the model at work nothing is due; while a tool runs the flags of its phase close the guards of all handlers that could answer something (`ToolBooks`), and the step is `End`, or nothing to the promise.

`BusyInv` adds to the phases what the flags promise in them: a cancellation is pending only while something is at work and no question is shown, the
active request is the one at work, a settled turn shows no work, and a request that was stopped (`Doomed`: its token is cancelled, or it ended for that) is known to be, unless all shuts down.
`StartInv` adds that what goes on into a shutdown is cancelled, or else drained but for old acknowledgements, and that a result between two batches shows as work.

Of the mirror, for every set of sections and contents, every capacity of ring and socket, and any
number of revisions and connections:

* `MirrorTypeCorrect`: `Spec => []TypeOK`. It needs `StatesHeld`: a connection that
  has greeted knows a state, a live browser shows one, so that a patch is applied to a state.
* `ViewCorrect`: `ViewIsRevision`. The invariant is `Coherent`: each patch leads from the meaning of
  its revision's predecessor to its own, and every snapshot and patch on the wire carries what was published under its number.
  It needs no order of messages, only the reducer's own guard on the revision.
* `PatchesInOrder`: `PatchFollows`. The invariant is `Chained`: the messages on the wire are a chain from what
  the browser has to what the connection sent last; a patch is one step further than the message before it,
  an answer none, a snapshot any number forward. The first link may be missing only for a browser that is not live.
* `PromiseCorrect`: `KeepsPromise`, the refinement, from both invariants: a publication
  appends contents that are new, and what a message makes the browser show is published and
  no older than what it showed.

The assumptions are `SectionAssumption`, `MirrorBounds` (the ring takes a message, the socket two) and
`StateAssumption`.

Of command replay, for every set of commands, every capacity (also a cache that forgets at once), any number of sockets, servers and revisions:

* `CommandTypeCorrect`: `Spec => []TypeOK`, with the capacities of mailbox, cache and pending commands.
* `AppliedOnceCorrect`: `AppliedOnce`. The invariant is `PastRevision`: while a copy of a command may still come to the server that runs
  (`Awaited` by a browser with its proof, `Wired` to a live session, `Mailed`) and the command has taken effect, its expected revision is over, so that the revision
  guard refuses the copy even when the cache has forgotten it. It needs `ServersApart` (a browser without the proof of the server that runs
  has no copy with it) and that nothing in flight is executed a second time.
* `NoFaultCorrect`: `NoFault`. The invariant is `SocketInv`: while the browser's socket is open, each command has at most one place on it
  (`OneCopy`: on its way up, with the session, or answered and on its way down), and a command that has one is pending and marked as sent on this
  socket. The mark is why a resynchronisation sends nothing twice; that a new socket starts empty is `Unopened`. It rests on `BrowserSide`
  (what the browser has pending is there once and was not answered).
* `CommandPromiseCorrect`: `KeepsCommandPromise`, the refinement, from these, from `Quiet` (nothing is left on the server's side of a command that is idle or was given up)
  and from `OkIsTrue`: an "ok" anywhere, in the cache, on its way or told, is of a command that took effect.
* `RefusalIsTrueCorrect`: `RefusalIsTrue`. The invariant ties a refusal to what is remembered: a command that took effect, or was refused, and of which
  a copy may still reach the server that runs is in its cache, or awaited, or was evicted (`StillRemembered`), so that no copy is decided on differently;
  a refused command has taken no effect unless it was evicted, or acted in the handler that then failed (`RefusedUndone`, `HalfwayGrows`); nothing is refused that was not issued (`RefusedIssued`); and
  only a load command can be loading (`LoadIsLoad`), so that what fails later than it was applied is never an edit.

The assumptions are `CommandAssumption` and `CommandBounds` (capacities are positive).

Of the transport, for any refresh interval and any number of processes (`TransportAssumption`):

* `TransportTypeCorrect`, `OneAttemptCorrect`, `AttendedCorrect`, `AgreeCorrect`, `RetryAfterCorrect`, `ClosedForCauseCorrect`, all from one
  invariant. Its parts: `Single` (one way to a connection), `Dormant` (a closed or suspended page has nothing running that it should not have), `Timed` (an
  open socket has its timer), `Abreast` (both flags say the same), `Ready` (a page without work has a proof, or was refused), `Awake`,
  `Greeted` (what a page that has not had its hello shows), and that a page told to wait has its retry scheduled. They are inductive only together:
  which timer there must be depends on the flags, and the flags on which socket there is. A lemma per operator (`ScheduleDoes`, `ConnectDoes`, ...)
  says which fields it may change (`Keeps`) and what it leaves in them; then there is a lemma per action.

Of background tasks, for any number of tasks and any limit (`BackgroundAssumption`):

* `BackgroundTypeCorrect`, `VerdictCorrect`, `WakeupCorrect` and `DeliveredCorrect`, refused prompts included. The invariant follows one task: `Life` ties its state to its
  supervisor and process, `Blame` says that stop token, verdict and recorded state agree on whether a stop came in time, `Told` accounts for what counts as delivered;
  `Waits` covers the step between a look and a sleep, and `Numbered` that a new task gets a free place.

Of session storage, for any number of processes, sessions and faults (`SessionStoreProofs`):

* `SessionTypeCorrect`, `OneUserCorrect`, `ReleasedFirstCorrect`, `WorkKeptCorrect`, from one invariant. `Local` says of each step of a process which
  locks it holds and what it has made sure of (`InSession`, `SaveWell`, `Approach`, `Deleting`); that two processes are never in one session is read off the holder of the
  identity lock. `Sound` is the order in which the things of a session exist: saved state only in a directory, a workspace only beside saved state, a runtime only
  if the saved state names it, unless it was launched behind the back of a deletion (`history.late`); and what is marked for deletion was bound, and asked for or empty.
  An action changes one session and one process: what it leaves to the other processes (`Undisturbed`) carries their part, and the proof of an action (`Keeps`) is about those two.

Of container cleanup, for any containers, programs, limits and faults, torn writes included (`CleanupAssumption`):

* `TypeCorrect`, `NoneForgottenCorrect` and `RecordKeptCorrect` (`ContainerCleanupProofs`). The invariant says three things of each container. `Answered`: if it is there or may come, its worker answers for it,
  or its record, or it is lost. `Gone`: it is not there, nor coming, while its worker has verified so, or while any pass is about to clear its record. `Unknown`: as long as a worker has not been dropped there is no
  record, and no pass knows of the container. `Gone` is what survives others: once a container is gone nobody brings it back, because only `Launch` does, and `Unknown` says that no pass is about to clear the record of a
  container that is still to be launched. A step of a worker leaves all other containers alone (`WorkerAlone`); a step of a pass learns of a container only from its record (`PassMoves`). `RecordKept` is an action property that
  no run checks.

Every safety invariant and every action property that a passing run checks is so stated by a theorem. Only model-checked is liveness
(`CancellationEnds`, `ShutdownEnds`, `CaughtUp`, `LiveAgain`, `EveryCommandEnds`, `Recovers`, `DueIsTold`, `DeletionEnds`, `Drained`), which needs fairness and
is out of the prover's reach, and what the violated runs show. The theorems about `BusyOwned` and `NothingStarts` leave out configurations with retries, in which the code breaks them.

## Plan

1. *Done:* the turn engine, its runs, its type and ownership theorems.
2. *Done:* the mirror stream, its promise, and that the one implements the other.
3. *Done:* command replay, its promise, at most once, no misplaced answer, the refinement, and true refusals.
4. *Done:* background tasks with the theorems about their safety. Left: output and commands that cannot be spawned.
5. *Done:* the browser's transport and the theorems about its safety.
6. *Done:* `TurnPromise`, an abstract turn, and that `TurnEngine` implements it.
7. The compaction plan, the loop detector, the retry delays and the todo list as functions, checked against reference definitions over bounded inputs.
8. *Done:* session storage with crashes between any two steps, and the theorems about its safety. Left: restored directories; the migration of legacy files.
9. *Done:* the cleanup of transient containers and the theorems about its safety.
10. *Done:* the theorems about `TurnEngine` and its turns. Left: what still holds with `DoneLag` or `BatchCut`, and of the flags with retries.

## Not modelled

Not planned: G and K (I/O and policy matching; tools are tasks to the engine), I
(a second, single-threaded implementation), rendering, packaging and cryptography. F is mostly calls
of podman; the leases of retained containers may follow L. `src/web/lib` is a vendored editor.

## Running

    tlc -config TurnRaces.cfg MCTurnEngine.tla        # and the other .cfg files
    tlapm TurnEngineProofs.tla
    tlapm TurnEngineSafetyProofs.tla
    tlapm MirrorStreamProofs.tla
    tlapm CommandReplayProofs.tla
    tlapm BrowserTransportProofs.tla
    tlapm BackgroundTasksProofs.tla
    tlapm SessionStoreProofs.tla
    tlapm ContainerCleanupProofs.tla
