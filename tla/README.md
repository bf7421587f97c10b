# A TLA+ model of hill90-app

hill90-app runs AI agents in containers.  An API service decides which agents
run, sends them chat messages and collects their answers; a runtime inside each
container does the work; a model router lets agents call language models, a
knowledge service keeps what they write, and a web page shows it all.  The
modules in this directory model the parts in which several handlers, timers,
containers and services act on the same state, check them with TLC on small
instances, and prove safety properties with TLAPS for every size.

## The system and its parts

| Part | Source (`src/services/...`) | State it keeps | Operations | Hard because | Module |
|---|---|---|---|---|---|
| Agent life cycle | `api` `routes/agents.ts`, `services/docker.ts` | row in `agents`, a container per agent, `agent_sessions` | create, start, stop, delete | every route is a dozen awaited calls, any of which can fail; nothing locks the agent | `AgentLifecycle` |
| Reconciler, status verification | `api` `services/agent-reconciler.ts`, `agent-status-verification.ts` | a snapshot during a pass; `defaultVerified`, `explicit` in memory | a pass at boot, then one per minute | decides from rows read earlier, writes without a guard, may overlap itself | `AgentLifecycle` |
| Chat replies | `api` `routes/chat.ts`, `services/chat-dispatch.ts`; `agentbox` `chat.py` | `chat_messages`, participants | send, dispatch, callback, chain, cancel, edit, sweep | handlers interleave with callbacks that are lost, late or repeated | `ChatReplies`, `Replies` |
| Chat stream and page | `api` `routes/chat.ts` (SSE), `helpers/`; `ui` `ChatView.tsx` | a cursor and a queue per connection; the messages of the page | poll, replay, write, reconnect, load older | sequence numbers are taken before commit; polls overlap | `ChatStream` |
| Workflow scheduler | `api` `services/workflow-scheduler.ts`, `routes/workflows*.ts` | `workflows`, `workflow_runs`, an advisory lock | tick, run, edit, webhook | a session lock over a connection pool; several API instances | `WorkflowScheduler` |
| Agent tokens | `api` `model-router-refresh.ts`, `*-token.ts`, `*-revoke.ts`; `agentbox` `token_refresh.py`; `knowledge` `routes/internal.py` | jti, exp and refresh hash; denylists | mint, renew, revoke | a renewal races stop, start and itself | `AgentTokens` |
| Relays | `api` `terminal-proxy.ts`, `relay-backpressure.ts`, `sse-writer.ts`, `tool-installer.ts`; `agentbox` `ws_terminal.py`; `ui` `XTerminal.tsx` | sockets, queues, exec streams, timers, `agent_tool_installs` | relay, pause, resume, end, install | flow control and teardown from any side; a command outlives its timeout | `Relays` |
| Model router | `ai` `main.py`, `limits.py`, `proxy.py`, `delegation.py`, `usage*.py`, `revocation.py` | usage rows, missed rows, denylist in table and memory, delegations | call, stream, log, flush, delegate, revoke, reload | check and count are apart; a reload overwrites memory | `ModelRouter` |
| Knowledge entries | `knowledge` `knowledge_store.py`, `reconciler.py`, `routes/journal.py` | a row and a file per entry | create, update, append, archive, reconcile | two stores and no transaction over both | `KnowledgeEntries` |
| Shared knowledge | `knowledge` `shared_store.py`, `ingest.py`, `web_page_fetcher.py`; `api` `routes/shared-knowledge.ts` | collections, sources, documents, chunks, vectors | ingest, backfill, search, graph, delete | a dozen statements without a transaction | `SharedKnowledge` |
| Agent runtime | `agentbox` `runtime.py`, `chat.py`, `pty_shell.py`, `policy.py`, `tools.py` | threads, child processes, one tmux pane, one browser | work, infer, tools, callbacks | threads share a terminal and a browser; commands hang | `AgentRuntime` |
| Catalog | `api` `routes/provider-connections.ts`, `user-models.ts`, `model-policies.ts`, `skills.ts`, `tools.ts`, `container-profiles.ts`; `ai` `models.py` | what an agent refers to; the router's cache of owners | create, change, assign, delete, resolve | look, await, write; keys of several owners; an agent's name can change hands | `Catalog` |
| The rest | Discord bridge, MCP gateway, CLI, other pages, deployment | see PROJECT.json | | | not modelled |

How they interact: start and stop write the rows the reconciler patches, mint
and revoke the tokens the container renews and the router checks; the chat
routes read `status` and `work_token` of those rows to decide whom to ask, post
work to the agent's container (`AgentRuntime`) and get callbacks on an internal
route (`ChatReplies`); every change of a message takes a new `seq`, which the
stream polls (`ChatStream`); the scheduler and the webhook dispatch work the
same way; an agent's call to a model is resolved through the tables of
`Catalog`, and limited and counted in `ModelRouter`.

## Modules

Every module keeps to one form: a variable per table, queue or group of
handlers; a handler is a record with a program counter; each awaited call,
query or callback is one action, which may fail where the code handles a
failure; bounds are constants named `Max...`.  History variables are marked as
such in the type invariants.

### AgentLifecycle

`row` holds the columns the routes decide on, `box` the container that has the
agent's name, `sess` its sessions.  Timestamps are replaced by the *run* of the
container they stem from; a work token is named after the run it was minted for.
`gen` is the row's primary key, so an UPDATE of a request that outlives its row
finds nothing even when an agent of the same name has been created since.

| Action | Code |
|---|---|
| `StartAgent`, `StopAgent`, `DeleteAgent` | the row read and the checks of each route |
| `Halt`, `Remove` | `stopAndRemoveContainer`, and the same calls at the head of `createAndStartContainer`; what a failure leads to depends on the route (`BoxError`) |
| `CreateBox`, `StartBox` | the rest of `createAndStartContainer`: creation fails when the name is taken |
| `Measure`, `InstallTools`, `StartCommit`, `OpenSession`, `Fail` | the rest of start and its `catch` |
| `CloseSessions`, `StopCommit`, `DropRow` | the rest of stop and delete |
| `PassBegin`, `Inspect`, `ApplyPatch`, `SweepSessions`, `PassEnd`, `PassFailed` | `runReconcilePass`; `PatchFor` is the case analysis of `reconcileAgentStatuses` |
| `BoxExits`, `BoxRevived`, `BoxDeleted` | the container dies, its restart policy revives it, somebody removes it |
| `ApiRestart` | requests, passes and the verification record are lost |

`Passes` are slots, as the timer that starts a pass does not look whether one is
still going on.  A pass is `alone` if no other was in progress while it was;
`crossed` says that the one that ended last was not.

### ChatReplies and Replies

`msg` is the table of one thread.  A user's message and each *placeholder* of an
agent's reply are numbered in the order they are inserted; a placeholder names
the message it replies to, its chain and its hop.  `hand` holds the handlers the
API is serving: the send route (`check` → `place` → `send`) and the callback
(`batch` → `flag` → `chain` → `cycle` → `check` → `place` → `send`) share their
last part, as they share `dispatchToAgents`.  `work` is what each agent is doing
about a placeholder: `told` means that its terminal callback has arrived but the
agent does not know and will send it again.  `agent` is `up`, `down` (the
container is gone, the row still says running) or `off`.

`Replies` is the thread as its readers see it: messages appear, an agent is
asked once about a complete message that is not its own, and what is open is
answered or given up exactly once and not open for ever.  `ChatReplies!Thread`
maps `pending` and `thinking` to open and forgets handlers, chains and agents;
`ImplementsThread` is the refinement.

### WorkflowScheduler

`lock` is the advisory lock with the connection that holds it; a query runs on
any connection of the pool, so the unlock may miss.  `IdleCloses` closes an idle
connection and frees what it holds.  `tick` and `hand` are the scheduler and the
request of each instance.  A cron expression is its period.

### ChatStream

A change takes its `seq` and commits later, in any order (`Change`, `Commit`).
`con` is the connection with its polls and its bounded queue, `page` what the
browser shows, how far the stream has come and where the last replay began.  The
poll timer (`PollTimer`) starts a poll whether or not the last one has answered.

### Relays

One of five kinds of long-lived connection is chosen at the start: the terminal
(`t`), three streams of container logs (`l`), or an installation (`x`).  What
flows is counted against the marks and the cap.

A log stream is two: docker's own (`tails`, with the command that feeds it) and
the demultiplexer that `execInContainer` pipes it into.  Only the second is handed
to the handler and destroyed by it; the first ends by itself or not at all
(`Left`).  An installation writes its row first and last: `InstallFailed` is a
failed write, `InstallerCrash` the end of the API, and `lost` the installations
that are left at `installing` by either.  `CommandFails` is a command that throws
although it did its work.

### AgentTokens

One agent and one audience (router or knowledge).  Token n is the n-th one
minted, and so is its secret.  `h` are renewals in the API or the knowledge
service, `st` is a stop, `box` what the container holds.

### ModelRouter

`req` are requests of the agent, of the child of its delegation and of the
platform; `rate` what the limiter counts, `gap` the rows that could not be
written, `deny` the denylist in the table and in memory, `load` a reload under
way, `d` the delegation.  A usage row that fails is counted as missed (`LogFails`);
one for which the pool has no connection is neither (`NoConnection`, `hist.dropped`),
and `hist` also counts what is missed while a flush writes and whether two flushes
met.  A revocation revokes the row (`DelegateRevoke`) and then the tokens
(`DelegateDeny`), and either may fail.

### KnowledgeEntries, SharedKnowledge

One entry with its file, writers and the reconciler; one collection with its
sources, an ingest, a backfill, a search and a graph.  Bodies are sets of
writes, also the one in the file, so that a stale file can be told from a current
one; `doubt` marks a body stored across another write, or one whose file could not
be written.  A document has two chunks.

### AgentRuntime

`work` are threads, `child` their processes, `tm` the pane, `br` the browser
with the coroutine of each caller.  A command is what it does to the thread that
waits: it may print without a pause (`ChildPrints`), so that the PTY is never idle
and its timeout never counts; leave children that hold its pipes after it has been
killed; or not end.  `PtyAbandoned` and `ShellGarbled` are the two ways to leave a
command without waiting for it.  `Capture` reads the pane from the typed command
to the first line that looks like a prompt, which may be above the marker.

### Catalog

A user `u`, an admin `a` who has an agent too, and the platform `p`; two
interchangeable connections (`MCCatalog` adds the symmetry) and two requests at
once.  `refs` are the agents and the skill that refer to something.  One agent name
passes from one owner to the other (`AgentDelete`, `AgentInsert`), and `slug` is the
router's cache of who owns it, with its age.  A resolution is a lookup per action
(`LookupOwner`, `ReadOwner`, `KeepOwner`, then the policy, the model and the
connection).  The name, key and address of a connection, and the verdict of its
validation, are not modelled: nothing but the page reads the verdict.


## Runs

Every run takes minutes at most on two cores.  Each line gives what a run asks
and the bounds that matter.  `MaxFaults` (`MaxUpsets` in `AgentLifecycle` and
`ChatReplies`, `MaxStreamFaults` in `ChatStream`, `MaxFailures` in `AgentTokens`)
counts the module's failures of all kinds together, so a run has every single
one of them at every step where the module has it, but no more than the bound in
one behaviour.

| Run | Instance | Shows |
|---|---|---|
| `lifecycle` | 1 agent, 2 requests, 2 passes of which one may begin over the other, 2 runs of the container; 3 events in all, of which at most 2 failed calls, exits, restarts or outside removals | `TypeOK`; `KnownMeansSeen`: once the pass that ended last ran alone, a status is reported as fact only if the latest look at the container, by a pass or a start, succeeded; `SessionCloseIsFinal`; `StatusConverges`, `SessionsConverge`: row, sessions and container agree in the end, also when passes overlap |
| `chat` | 2 agents, 2 handlers, 4 messages, 1 hop; one upset in all: an edit, a stop, a restart of the API, or a failed, lost or repeated call | `BatchFlagIsTrue`, `AskedOnce`, `ChainIsTree`, `TerminalIsFinal`, `ImplementsThread` |
| `workflows` | 2 instances over 2 connections, 1 workflow of period 1 or 2, 2 calls, 1 fault | `FiredOnce`, `UnfinishedIsAttended`, `DueIsServed` |
| `chat_stream` | 2 messages, 3 sequence numbers, 2 changes open at once (so that they may commit out of order), a page of 1, 3 connections, 2 polls at once, 1 fault (a failed or a slow query) | `PageIsTrue`: unless a gap is announced the page shows the rows as they are, except messages that committed behind a later `seq` and pages for which two polls were in flight together; `CatchesUp`: the page comes to show every message, except those that committed late |
| `relays` | 2 agents, marks 1 and 2, 3 connections, 2 retries, 2 installations, 4 faults | `StreamIsOwned`: a response that is gone has no timer and no demultiplexer feeds it; `InstalledIsThere`, `HeldIsReleased`, `SessionEnds`, `StreamGoesOn`; `InstallEnds`: an installation ends, unless a crash or its failed last write leaves the row |
| `agent_tokens` | 3 tokens, 2 renewals at once, 2 faults | `RowKeepsTrack`, `RouterTokenIsRenewed` |
| `model_router` | 2 requests at once, a limit of 1 a minute, 3 calls, 2 faults | `UsageIsAccounted`: a provider call ends in a row, a missed row, or the pool having had no connection, and the missed ones add up to what flushes that cross leave; `RateIsBounded`, `RevokedIsRefused`, `DenylistCatchesUp` |
| `knowledge_entries` | 2 writers, 3 writes, 1 attempt, 2 faults | `MirrorIsTrue`: a synced entry has its file, with its content unless writers crossed or a file was not written, and no file of an entry is taken for an orphan; `PendingIsResolved` |
| `shared_knowledge` | 2 sources of 2 chunks, a graph page of 1, 1 search or backfill, 1 fault | `ActiveIsWhole`, `EmbeddedIsTrue`, `ReadsAreTrue`, `IngestIsSettled` |
| `runtime` | 2 pieces of work, 1 turn of the tool loop, 2 typed commands, 2 faults | `EndIsTold`; `CommandIsSettled`: a command is waited for, or left by an unwritten event or a garbled stderr, and an exit status is not of a command typed earlier unless the pane was read early or cut; `WorkEnds`: all work ends but for four kinds of command |
| `catalog` | 2 connections, 2 requests at once, 3 calls, 1 fault, a cached owner lives 2 ticks | `KeysStayApart`: a model is answered with the key of somebody who has an agent of that name, or had one within the life of the cache; with the platform's for a platform model; or with the admin's where the admin may have put it into a user's model; `AssignedExists` |
| `akm_renewal` | 1 renewal, no fault | violated: the first renewal of a knowledge token is refused |

Why the bounds are enough: each hazard needs two actors that meet once, so two
handlers and one or two faults reach it; the counters (`MaxCalls`, `MaxRuns`,
`MaxTokens`, `MaxSeq`) are one above what a single crossing uses, so the state
after it, in which a repair is due, is reached too.  Deadlock is not checked
where a bound or an ended conversation stops the system for good.

### Fairness

Fairness is assumed only of what a timer or an already running handler does:

- `AgentLifecycle`: steps of a request and of a pass, and the interval that
  starts passes (the same timer whether or not passes overlap).  Containers, users and failures are not fair.
- `ChatReplies`: the clock that makes an open message old, and the sweeper that
  ends it.  Agents, callbacks and handlers owe nothing: the fairness of
  `Replies` (every open message ends) is discharged by the sweeper alone.
- `WorkflowScheduler`: the tick's interval, and the pool's idle timeout.
- `ChatStream`: the poll timer and the first poll, the reader, the end of a
  closed connection, and the page's reconnection.
- `Relays`: the resume timer, the reader at the other end, the close handshake
  and its handler, the end of a dead shell, the log reader and the steps of an
  installation.
- `AgentTokens`: the container's refresh loop and the handler that serves it.
- `ModelRouter`: the periodic reload.  `KnowledgeEntries`: the reconciler.
  `SharedKnowledge`: an ingest that has begun.
- `AgentRuntime`: the threads, the model's answer (there is a timeout), the exit
  of a child that got SIGKILL, and, strongly, a read of the PTY (output and silence
  may alternate).  Nothing is assumed of a command: it need not pause, close its
  pipes or end.

### Findings

`akm_renewal`: `agentbox/app/token_refresh.py:3-4` says that the loops renew
tokens before they expire.  The knowledge service renews a token only if
`agent_tokens` holds the hash of its refresh secret, and the only INSERT into
that table is the renewal's own (`knowledge/app/routes/internal.py:109`); the
API, which mints the first token, stores only its jti.

What modelling met besides, where a comment or a test says more than the code
does or where two legal calls meet badly.  The properties are stated so as to
allow what is in a module; what is in none is marked (not modelled).

- *Life cycle.*  A running agent whose container is absent is demoted
  (`docker.ts:777`), also in the gap of its own start or stop.  A session of a
  run that ended may be closed with a start later than its end
  (`agent-reconciler.ts:105`).  A row in `error` with a live container is deleted
  without a stop and without the audit entry that
  `delete-revokes-tokens.test.ts:213` asks for (`agents.ts:1570`).  An agent may
  be running without a work token (`agents.ts:1947`).  `setInterval` may start a
  pass before the previous one has ended (`agent-reconciler.ts:245`); then an older
  look can overwrite the record of a newer failure, and a status is reported as
  fact that nothing has seen.  `KnownMeansSeen` excepts that until a pass that ran
  alone has ended, a pass has failed, or the API has restarted.
- *Chat.*  `routes-chat.test.ts:1361` and `:1830`: a send, or a chain, that
  crosses another asks an agent that is already thinking (`chat.ts:1249`,
  `:2532`).  A batch whose last message is ended by the sweeper or by a cancel is
  never announced (`041_add_batch_complete.sql:2`).
- *Stream.*  `028_create_chat_tables.sql:39-41` asks of a cursor only
  monotonicity and uniqueness: a lower `seq` that commits later is never sent
  until a reconnection.  The UI's proxy drops Last-Event-ID; overlapping polls can
  leave an older version of a message on the page; loading older messages across
  a reconnection can hide a gap.
- *Scheduler.*  After a failed advance, a lost lock or a crash a workflow may run
  twice (`workflow-scheduler.ts:8`).
- *Relays.*  Destroying the stream of an exec destroys the demultiplexer of
  `docker.ts:446`; docker's own stream, and the `tail -f` in the container, go on,
  although `agents.ts:2509-2518` and `chat.ts:1769-1780` say that the pipe is torn
  down.  The close handler of the log stream is installed after an await
  (`agents.ts:2493`, `:2534`); a stream opened while its writer waits is not
  paused; shutdown leaves sockets that are still connecting; the page reconnects
  after it is unmounted; the agent's close code 4001 never reaches the page; the
  first resize is dropped.  A timed-out installation goes on, and the retry's
  `rm -rf` races it; `test -x` accepts a half-copied binary; a crash, or a
  failed last write (`tool-installer.ts:231`), leaves `installing` for ever.
- *Router.*  A call whose usage finds no connection in the pool leaves neither a
  row nor a missed one (`main.py:688` and its kin): the acquire stands outside of
  `log_usage`.  A failure, or a second flush, during a flush's INSERT loses a row
  (`usage_gaps.py:6-9` says that it converges).  A parent's renewal kills its
  delegations.  `get_fallback_route` is never called.
- *Knowledge.*  An update whose file could not be written is not retried, as
  `knowledge_store.py:180` says it will be: the old file is there, and the next pass
  calls the row synced (`reconciler.py:49-51`).  Two journal appends that cross lose
  one (`journal.py:34`); an archived
  journal blocks the day's journal; `sync_attempts` is never reset.
- *Runtime.*  Asynchronous endpoints block the event loop for up to 35 s
  (`server.py:154-253`) while the API gives up after 15 s; two browsers may be
  launched; git has no timeout.  `pty_shell.py:100-109` counts the timeout on silent
  polls only, so a command that keeps printing is never timed out; `policy.py:224`
  waits for an end of file that the command's children can withhold after it was
  killed.  A failed event write abandons the PTY generator, which closes the PTY
  and leaves its child unreaped (`terminal_log.py:124-141`); output that cannot be
  decoded leaves the shell's child likewise (`policy.py:236`).  After a timed-out
  visible command, or when its own output looks like a prompt (`chat.py:633`), a
  command is told its predecessor's exit status; two threads type into one pane.
- *Catalog.*  The router caches an agent's owner for a minute under its name
  (`models.py:38-64`): a new owner's agent of that name is served with the old
  owner's models and keys for so long.  An admin's change of a user's model checks
  the admin's connections, so that a user's model may name an admin's key;
  concurrent deletions of connections overwrite each other's routes; concurrent
  assignments of skills can lose `tools_config`; a validation that began before a
  change of key writes its verdict on the new one (`provider-connections.ts:572`;
  not modelled).


## Proofs

Each `...Proofs` module extends its component's module and holds one inductive
invariant, a lemma per action or group of actions, and the theorems that follow.
Three hold two components: `KnowledgeProofs` extends `SharedKnowledge` and
`KnowledgeEntries`, `ConnectionProofs` extends `Relays` and `AgentTokens`,
`ChatProofs` extends `ChatReplies` and `ChatStream`.  That is why the second ones
say `EntriesSpec`, `TokenSpec`, `StreamSpec` and the like.
The constants are arbitrary: any number of agents, handlers, instances, slots,
sources, messages, faults.  The assumptions are the named `ASSUME`s of the
components (sets are not empty, bounds are naturals, periods are positive, the
slots of the router are finitely many, a connection has room for the poll its
handler starts with), which TLC evaluates on every run.

| Module | Theorem | States | Inductive invariant, and why the property alone is not inductive |
|---|---|---|---|
| `AgentLifecycleProofs` | `TypeCorrect` | `TypeOK` | a token is minted before the step that stores it |
| | `ReportedStatusIsBacked` | `KnownMeansSeen` | `SeenInv`: what a pass that is still alone has seen so far, that at most one is, and what the record says if the pass that ended last was |
| | `FirstCloseDecides` | `SessionCloseIsFinal` | an action property: each step leaves a closed session as it is |
| `ChatProofs` | `ChatTypeCorrect` | `TypeOK` | |
| | `BatchFlagIsNeverEarly`, `NobodyIsAskedTwice` | `BatchFlagIsTrue`, `AskedOnce` | `DispatchInv`: which messages a handler has still to place or post, that one handler serves a batch, and that a message is counted only when its batch is whole |
| | `FirstEndingDecides` | `TerminalIsFinal` | an action property, from the same invariant |
| | `ChainsAreTrees` | `ChainIsTree` | `ChainInv`: what a handler that goes on with a chain knows of the message it answers; messages are dense and blank beyond the last |
| | `HandlersImplementThread` | initial states and steps of `Replies` | `DispatchInv`, by the refinement mapping of `ChatReplies!Thread` |
| | `StreamInvariant`, `StreamTypeCorrect`, `PagesAreTrue` | `StreamTypeOK`, `PageIsTrue` | `StreamInv`: numbers are taken once; up to any message on the wire, and up to the cursor, every current message is on its way, on the page, or before the start of a replay that says so; a poll has all that was above its cursor; below the floor, what the page lacks is below its notice and below the answer it waits for |
| `WorkflowSchedulerProofs` | `DueTimesFireOnce`, `UnfinishedRunsAreAttended` | `FiredOnce`, `UnfinishedIsAttended` | `SchedInv`: a tick with its lock is the only one; what it is still to fire was not fired before; what was fired is not the row's next time unless the tick that fired has yet to move it; the run in a tick's or a request's hands |
| `ModelRouterProofs` | `NoCallGoesUnaccounted`, `MinuteIsBounded`, `LateRequestsAreRefused` | `UsageIsAccounted`, `RateIsBounded`, `RevokedIsRefused` | `RouterInv`: where a request is decides whether its call is counted; what is missed, counted and being written add up unless two flushes met; the requests past the check are covered by what is left of the minute |
| `KnowledgeProofs` | `EntriesTypeCorrect`, `FilesMirrorEntries` | `EntriesTypeOK`, `MirrorIsTrue` | `EntriesInv`: what a writer and a pass of the reconciler have read of row and file, and what that still says; what the file lacks of the body unless it is in doubt |
| | `SharedTypeCorrect`, `SearchedSourceIsWhole`, `EmbeddedHasItsVectors`, `ReadersAreToldTheTruth` | `TypeOK`, `ActiveIsWhole`, `EmbeddedIsTrue`, `ReadsAreTrue` | `SharedInv`: how much of a source each step of ingest and backfill leaves, and what search and graph have collected |
| `AgentRuntimeProofs` | `EveryEndIsTold`, `CommandsAreSettled` | `EndIsTold`, `CommandIsSettled` | `RuntimeInv`: what a thread has said and written by the time it is where it is; who typed last into the pane, and whether it was cut; which child is waited for, and which was left |
| `CatalogProofs` | `CatalogTypeCorrect`, `NobodyRefersToTheGone`, `KeysNeverMix` | `TypeOK`, `AssignedExists`, `KeysStayApart` | `CatalogInv`: the owner of a connection only ever becomes gone; what a request knows when it comes to write; a single model has its connection, by the foreign key; and `SlugInv`: how old what the cache says of an owner can be, in the cache and in a request that has read it |
| `ConnectionProofs` | `GoneResponseIsUnfed` | `StreamIsOwned` | `LogInv`: cleanup leaves the handler's own flag set, and whatever the handler still awaits looks at it |
| | `RecordedToolIsThere` | `InstalledIsThere` | `InstallInv`: which commands have filled the tool's place, that a partial copy is still being made or was cut off, and that an attempt finds its own place empty |
| | `SessionsAreMinded` | `TypeOK`, and `TerminalIsMinded` of the proofs | `Minded`: a socket is paused exactly while a timer will resume it; a client that is gone leaves none; a queue passes its cap once |
| | `TokensStayTracked` | `TokenTypeOK`, `RowKeepsTrack` | `TokenInv`: tokens are minted in order; while no answer was lost the container waits for the one handler that is busy; the renewal about to store will replace the token the row names; the row's secret is that of the answer under way, or the container's |

The argument has the same shape everywhere.  The records of handlers are typed
first, with a lemma per kind of update; then one lemma says which changes
preserve the invariant (`Moves` and `Inserts` in `WorkflowSchedulerProofs`,
`QuietMsg` and its kin in `ChatProofs`, `Alike` in `AgentRuntimeProofs`),
and each action is shown to be such a change.  TLC has checked each inductive
invariant on the run's instance.

`PagesAreTrue` also needs what operators over data compute: that the newest rows
of an answer are a page of them with none missing between (`NewestIsTop`,
`RowsAreSorted`, `AnswerIsTrue`), and that the loop over the rows writes a prefix
of them, all of them if the stream goes on (`WriteAll`).  These are shown by a
least counterexample, with well-founded sets (`Least`, `SetInduction`,
`LoopExists`), as the induction theorems of the library cannot be instantiated.

### What is only model-checked

- Liveness, which needs fairness and ENABLED: `StatusConverges`,
  `SessionsConverge`, the fairness of `ImplementsThread`, `DueIsServed`,
  `CatchesUp`, `HeldIsReleased`, `SessionEnds`, `StreamGoesOn`, `InstallEnds`,
  `RouterTokenIsRenewed`, `DenylistCatchesUp`, `PendingIsResolved`,
  `IngestIsSettled`, `WorkEnds`.

Every invariant that a run checks is proved, and so is the action property of
each run that has one.

## What is not modelled

- Whole parts: Discord bridge, MCP servers and gateway, command line client,
  outgoing webhooks, the pages other than chat and terminal, user profiles,
  secrets, storage, usage reports, notifications, the migration runner,
  deployment.  They keep no state that two actors share, or edit one row in one
  statement.
- Inside modelled parts: avatars, environment variables and volumes of an agent;
  status history, notices and audit entries; renaming, pinning, archiving and
  searching threads, attachments; statistics of shared knowledge and the text
  chunker; tasks and memories; apt and builtin tool installations; automatic
  policies, `tools_config` and aliases of models; the name, key, address and
  validation of a connection; decisions on paths and shell
  commands, which are about text; `terminal.jsonl`.
- Data: message bodies are their mentions (any set of agents), prompts, prices
  and errors are left out, a cron expression is its period, a document has two
  chunks.

## What is left of the plan

The refinement of more components by an abstract specification (a workflow's due
times, a knowledge entry).
