# haider-agent: TLA+ models of the daemon's session core

haider is a coding-agent daemon. Clients (terminal UI, command line, hooks)
connect to one long-running process, `haider-daemon`; the daemon keeps
*sessions*, each an append-only journal of envelopes in a SQLite store, runs
agent turns on them and streams every committed envelope to the clients
attached to the session. This directory models the core of the daemon that the
other parts lean on:

* the pipe from a durable commit to the client's socket, under overflow, slow
  clients, failed reads, disconnects, drain, forced stop and restart, in two
  halves: `SessionPipe`, from the commit of a session to the lane of an attachment,
  and `ConnectionOutbox`, from the lanes of a connection to its socket;
* the way into the store: `GroupCommit`, many writers sharing one transaction,
  shown to implement `CommandStore`, in which each has its own;
* the life of the turns of a session, from acceptance to a terminal state, through
  cancellation, drain, crash and recovery: `TurnLifecycle`;
* the outbox that every committed event passes on its way to the user's hooks:
  `HookDispatch`.

Paths below are relative to `src/crates/haider-daemon/src/` unless they start
with `src/`.

## Inventory

| Component | State | Operations | Hard behaviour |
|---|---|---|---|
| session actor (`session_hub/actor.rs`) | durable `head`, map of attachments (sender, lag watch, `last_buffered`, `active`) | commit arms, `publish_shared_attachments`, Register, Reregister, Detach, Stop | commit and publication are two steps; overflow of a bounded channel; a batch that fits in part |
| replay task (`session_hub/replay.rs`) | cursor, high water mark, catch-up receiver, byte ledger, sealing flag | store replay, buffered and live delivery, `lag_and_detach`, `final_suffix_resume` | a lag, a cancellation and a full outbox race each other; the final suffix after the actor is gone |
| hub (`session_hub/mod.rs`) | attachment owners, replay handles, drain flag, admission slots, fences | `register_reserved`, `spawn_replay`, `take_attachment`, `detach_connection`, `begin_draining`, `shutdown` | ownership and admission exclude each other by a lock; a drain straddling an attach; join order |
| attach and detach requests (`session_hub/rpc.rs`) | none of its own | `session_attach`, `session_detach`, `HubConnection::close` | the response must precede the attachment's frames; every early return owes a cleanup |
| connection outbox (`connection.rs`) | lanes, ring, tickets, frame and byte counters, reply floor, pending responses | `offer`, `drain_ticket`, `cancel_ticket`, `try_push_with_floor`, `recv`, `credit`, `purge`, `purge_ordered`, `close` | FIFO admission under contention, lost wake-ups, accounting over many paths; one slow lane must not starve the others |
| connection task and writer (`connection.rs`) | handshake, negotiated encoding, liveness clock, reserved drain notice, frame in flight | `handle_frame`, select loop, teardown, `run_writer`, `write_ordinary` | the Welcome barrier against a racing notice; a peer that never reads; teardown with everyone asleep |
| ordered watches (`session_hub/rpc.rs`) | monitor and Loom watch slots | `monitor_watch`, `loom_watch` | replacing a watch whose delivery waits; naming a watch before its first delivery |
| group commit (`session_hub/mod.rs`, `src/crates/haider-store/src/event_store.rs`) | byte semaphore, bounded channel, group in hand, carried request, admission counter; receipts and dispatch rows | `admit`, `send`, `run_append_committer`, `commit_group`, `shutdown` | one failing member of a shared transaction; retries after a lost answer; a Shutdown in the middle of a group |
| close and delete fences (`session_hub/close.rs`, `mod.rs`) | closing and deleting sets | close, delete, reopen | a registration or a commit that returns after the fence |
| turn worker (`worker.rs`) | durable run states, queue rows and session state; the manager's slot; the supervisor's queue, active turn, rescan flag | accept, hand off, admit, start, run, cancel, settle, retire, sweep | hints that are stale or dropped; a start racing a cancellation; a drain racing a commit |
| turn recovery (`turn_recovery.rs`, `runtime.rs`) | recovered work, the hand-over in progress | recover, hand over | which of two generations ends a run, and with what |
| hook engine (`hooks.rs`) | `hook_dispatch_outbox`, scan cursors, flights, discovery cache, control channel | page, acknowledge, server jobs, drain of a session, replay | wake-ups without data; a stale page against a finished job; a deletion racing a commit |
| event store (`src/crates/haider-store`) | journal, receipts, menus, effects, leases | commit, read page, receipts, transition gate, idle settle | idempotence over retries; several writers of a run's end |
| background tasks and monitors (`tasks.rs`, `monitor.rs`) | task registry, wake-ups | start, complete, wake | completion racing cancellation |
| delegation, peers, accounts | child sessions, mailboxes, credentials | delegate, deliver, refresh | at-least-once delivery, rotation |
| runtime (`runtime.rs`, `lifecycle.rs`) | phases of the drain | drain, force | deadline racing completion |
| observing client (`src/crates/haider-client/src/observe.rs`) | cursor, gap state | attach, resume, reconnect | gaps and duplicates across reconnects |
| protocol, providers, tools, UIs | none shared | serialisation, I/O, rendering | not state machines |

How they interact: a request handler or a worker sends a command to the session
actor; the actor commits to the store and then feeds the committed batch to the
catch-up channel of every registered attachment; the attachment's replay task
first streams the store up to the head it was registered at, then the channel,
and offers each frame to its lane of the connection's outbox; the connection's
writer pops frames onto the socket. The hub owns the attachments, so that a
detach, a lag or a shutdown can take one away from the task that serves it.
The actor's commits go through the group committer. A turn is accepted into the
journal first; then the request handler hands it to the worker manager, which
starts or finds the session's supervisor, which drives one harness at a time. Every
commit leaves a row for the hook engine, which is woken and reads the rows itself.

What makes the stream correct: every committed envelope reaches an attached
client exactly once and in order, whether it comes from the store or from the
channel; `AttachCaughtUp` is true when the client reads it; a client never hears
of an attachment it was not told of; an overflow is always repaired; a graceful
shutdown means that the committed suffix went out; shutdown ends.

What makes the outbox correct: its counters are what it holds, so its bounds are
real memory bounds; a delivery that waits is woken whenever its frame may fit,
and nobody who is gone holds a place in the queue; the response that names an
attachment goes before its events and the Welcome before everything; a purged
lane stays empty; every busy lane is in the ring; a connection always ends.

What makes the writers correct: each is served as if alone, a command takes effect
once however often it is repeated, permits and counters return, nobody is left
waiting. What makes turns correct: one at a time per session, an accepted turn is
never forgotten, an end is an end, a cancellation ends the run whoever holds it, a
drain leaves nothing half-done and ends. What makes hooks correct: an event that is a
hook's input leaves the outbox only when the hook has run or by one of the code's own
decisions, never by accident; a row is handled by one job at a time, a turn that lost
its workspace runs no hook any more, every due row is served, every deletion is answered.

## Modules

| Module | Contents |
|---|---|
| `SessionPipe` | one session: actor, catch-up channels, replay tasks, lanes, requests, connections, shutdown, restart; its properties |
| `ConnectionOutbox` | one connection: outbox, delivery tasks, connection task, writer; its properties |
| `MCConnectionOutbox` | instance for TLC: symmetry |
| `CommandStore` | abstract specification: every request to the store is a transaction of its own |
| `GroupCommit` | producers, byte admission, channel, committer, store transaction, drain, crash; the refinement of `CommandStore`; its properties |
| `TurnLifecycle` | one session's runs: clients, manager, supervisor, harness, shell commands, drain, crash, recovery; its properties |
| `HookDispatch` | the hook engine and its durable outbox, server jobs, discovery, lost and selected workspaces, deletion, restart; its properties |
| `Tally` | TLAPS: sums as counts of tagged units; lemmas about them that need no induction |
| `SessionPipeProofs` | TLAPS: type correctness, the inductive invariant in layers (drain, naming, head and map, stream, marks, lane, ledger) and the safety theorems |
| `ConnectionOutboxProofs` | TLAPS: lemmas on the helpers of the outbox, type correctness, the exact ring, the accounts |
| `ConnectionOutboxFrames` | TLAPS: what each queue holds and who owns it; markers, response before event, purged lanes, the Welcome |
| `ConnectionOutboxTickets` | TLAPS: the admission tickets; no lost wake-up, no dead ticket |
| `GroupCommitProofs` | TLAPS: a command applies once, permits are exact, the refinement of `CommandStore` |
| `TurnLifecycleProofs` | TLAPS: ends are final, one thing at a time, no turn forgotten, complete drains |
| `HookDispatchProofs` | TLAPS: no hook input is dropped, a job owns its row, no hooks for a turn without its workspace |

### SessionPipe: state and code

| Variable | Code |
|---|---|
| `journal` | the session's committed envelopes in the store; of a payload only "item delta or not" is kept, which is what sealed replay looks at |
| `head`, `actor`, `batchWeight` | `head` of the actor; whether it is between the commit of a batch and its publication; the estimated bytes of that batch |
| `reg` | `ActorAttachment`: in the map, `active`, `last_buffered`, and whether a Detach command is in the actor's mailbox |
| `chan` | the bounded `mpsc` channel, the atomic byte ledger and the lag watch shared by actor and task |
| `task` | the replay task: position, cursor `lastSent`, `highWater`, sealing, page, the entry in hand, what it waits on, how it ended |
| `wire` | the attachment's outbox lane; history of what the client was sent (`named`, `seen`, `initialHigh`, `announced`, `omitted`) |
| `owned`, `connected` | the hub's `attachments` map; open outboxes |
| `drain`, `suffixFailed` | drain state; a joined or joinable task reported `FinalSuffixFailed` |
| `faults` | number of disturbances, for the bound only |

A client has at most one attachment at a time, so an attachment is named by its
client. One action is one stretch of code between two points where another task
can run: an actor turn is split only between the store commit and publication
(a crash separates them); the replay task is split at each page read, each
frame offered, each channel receive. `deliver_prepared_frame` checks ownership
and offers under the ownership lock, so an admission is one step. The
attach request is three steps: registration with the actor, the owner's entry in
the hub, response and spawn. Every early return of the request is an action
(`StageRefused`, `AttachFailed`) and leads to the cleanup that the code performs
or leaves to the connection's close.

Abstractions: an envelope is its sequence number and kind; byte weights are
drawn from `Weights`; the other actor arms commit through the same publication
code and are `CommitBatch`; a page may be shorter than `PageSize` because the
byte budget of a page may cut it; outbox refusal (byte budget, frame over the
negotiated limit, floor taken) is a nondeterministic fault; admission tickets
are a busy wait whose wake-up repeats the offer. Cancellation is the absence of
the owner, which is what the code's cancellation token means after
`take_attachment`.

### ConnectionOutbox: state and code

| Variable | Code |
|---|---|
| `box` | `OutboundState`: `lanes`, `ring` (`round_robin`), `floor`, `frames`, `bytes`, `floorInUse`, `welcomeQueued`, `pending` (`pending_responses`), `tickets`, `closed`; and `fired`, the permits stored in the tickets' `Notify` |
| `task` | the delivery of each stream: between frames, after a Busy answer, re-offering with its ticket, asleep on it, or in `lag_and_detach`; with the size of the frame in hand |
| `owned`, `stopped` | attachments in the hub's map; ordered watches whose cancel flag is set |
| `conn` | the connection task: before Hello, open, out of its loop, detached, closed; the request it is in the middle of; the monitor watch slot |
| `reserve` | the one-slot channel of the `ServerDraining` notice |
| `writer` | position in `run_writer`, the frame in flight, its local flags |
| `named`, `owed` | history: streams whose naming reply left the queue, attach requests without an answer |

A *stream* is an attachment, a monitor watch or a Loom registry watch. Every method
of `OutboundLane` takes one mutex for its whole body, so each is an operator from box
to box (`DrainTicket`, `CancelTicket`, `Push`, `Purge`, `Close` ...) and one step of its
caller. The callers are split where the code can be interrupted: `Produce` (the first
offer), `TakeTicket`, `Reoffer`, `Wake`; `LagTake`, `LagPurge`, `LagTell`; `Detach`,
`DetachPurge`, `DetachAnswer`; `MonitorWatch`, `ReplaceWatch`, `OpenWatch`. The handler
of `loom.watch` shares its stream's delivery (`conn.at = "baseline"`) because the code
awaits it in place. The writer is split at each of its awaits and at the two reads of
the Welcome barrier.

Abstractions. A frame is its kind, its stream and its charged size. `recv` is one
step that is enabled when there is a frame or an end: it creates its `Notified` future
before it takes the lock, so it cannot miss a notification. Tickets are never dead,
because a guard cancels them when the delivery ends (`TicketsAreHeld` is the invariant
behind this), and mutexes are never poisoned. A client speaks MessagePack after the
handshake, the case in which the encoding barrier matters. For an ordered stream the
check of the cancel flag and the first offer are one step; a re-offer after the cancel
is in the model. A frame over the negotiated limit is not offered. The seeded faults
stand next to the definition they vary and are used by nothing.

### GroupCommit and CommandStore

| Variable | Code |
|---|---|
| `journal`, `receipts`, `rows` | committed requests of each session, `command_receipts`, `hook_dispatch_outbox` |
| `next`, `again` | the client of each session: which request it makes, whether it repeats one whose answer it lost |
| `req`, `at`, `answer` | a session actor or the hook engine: its request, where it stands in `AppendCommitter::send`, what its oneshot holds |
| `free`, `waiters` | the fair byte semaphore |
| `line`, `queue` | senders waiting for a place in the channel; the channel |
| `comm` | `run_append_committer`: `group`, `carried` (`next_message`), `stop` |
| `admitted`, `phase` | the counter of admitted mutations; the hub's drain |

The semantic checks of a member (generation, branch, run state, metadata) are a
verdict chosen at each attempt (`R`), the same in the abstract specification, so that
refinement cannot hide behind them. A fatal store error fails the whole group. The
answer can be lost with the client, which then repeats the command under the same id;
a worker's append is not repeated. `CommandStore` knows of no queue, group or receipt:
a step serves any set of producers, each with the answer its own session deserves.
Under the mapping, a producer's `fate` is idle, pending or its answer; admission,
channel and collection are stuttering steps.

### TurnLifecycle

| Variable | Code |
|---|---|
| `state`, `row`, `session` | last durable `RunState` of each run, its row of the queue, the aggregate `SessionState` |
| `spent` | headless runs with a `RunBudgetExhausted` on record |
| `hand`, `busy`, `born` | hand-offs of request handlers under way; runs whose hand-off was answered Busy; shell commands accepted by this generation |
| `slot`, `events`, `sweep` | the manager's slot, the lifecycle events on their way to it, a terminalization in progress with the states it has read |
| `chan`, `sup` | the supervisor's bounded channel; the supervisor with its queue, deferred shell commands, active turn and token, rescan flag, cancellation wake, retirement |
| `work`, `ready`, `phase` | startup recovery and hand-over; phase of the daemon |
| `used`, `lost` | disturbances, for the bound; a sweep of the manager gave up (its snapshot was stale) |

The states of a run are the ones the code tells apart: queued, at work, a shell
command at work, parked (waits for an answer, a permission, a child), routed (waits for
the network), cancelling, cancelled, errored, done. Each commit re-reads or not what the
code re-reads or not: a sweep works from its snapshot through the store's transition
gate (`Terminalized`), the start of a turn is fenced by the state it finds. The
supervisor's position `sup.at` is the await it stands at; it settles the session in a
step of its own, after the terminal commit. The harness is external to this module: it
takes up a run, waits, goes on, ends, or panics.

A receipt replay of `turn.submit` hands any accepted run over again (`Repeat`,
`session_hub/rpc.rs:15173`); that of a shell command only in the generation that accepted
it. The budget of a headless run is used up at work (`BudgetFires`), while it is queued
behind another turn (`QueuedBudgetFires`, `ExpireQueued`) or when its start asks for it
(`StartFails`). The fact is durable before anything acts on it. From then on everybody who
closes the run after a look at its journal does so with the budget's failure (`Closing`),
and the store's gate lets that failure, alone of all, end a run that is being cancelled
(`Terminalized`, the code's `budget_terminal_wins`); a budget failure that comes after
the end of the run settles nothing. Recovery may also end a waiting run, because its
checkpoint cannot be put together again (`RecoverRun`, `turn_recovery.rs:901`).

### HookDispatch

| Variable | Code |
|---|---|
| `rows`, `last` | `hook_dispatch_outbox`; last sequence numbers |
| `input`, `turn`, `facts`, `picks` | what the events are: input of a hook; of the turn that may lose its workspace; its `workspace_unavailable` event; `workspace_selected` |
| `done`, `waived` | history: rows the hooks have handled to the end; inputs whose row goes by a decision of the code although no hook has run |
| `away`, `pinned` | workspaces that cannot be opened; turns in `workspace_unavailable_runs` |
| `hooked`, `cache`, `rescan` | hook files of the workspace, the discovery cache, `dispatch_rescan_required` |
| `wake`, `head` | the `committed_wake` watch: an unseen change, and whether its value is `Some` |
| `cursor`, `flights`, `acked`, `progress` | scan cursors, `HookDispatchFlights`, jobs that have acknowledged, the permit in `dispatch_progress` |
| `controls`, `eng`, `page`, `del` | control channel, engine task and its mode, page in hand (`fenced`: the rows read with the mark of an unavailable workspace), the deletion of each session |

A page is read, considered row by row, flushed. Each row ends passed over, retained
behind the cursor, acknowledged, handled in place, or handed to a server job that
acknowledges it itself. What a hook does and how it is trusted is data: an input whose
hooks the policy holds back (lockdown, an untrusted file, a read-only session) has been
handled.

An input leaves the outbox without its hooks in these ways, all of them in the code and
each an assignment of `waived` in the model: its turn is pinned or its row marked as
without a workspace, or its session's workspace cannot be opened (`hooks.rs:1998`, `2180`);
the session's metadata or its hook files cannot be read (`hooks.rs:1972`, `2733`, `2738`);
its hooks have been removed since they were seen; its session is being deleted and has no
hooks; another workspace was selected, which deletes the session's earlier rows
(`event_store.rs:9930`). `NoInputDropped` says that there is no other way.

A turn that finds its workspace gone is pinned in memory first (`PinTurn`) and then commits
the fact (`JournalUnavailable`), which marks the turn's rows; whoever handles the fact lifts
the pin. A selection needs an idle session, and goes to a workspace that the process has
not seen before. The metadata that the code reads again for a row (`hooks.rs:2733`) is
read in the same step as the row's first look, and a row is considered in one step. A hook
that started before its turn was pinned runs to its end.

## Runs

| Run | Question | Bounds |
|---|---|---|
| `pipe_one` | order, completeness, truth of `AttachCaughtUp`, byte ledger, truth of a graceful outcome, arrival of every commit, end of a drain, for one attachment through all its races | 1 client, journal of 3, batches of 2, channel of 1, lane of 2, 1 fault |
| `outbox_safe` | the safety of the outbox with three streams contending for it | 1 attachment, 2 monitor watches (symmetric), 2 frames, 3 bytes, events of 2 bytes and replies of 1, 1 reply, failing writes |
| `outbox_live` | is every waiting delivery served, does every connection end with its deliveries and its notice, does a peer that stops reading lose its streams | 1 attachment, 1 Loom watch, 2 frames, 2 bytes |
| `commit_group` | is the group invisible, is a command applied once, are permits exact, is everybody answered, does shutdown end | 2 sessions with 1 request each and its repetitions, the hook engine, weights below and above both byte limits, channel of 2, groups of 3, 1 fault |
| `turns_safe` | one turn at a time, none forgotten, drains complete, ends final, with a budget among the writers of an end | 3 runs, queue and channel of 1, 1 disturbance of any kind |
| `turns_live` | does a cancelled run end, is a queued run served, does a drain end | 2 runs, queue and channel of 1, 2 panics, exhausted budgets, crashes or drains |
| `hooks` | is no input dropped, does a job own its row, does a turn without a workspace run no hook, is every due row served, every deletion answered | 1 session, 2 events, pages of 2, 2 requests or changes of hooks and workspace, 1 fault |
| `drain_read_failure` | violated: DELIVERED-OR-FORCED as the comment on `shutdown` states it | 1 client, 2 faults |
| `recovery_idle` | violated: no idle session over an open run, as a test states it | 2 runs, 1 crash |
| `route_drain` | violated: route waits survive a drain, as a comment in `run_supervisor` states it | 1 run, 1 drain |
| `replay_cancel` | violated: a receipt replay of an active run changes nothing, as a comment in `admit_pending` states it | 1 run, 1 repetition |
| `hooks_list` | violated: rows become eligible as soon as a list has seen their hooks, as a comment in `HookService::list` states it | 1 session, 1 event |

The bounds of `SessionPipe` are small because every counter is compared only with its
neighbours. A channel of 1 entry with a journal of 3 overflows on whole and on partial
batches, before, during and after the store replay, and lets the receiver lag,
re-register and lag again. One fault covers each of: failed page read, refused frame,
lost connection, drain, forced stop; a forced stop and a restart at every point are
included. Several attachments of a session meet only through the drain flag, the actor
and the registry of replay handles; the theorems hold for any number of them.

In `ConnectionOutbox` a budget of 3 bytes with events of 2 and replies of 1 makes every
admission dimension (frames, lane, bytes, floor) the binding one in some state, with a
frame in flight or not; three streams give a queue of tickets with a head and
successors, and System is always one more lane. `MaxReplies` bounds requests that change
nothing but the queue; it matters to liveness, because replies are admitted without a
ticket, so that a client that never stops asking can keep the head ticket's frame from
ever fitting. Each stream is opened once, as ids are never reused.

In `GroupCommit` a request of weight 4 exceeds the semaphore (3) and the group (2): it is
clamped at admission and commits alone; weights of 1 fill a group with a carried request
behind it, and the hook engine's acknowledgement is the third member.

In `TurnLifecycle` three runs with a queue and a channel of one give an active turn, a
queued one and one that overflows, so that a hint is dropped and the journal has to be
read again. A disturbance is a direct shell command, a repeated command, a panic, a
retirement asked for from outside, an exhausted budget, or a stop (a crash or a drain, each with the recovery
that follows); idle retirement and cancellation are never counted. `turns_live` leaves the
shell command and the repetition out: with them the properties fail for the reasons given
under Observations and Findings.

In `HookDispatch` two events in one session let a commit, the end of a job or a
discovery fall in the middle of a page that was read before it; sessions meet only in the
page limit. `OfTurn = {TRUE}` makes each input one of the turn that may lose its workspace,
which loses nothing while the turn has not lost it; the theorems hold for both. Deadlock is not checked where a system whose clients have used up their
requests may rest: `TurnLifecycle` and `HookDispatch`.

Every property has a seeded fault in `PROJECT.json` (`mutants`), a version of one
definition with a plausible mistake, that the property's run detects.

### Fairness

`FairSpec` assumes weak fairness of the actor's publication, of every step of a
replay task, of the shutdown future and of the writer. The tokio runtime polls
every ready task; the writer is fair for a peer that reads. One whose writes make no
progress has its attachments taken from it by the connection's tick, which in the model
is a disconnect, and both liveness properties allow one. Commits, requests, detaches, disconnects and the
start of a drain are never assumed.

For the outbox, `RunningFairness` assumes that ready deliveries, a request handler that
can proceed and teardown run. `PeerReads`, a premise of the properties that ask what a
reading client gets, adds the writer's steps and the end of a started write;
`StalledPeerHoldsNoStream` does not assume it, but that the liveness tick fires when it is
polled (`TickFires`), which needs the connection task to be in its select loop.
Production of events, requests, detach, drain and disconnection are never assumed.

`GroupCommit`: the semaphore, the channel, the committer, the hub's shutdown and the
receipt of an answer are weakly fair; they are tokio tasks and queues that are fair by
their documentation. Submissions, the start of a drain, faults and restarts are not assumed.

`TurnLifecycle`: manager, supervisor, startup and drain are weakly fair, and so are the
start and the end of a harness at work, which the provider's and the tools' own timeouts
bound; a waiting turn need never go on. The supervisor's reception of a command is strongly
fair: its `select!` polls its branches in random order, so a cancellation wake that is
ready again and again cannot keep a command out for ever. Clients, panics, budgets,
crashes, drains and retirements are never assumed.

`HookDispatch`: the engine is weakly fair, and so is each server job, which has a timeout.
Commits, changes of hook files and workspaces, lists, deletions and restarts are not
assumed.

### Findings

* `drain_read_failure`: the comment above `shutdown` in `session_hub/mod.rs` promises that
  a graceful outcome implies delivery, or the outcome is forced. A read error in the
  *ordinary* store replay (not the final suffix) during a drain makes the task
  detach and finish as completed; the outcome stays graceful although the client
  lacks committed envelopes.
* `recovery_idle`: `interrupted_terminal_payloads` in `turn_recovery.rs` commits an idle
  session with the end of each interrupted run and does not look at the session's other
  runs; one that recovery hands over again is then open in an idle session. A test in
  `session_hub_private_tests.rs` states the law for terminalization sites; the other sites
  go through `settle_session_idle`, which looks at all runs of the session itself.
* `route_drain`: the supervisor keeps a turn that waits for the network through its
  shutdown; the manager's sweep, later in the same drain, spares answers, permissions and
  children but not the network, and cancels it.
* `replay_cancel`: `admit_pending` ends any run it finds `Cancelling`, the active one too.
  A repeated `turn.submit` that arrives before the cancellation wake ends the run under its
  harness, whose token nobody cancels any more.
* `hooks_list`: before the first commit of a process the wake-up of a list carries no head
  and the engine passes it over.

The runs state the documented sentence as a property and TLC exhibits the
behaviour; `PROJECT.json` quotes the sources.

### Observations

Behaviour the models have that no text of the repository excludes, or that a property
leaves out by name:

* A receiver that lags during its sealed initial replay re-registers with a later high
  water mark and the flag still set, so item deltas past the announced `replay_through_seq`
  are omitted too (`SealedIsInitialOnly` states what would exclude it).
* The reply of `monitor.watch` and the watch's deliveries ride lanes the ring schedules
  independently; a delivery can arrive first.
* The error that replaces a purged attach response is offered once; with the floor taken it
  is dropped and the request stays unanswered (`AttachIsAnswered`).
* R9 (`connection.rs:100`) says that queued traffic that makes no write progress for
  `WRITE_PROGRESS_DEADLINE` closes the connection. The tick leaves the loop without an
  error, the streams are detached and the outbox is closed, but a loop that ended without an
  error does not abort the writer (`connection.rs:1594`): `finish().await` (`1599`) waits for
  a write that has no deadline of its own (`1782`), and the socket of such a peer stays
  open with it. `StalledPeerHoldsNoStream` says what does hold, that nothing of the
  session is left to the peer; the model's writer stays in `writing` for ever, as the
  code's does.
* `loom.watch` awaits the admission of its baseline inside the connection task, whose tick
  ends the service of a peer that does not read; while it waits the tick is not polled.
  `StalledPeerHoldsNoStream` excludes that wait.
* A direct shell command consumes the session's cancellation wake while it looks at its own
  run only (`worker.rs:7847`); a queued run cancelled meanwhile stays `Cancelling` until the
  next wake, hand-off or restart.
* A turn started without a queue row whose hint overflows is found again by a refill, which
  claims it was queued, and is dropped when it is popped (`worker.rs:4838`);
  `NoTurnForgotten` speaks of turns with a row.
* A sweep of the manager works from a snapshot and gives up when one of its commits is
  refused; what it had still to do stays as it is until the next restart (`lost`).
* A run that was cancelled before its hand-off was refused as Busy stays `Cancelling` until
  its client repeats the command.
* A turn that commits behind the sweep of a drain stays queued until the restart, which
  hands it over.
* A recovered checkpoint that finds its supervisor's queue full makes startup fail.
* Startup waits for each recovered run to be taken up before it listens; one that parks for
  an answer in front of another holds startup up (`runtime.rs:1128`).
* The hook engine's `select!` is biased towards wake-ups (`hooks.rs:1775`): commits that never
  stop keep control messages waiting.
* A page filled with blocked or retained rows of one session hides the rows of later ones.


## Proofs

Every safety property that a passing run checks is a theorem for all values of the
constants, action properties and the refinement of `CommandStore` included; the
run is its small instance. The theorems of each component stand in modules of their own.

Three of the properties compare a counter with a sum (bytes of a channel, bytes and
frames of an outbox, permits of a semaphore). The models define a sum by counting its units:
the summand `k` contributes the pairs `<<k, 1>>`, `<<k, 2>>`, ..., and the sum is the number
of pairs. `Tally` proves once what appending, removing or changing one summand does to such
a count, from the library's theorems on finite sets; no proof needs induction over a queue.

### SessionPipe

TLAPS proves, for every set of clients and every value of the bounds that satisfies
`PipeAssumption` (capacities and page size positive, the rest natural numbers):

| Theorem | Statement |
|---|---|
| `TypeCorrect` | `Spec => []TypeOK` |
| `LanesAreContiguous` | `Spec => []StreamContiguous` |
| `MarkersAreComplete` | `Spec => []CaughtUpIsComplete` |
| `NoCommitStranded` | `Spec => []NothingStranded` |
| `GracefulDelivers` | `Spec => []GracefulIsComplete` |
| `SuffixFailureIsReported` | `Spec => []SuffixFailureForces` |
| `UnknownIdRuleHolds` | `Spec => []UnknownIdRule` |
| `MarksIncrease` | `Spec => CaughtUpIncreases` |
| `LedgersBalance` | `Spec => []LedgerExact` |

No safety property is inductive as it stands. The invariant is built in layers; each is inductive given those above it, so that the
proof of a layer only opens the actions that touch it.

* `DrainInv`: what `drain` implies about tasks and about `suffixFailed`. Alone it gives
  `SuffixFailureForces`: a spawn resets the report but is refused once the hub drains.
* `NamedInv`: a staged response is alone in its lane, and a streaming client has it or
  will get it first. It gives `UnknownIdRule`.
* `HeadInv`, `MapInv`: the actor's head is the durable head but for the batch in hand, an
  attached client is in the actor's map until the actor stops, a channel is within its
  capacity.
* `StreamInv`: the heart. `Cursor(c)` is the last envelope that need not come from the
  channel (the high water mark during store replay, the entry in hand during a
  delivery, the last one sent otherwise). The channel continues `Cursor(c)` without a
  gap; it ends at the head exactly when the receiver has not lagged; the actor's
  `lastBuffered` is that end. It gives `NothingStranded` and, with the bounds on the
  final suffix, `GracefulIsComplete`.
* `MarkInv`: announced marks trail the cursor and the next target. It gives
  `CaughtUpIncreases`, which needs that a receiver re-registers only with a head past
  its cursor.
* `LaneInv`: the frames of a lane in terms of sequences: in order, past what the client
  has seen, covering everything up to the cursor, and up to each marker by the frames
  ahead of it. The four changes of a lane (an event joins, a marker joins, the head
  leaves, the lane is reset) are lemmas about sequences alone; the actions only say
  which one they are. `StreamInv` enters at one point: the entry in hand is the
  successor of the cursor.
* `LedgerInv`: the ledger of a channel is the load of the weights queued in it. A batch
  that fits in part charges exactly the entries it leaves in the channel, a receive refunds
  the entry it takes, a re-registration starts a new channel with a new ledger.

The layers were model-checked as invariants of the instances above before they were
proved.

### ConnectionOutbox

For every set of attachments, monitor and Loom watches, every capacity and budget
(zero included) and all positive frame sizes (`OutboxAssumption`):

| Theorem | Statement |
|---|---|
| `TypeCorrect` | `Spec => []TypeOK` |
| `RingServesEveryLane` | `Spec => []RingIsExact` |
| `AccountsBalance` | `Spec => []AccountingExact` |
| `MemoryIsBounded` | `Spec => []WorstCase` |
| `MarkersAreExact` | `Spec => []PendingIsQueued` |
| `ResponsePrecedesEvents` | `Spec => []ResponseFirst` |
| `PurgedLaneStaysEmpty` | `Spec => []NothingAfterPurge` |
| `WelcomeComesFirst` | `Spec => []EncodingBarrier` |
| `NobodySleepsThroughRoom` | `Spec => []NoLostWakeup` |
| `TicketsEndWithDeliveries` | `Spec => []TicketsAreHeld` |

Again in layers. In each the operators of the outbox are treated first, by lemmas
about an arbitrary outbox; the steps of the tasks then only say which operator they
apply and what they do to the other variables.

* `TypeInv` (`ConnectionOutboxProofs`): the types, with the ring. A pop takes the head of
  the lane the ring names; that there is a frame to take is the exactness of the ring,
  so types and ring are proved together. `HandlerOK` adds that a request in progress
  names a stream of its own kind.
* `AccountInv` (same module): the frame counter is what is queued; the byte counter and
  the floor slot are at least what is queued or in flight and within their bounds
  (`Books`), and exactly that until the connection fails (`Even`). The inequality is what
  survives an abort, which drops the frame in flight without a refund; it is all that
  `WorstCase` needs. A frame is in flight only while it is written, so that `credit` refunds
  what the pop left charged. Every operator is shown *careful* (it takes the books with
  it) for an arbitrary outbox; the saturating subtractions never saturate.
* `FramesInv` (`ConnectionOutboxFrames`): `Frames` says what queues hold, namely events of
  its own stream in a stream's lane, none on the System lane or the floor, and each
  staged response at most once over the two, exactly while its marker is set. `Owners`
  ties this to the hub: an owned attachment has its response queued or sent; who is
  about to purge, or has purged, no longer owns. The properties of attachments are
  consequences; none is inductive alone, since an admission is decided by the owner
  and by the marker, not by the response's whereabouts.
* `BarrierInv` (same module): before the handshake nothing is queued and no stream is
  open; from the handshake until it is written, the Welcome is at the head of the
  System lane or of the floor, or in flight. So the writer, wherever it was parked,
  can pop nothing else, does not find the outbox exhausted, and holds a notice back.
* `WakeInv` (`ConnectionOutboxTickets`): no ticket occurs twice, and its holder is
  re-offering or asleep; frames have positive sizes; a watch about to be opened has no
  delivery yet. Every operator either *rouses* (there is no ticket, the head has a
  permit, or the outbox is full) or only *tightens* (same tickets, no more room); either
  way nobody sleeps through room. The one delicate case is a cancelled ticket that is
  not the head, which leaves the head and the room as they were.

### GroupCommit

For any sessions, requests, weights and limits, and any number of faults
(`CommitAssumption`):

| Theorem | Statement |
|---|---|
| `TypeCorrect` | `Spec => []TypeOK` |
| `CommandsApplyOnce` | `Spec => []AppliedOnce` |
| `AdmissionIsExact` | `Spec => []AdmissionExact` |
| `GroupIsInvisible` | `Spec => EachAlone`, that is `Spec => Alone!Spec` |

`GroupInv` has one part for each thing that could go wrong:

* `Places`: a request is in one place (waiting for permits, in line, in the channel, in the
  group, carried), once, and its producer is where that place says. `Loop` and `StopIsLast`
  say what the committer holds at each point and that nothing of a session follows the
  Shutdown message.
* `Hands`, `Receipted`: a client's request in progress is its current one, and it is
  repeated only if it carries a receipt. If the current request is already in the journal,
  its receipt is there too, or its answer is on the way. This is what makes `AppliedOnce`
  inductive (the transaction that would apply it again finds the receipt) and the replayed
  answer of the refinement right (the abstract store looks into the journal instead).
* `Admission`: free permits and the permits of admitted requests are the whole semaphore.

For the refinement each action is shown to be a step of `CommandStore` or to leave
`journal`, `rows`, `req` and every `Fate` alone. The commit of a group is one abstract
step for all its members: by `Places` they are different producers, and what the
transaction does for one depends on its own session only.

### TurnLifecycle

For any number of runs, any positive capacity of queue and channel, any kinds and number of
disturbances (`TurnAssumption`):

| Theorem | Statement |
|---|---|
| `EndsAreFinal` | `Spec => TerminalIsFinal` |
| `OneThingAtATime` | `Spec => []OneAtWork` |
| `TurnsAreNotForgotten` | `Spec => []NoTurnForgotten` |
| `DrainsAreComplete` | `Spec => []DrainIsComplete` |

`TerminalIsFinal` is about every step, and fails to be inductive because of the sweeps
that follow a retirement, a panic or a drain: a sweep ends, one transaction at a time,
the runs it found open when it began. `TurnInv` says why that list stays right:

* `StateOK`: runs are accepted in order, so the run accepted next is a new one and the
  acceptance reopens nothing.
* `SupOK`, `SlotOK`: a supervisor and a turn at work exist only behind the manager's slot;
  a failed start has recorded whether it was cancelled, went wrong or is over budget.
* `SweepOK`: while a sweep has work to do the slot is free and recovery is over, each run
  on its list is still open and listed once, and one that was being cancelled when the
  sweep began is so still. Others may cancel a listed run meanwhile; nobody ends it.

Each action is then shown *lawful* (an ended run keeps its state; one that is being
cancelled stays so or ends as Cancelled, or as Errored if its budget was on record before
the step), which gives `EndsAreFinal`.

The other three rest on `SessionInv`, which puts further layers on `TurnInv`:

* `Typed`, `Where`, `RowsOK`, `HintsOK`, `PhasesOK`: the types; which await of the supervisor
  goes with an active turn; a run's queue row agrees with its state; whatever names a run
  (a hand-off, a command in the channel, recovered work) names an accepted one; nothing
  stops a supervisor before a drain.
* `OutcomeOK`, `RunningOK`, `ShellOK`: a harness that is through has left its run cancelling
  or over; what the journal calls running is the active turn or recovered work not yet
  taken up; beside the chosen run no shell command is open. They give `OneAtWork`.
* `HeldOK`, `UnreadOK`: every queued turn with a row and every shell command is *held* by
  somebody (a hand-off on its way or refused as busy, a command in the channel, the
  supervisor's queue, its active turn, a rescan it owes, a sweep that lists it), and a
  supervisor that found the session quiescent leaves nothing behind but hand-offs. While
  recovery reads, what it has not read is ahead of it. They give `NoTurnForgotten`, which
  each step preserves by passing the run from one holder to the next.
* `DrainOK`: behind a drain's sweep there is no supervisor, and each run at stake is on the
  sweep's list or its hand-off is still on its way. It gives `DrainIsComplete`.

### HookDispatch

| Theorem | Statement |
|---|---|
| `NoInputIsDropped` | `Spec => []NoInputDropped` |
| `JobsOwnTheirRows` | `Spec => []JobOwnsItsRow` |
| `UnavailableTurnsRunNoHooks` | `Spec => NoHooksOnceUnavailable` |

`NoInputDropped` speaks of the outbox, but rows leave it when a page is flushed, and the
page was read and considered earlier. `HookInv` carries the obligation across: every
input among a page's acknowledgements has been handled or waived (`AcksAreEarned`), and
no row or acknowledgement is ahead of its journal (`NothingAhead`), so that a commit in
the middle of a page cannot be acknowledged by it.

`JobOwnsItsRow` needs that a page considers each of its rows once: a row that went to a
job is no longer to be considered, and one already acknowledged is not either (`PageOK`).
The page is a set of rows served session by session in journal order (`Before`), the order of
the query that reads it.

`NoHooksOnceUnavailable` is about a page that may have read a row before its turn was
pinned, so that the row in hand carries no mark. `FenceInv` says what stops it all the same:
a row in hand of a turn whose fact is durable was read with the mark, or the turn is still
pinned (`PinsHold`). The pin is lifted by whoever handles the fact, and a page that holds
the fact has read every row of the turn with the mark, because fact and marks are one
commit (`FactComesMarked`); the fact itself starts no hook (`FactIsNoInput`). A selection
lifts the pin too, and leaves no row of the turn (`SelectionIsAlone`). The deletion of a
session and a crash lift it while no page is in hand (`HandsFree`).

### Only model-checked

The liveness properties, since fairness and `ENABLED` are outside the prover's reach:
`EveryCommitArrives` and `DrainEnds` of the stream; `TicketsAreServed`, `ConnectionEnds` and
`StalledPeerHoldsNoStream` of the outbox; `EveryRequestIsAnswered` and `ShutdownEnds` of the
committer; `CancelSettles`, `QueuedIsServed` and `DrainEnds` of the turns;
`EveryRowIsServed` and `DrainIsAnswered` of the hooks.

## Not modelled

See `components` in `PROJECT.json`. Of the modelled components, left out are: the
admission slots of the hub; the races of the close fence; of the turn worker, run
deadlines, a budget fact that cannot be made durable, delegated participants of a budget,
the supervisor's exits on internal errors (`return false`), effects of unknown outcome, retries of failed runs, compaction, steer and
subturn deliveries, delegated children (also those recovery leaves to a waiting parent), and
a shutdown that arrives during the hand-over
at startup; of the hooks, trust pins, run-scoped trust and the hook server processes. Not
modelled at all: the descendant stream, background tasks, delegation, peers, accounts
and the observing client. Wire formats, providers, tools and user interfaces (more than
half of the repository's lines) have no concurrent state of their own.

## Plan

1. `SessionPipe`, `ConnectionOutbox`, `GroupCommit` with `CommandStore`, `TurnLifecycle`,
   `HookDispatch`: done, model-checked; every safety property proved.
2. That the lane assumed by `SessionPipe` (bounded FIFO, response before the first frame,
   purge empties it) is what the outbox provides, as a refinement.
3. `ObserveClient`: the client's cursor across `Lagged` and reconnects, composed with
   the stream; refinement of an abstract in-order journal reader.
4. `SessionFences`: close and delete against registration, append and worker start; the
   descendant stream; delegation and background tasks on top of `TurnLifecycle`.
