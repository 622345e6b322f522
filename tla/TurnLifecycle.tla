--------------------------- MODULE TurnLifecycle ---------------------------
(***************************************************************************)
(* The life of the turns of one session: acceptance by the store, the      *)
(* hand-off to the worker manager, the session's supervisor and the        *)
(* harness it drives (haider-daemon, worker.rs), the daemon's drain, and   *)
(* startup recovery after a crash or a restart (turn_recovery.rs).         *)
(*                                                                         *)
(* A turn is durable before anyone works on it: what moves between rpc     *)
(* task, manager and supervisor are hints, and every hint may be stale.    *)
(***************************************************************************)
EXTENDS Naturals, Sequences, FiniteSets, FiniteSetsExt, SequencesExt

CONSTANTS MaxRuns,          \* runs of the session
          Capacity,         \* SUPERVISOR_CAPACITY, of the channel and of the queue
          Disturbances,     \* what may happen besides turns and cancellations
          MaxDisturbances   \* bound on how often

\* A direct shell command, a repeated command, a panic of a harness, a
\* retirement asked for by a deletion, the budget of a headless run used up, a
\* crash or a drain.
ASSUME TurnAssumption ==
    /\ MaxRuns \in Nat
    /\ Capacity \in Nat \ {0}
    /\ Disturbances \subseteq {"shell", "repeat", "panic", "retire", "budget", "stop"}
    /\ MaxDisturbances \in Nat

VARIABLES
    state,     \* durable: run -> RunState, in accepted order
    row,       \* durable: run -> its row of the queue
    session,   \* durable: SessionState, "idle" or "active"
    spent,     \* durable: headless runs with a RunBudgetExhausted on record
    phase,     \* of the daemon
    hand,      \* hand-offs on their way from rpc tasks to the manager
    busy,      \* runs whose hand-off was answered with an error
    born,      \* shell runs accepted by this generation of the daemon
    slot,      \* the manager's slot of the session
    chan,      \* the supervisor's channel
    events,    \* lifecycle events on their way to the manager
    sweep,     \* a terminalization by the manager in progress
    sup,       \* the supervisor task
    work,      \* recovered work still to hand over at startup
    ready,     \* the recovered run that startup waits for, or 0
    used,      \* disturbances so far
    lost       \* a sweep of the manager gave up

vars == <<state, row, session, spent, phase, hand, busy, born, slot, chan, events, sweep, sup, work,
          ready, used, lost>>

durable == <<state, row, session, spent>>
manager == <<slot, events, sweep>>
startup == <<work, ready>>
ledger == <<used, lost>>

Runs == 1..MaxRuns

\* "shell" is RunningTool of a direct shell run; "running" any other state of a
\* turn at work; "parked" waits for an answer, a permission or a child; "routed"
\* waits for the network.
Waiting == {"parked", "routed"}
Ended == {"cancelled", "errored", "done"}
Open == {"queued", "running", "shell", "cancelling"} \cup Waiting

Accepted == {r \in Runs : state[r] # "none"}
Nonterminal == {r \in Runs : state[r] \in Open}
Quiet == Nonterminal = {}

\* A hint: the run and how it came. Refilled hints always claim to be queued.
Hint(r, via) == [run |-> r, via |-> via]
Hints == [run : Runs, via : {"started", "queued", "recovered", "shell"}]
Retire(idle) == [run |-> 0, via |-> IF idle THEN "retire_idle" ELSE "retire"]
Shutdown == [run |-> 0, via |-> "shutdown"]

NoHint == [run |-> 0, via |-> "none"]

\* at: where the task stands; next: where it goes after settling the session;
\* out: the outcome of the harness; saw: the reason a start failed.
Fresh == [at |-> "top", next |-> "top", hint |-> NoHint, active |-> 0, out |-> "none",
          token |-> FALSE, queue |-> <<>>, shells |-> <<>>, rescan |-> FALSE,
          wake |-> FALSE, saw |-> "none", retire |-> FALSE, idle |-> "no",
          stopping |-> FALSE, kept |-> FALSE]

NoSup == [Fresh EXCEPT !.at = "none", !.next = "none"]

NoSweep == [of |-> "none", todo |-> {}]

Registered == sup.at \notin {"none", "exited"}

Init ==
    /\ state = [r \in Runs |-> "none"]
    /\ row = [r \in Runs |-> "none"]
    /\ session = "idle"
    /\ spent = {}
    /\ phase = "up"
    /\ hand = {}
    /\ busy = {}
    /\ born = {}
    /\ slot = "none"
    /\ chan = <<>>
    /\ events = {}
    /\ sweep = NoSweep
    /\ sup = NoSup
    /\ work = <<>>
    /\ ready = 0
    /\ used = 0
    /\ lost = FALSE

----------------------------------------------------------------------------
(* Clients. The session actor runs one command at a time; a request that   *)
(* passed the admission gate may still commit while the daemon drains.     *)

Drains == {"draining", "settling", "sweeping"}

\* A startup that failed drains without ever having had a client.
Serving == phase = "up" \/ (phase \in Drains /\ ready = 0)

Disturb(kind) ==
    /\ kind \in Disturbances
    /\ used < MaxDisturbances
    /\ used' = used + 1

NextRun == Cardinality(Accepted) + 1

\* turn.submit: started at once when the session is quiet, queued otherwise.
Accept ==
    /\ Serving
    /\ NextRun \in Runs
    /\ state' = [state EXCEPT ![NextRun] = "queued"]
    /\ row' = [row EXCEPT ![NextRun] = IF Quiet THEN "none" ELSE "held"]
    /\ session' = IF Quiet THEN "active" ELSE session
    /\ hand' = hand \cup {NextRun}
    /\ UNCHANGED <<spent, phase, busy, born, manager, chan, sup, startup, ledger>>

\* shell.exec: refused while any run is nonterminal.
AcceptShell ==
    /\ Serving
    /\ NextRun \in Runs
    /\ Quiet
    /\ Disturb("shell")
    /\ state' = [state EXCEPT ![NextRun] = "shell"]
    /\ row' = [row EXCEPT ![NextRun] = "shell"]
    /\ session' = "active"
    /\ hand' = hand \cup {NextRun}
    /\ born' = born \cup {NextRun}
    /\ UNCHANGED <<spent, phase, busy, manager, chan, sup, startup, lost>>

\* The actor commits, then bumps the wake of the registered lease.
Cancelling(r) ==
    /\ state' = [state EXCEPT ![r] = "cancelling"]
    /\ sup' = [sup EXCEPT !.wake = @ \/ Registered]
    /\ UNCHANGED <<session, spent, phase, hand, busy, born, manager, chan, startup, ledger>>

\* turn.cancel, and turn.retract.
Cancel(r) ==
    /\ Serving
    /\ state[r] \in Open \ {"cancelling"}
    /\ Cancelling(r)
    /\ UNCHANGED row

Held(r) == row[r] = "held" /\ state[r] = "queued"

\* queue.remove, and queue.promote_steer, which hands the text to another run.
Unqueue(r) ==
    /\ Serving
    /\ Held(r)
    /\ row' = [row EXCEPT ![r] = "removed"]
    /\ Cancelling(r)

\* A client that lost the answer, or was told to retry, repeats the command; the
\* receipt makes it a second hand-off, of a shell command only in its generation.
Repeat(r) ==
    /\ phase = "up"
    /\ r \in Accepted
    /\ row[r] = "shell" => r \in born
    /\ r \notin hand
    /\ IF r \in busy THEN UNCHANGED used ELSE Disturb("repeat")
    /\ hand' = hand \cup {r}
    /\ busy' = busy \ {r}
    /\ UNCHANGED <<durable, phase, born, manager, chan, sup, startup, lost>>

----------------------------------------------------------------------------
(* The manager.                                                            *)

Idling == sweep.of = "none"

Via(r) == IF row[r] = "shell" THEN "shell" ELSE IF row[r] = "none" THEN "started" ELSE "queued"

\* A command for a slot that retires, or whose task has ended, is deferred until
\* the slot is released.
Deferred == slot = "retiring" \/ (slot = "active" /\ sup.at = "exited")

\* A hint goes to the session's supervisor, which is spawned when there is none.
Send(h) ==
    /\ Idling
    /\ ~Deferred
    /\ IF slot = "none"
       THEN /\ slot' = "active"
            /\ sup' = Fresh
            /\ chan' = <<h>>
       ELSE /\ Len(chan) < Capacity
            /\ chan' = Append(chan, h)
            /\ UNCHANGED <<slot, sup>>
    /\ UNCHANGED <<events, sweep>>

HandOff(r) ==
    /\ phase = "up"
    /\ r \in hand
    /\ Send(Hint(r, Via(r)))
    /\ hand' = hand \ {r}
    /\ UNCHANGED <<durable, phase, busy, born, startup, ledger>>

\* The channel is full, or the daemon drains.
HandOffFails(r) ==
    /\ r \in hand
    /\ \/ phase = "up" /\ Idling /\ ~Deferred /\ slot = "active" /\ Len(chan) >= Capacity
       \/ phase \in Drains
    /\ hand' = hand \ {r}
    /\ busy' = busy \cup {r}
    /\ UNCHANGED <<durable, phase, born, manager, chan, sup, startup, ledger>>

\* Retirement is asked for behind a session's deletion, or by an idle supervisor;
\* Retire waits for room in the channel if it must.
RequestRetirement(idle) ==
    /\ slot' = "retiring"
    /\ chan' = Append(chan, Retire(idle))

RetireSession ==
    /\ phase = "up"
    /\ Idling /\ slot = "active" /\ sup.at # "exited"
    /\ Disturb("retire")
    /\ RequestRetirement(FALSE)
    /\ UNCHANGED <<durable, phase, hand, busy, born, events, sweep, sup, startup, lost>>

\* Seeded fault: a slot whose retirement was refused stays closed.
TakeEventForgetful(e) ==
    /\ Idling
    /\ e \in events
    /\ events' = events \ {e}
    /\ IF e = "expired" /\ slot = "active" THEN RequestRetirement(TRUE)
       ELSE UNCHANGED <<slot, chan>>
    /\ UNCHANGED <<durable, phase, hand, busy, born, sweep, sup, startup, ledger>>

TakeEvent(e) ==
    /\ Idling
    /\ e \in events
    /\ events' = events \ {e}
    /\ IF e = "expired" /\ slot = "active" THEN RequestRetirement(TRUE)
       ELSE /\ slot' = IF e = "refused" /\ slot = "retiring" THEN "active" ELSE slot
            /\ UNCHANGED chan
    /\ UNCHANGED <<durable, phase, hand, busy, born, sweep, sup, startup, ledger>>

\* The runs of a sweep, with what its one read of the journal said of each.
Todo(S) == {[run |-> r, cancelling |-> (state[r] = "cancelling")] : r \in S}

\* A sweep that finds nothing to end settles nothing.
Sweep(of, S) == IF S = {} THEN NoSweep ELSE [of |-> of, todo |-> Todo(S)]

\* The task is joined, the slot released; unless it retired or kept a
\* checkpoint, its runs are terminalized (a drain refuses the lease for that).
Join ==
    /\ Idling
    /\ slot # "none"
    /\ sup.at = "exited"
    /\ slot' = "none"
    /\ sup' = NoSup
    /\ chan' = <<>>
    /\ events' = {}
    /\ sweep' = IF sup.saw = "quiescent" \/ sup.kept \/ phase \in Drains THEN NoSweep
                ELSE Sweep("exit", Nonterminal)
    /\ UNCHANGED <<durable, phase, hand, busy, born, startup, ledger>>

\* Seeded fault: the store takes any terminal state.
TerminalizedBlindly(r, end) == [state EXCEPT ![r] = IF end = "budget" THEN "errored" ELSE end]

\* The store takes a terminal state for a run that is open. A cancelling run ends
\* as Cancelled, or, when the fact is on record, with the failure of its budget.
Terminalized(r, end) ==
    IF /\ state[r] \in Open
       /\ state[r] = "cancelling" => end = "cancelled" \/ (end = "budget" /\ r \in spent)
    THEN [state EXCEPT ![r] = IF end = "budget" THEN "errored" ELSE end]
    ELSE state

\* What closes a run after a look at its journal: the budget's failure comes first.
Closing(r, end) == IF r \in spent THEN "budget" ELSE end

\* One run of a sweep, in accepted order. Cancelling is appended again, or a
\* failure is, to a run that was cancelled since it was read: the store refuses,
\* the sweep gives up.
SweepRun ==
    /\ \E t \in sweep.todo :
          /\ \A u \in sweep.todo : t.run <= u.run
          /\ IF /\ state[t.run] = "cancelling" /\ ~t.cancelling
                /\ sweep.of = "drain" \/ t.run \notin spent
             THEN /\ sweep' = [of |-> "given_up", todo |-> {}]
                  /\ lost' = TRUE
                  /\ UNCHANGED state
             ELSE /\ state' = Terminalized(t.run, Closing(t.run,
                                 IF t.cancelling \/ sweep.of = "drain" THEN "cancelled" ELSE "errored"))
                  /\ sweep' = [sweep EXCEPT !.todo = @ \ {t}]
                  /\ UNCHANGED lost
    /\ UNCHANGED <<row, session, spent, phase, hand, busy, born, slot, chan, events, sup, startup, used>>

\* settle_session_idle: one transaction with its own look at the runs.
Settled == session' = IF Quiet THEN "idle" ELSE session

SweepEnds ==
    /\ sweep.of # "none"
    /\ sweep.todo = {}
    /\ IF sweep.of = "given_up" THEN UNCHANGED session ELSE Settled
    /\ sweep' = NoSweep
    /\ phase' = IF phase = "sweeping" THEN "down" ELSE phase
    /\ UNCHANGED <<state, row, spent, hand, busy, born, slot, chan, events, sup, startup, ledger>>

----------------------------------------------------------------------------
(* The supervisor between turns.                                           *)

others == <<phase, hand, busy, born, slot, sweep, ledger>>

\* Startup stops waiting for a recovered run.
Answered(h) == IF h.run = ready THEN 0 ELSE ready

\* Quiescence is proved from the journal, never from the queue alone.
RetireCheck ==
    /\ sup.at = "top"
    /\ sup.retire
    /\ IF sup.queue = <<>> /\ sup.shells = <<>> /\ ~sup.rescan /\ Quiet
       THEN /\ sup' = [sup EXCEPT !.at = "exited", !.saw = "quiescent"]
            /\ UNCHANGED events
       ELSE /\ sup' = [sup EXCEPT !.retire = FALSE, !.idle = "no"]
            /\ events' = events \cup {"refused"}
    /\ UNCHANGED <<durable, others, chan, startup>>

Exit ==
    /\ sup.at = "top"
    /\ ~sup.retire
    /\ sup.stopping
    /\ sup' = [sup EXCEPT !.at = "exited"]
    /\ UNCHANGED <<durable, others, chan, events, startup>>

TakeDeferredShell ==
    /\ sup.at = "top"
    /\ ~sup.retire /\ ~sup.stopping
    /\ sup.shells # <<>>
    /\ sup' = [sup EXCEPT !.at = "shell", !.hint = Head(sup.shells), !.shells = Tail(@)]
    /\ UNCHANGED <<durable, others, chan, events, startup>>

\* A set of numbers in ascending order; runs are numbered as they are accepted.
InOrder(S) ==
    CHOOSE f \in [1..Cardinality(S) -> S] :
        \A i, j \in 1..Cardinality(S) : i < j => f[i] < f[j]

QueuedRuns == InOrder({r \in Runs : state[r] = "queued"})

\* When the queue has run dry after an overflow, the journal is read for more.
Refill ==
    /\ sup.at = "top"
    /\ ~sup.retire /\ ~sup.stopping
    /\ sup.shells = <<>>
    /\ IF sup.queue = <<>> /\ sup.rescan
       THEN LET fits == Min({Capacity, Len(QueuedRuns)}) IN
            sup' = [sup EXCEPT !.at = "pop",
                               !.queue = [i \in 1..fits |-> Hint(QueuedRuns[i], "queued")],
                               !.rescan = Len(QueuedRuns) > Capacity]
       ELSE sup' = [sup EXCEPT !.at = "pop"]
    /\ UNCHANGED <<durable, others, chan, events, startup>>

ShellOwns == \E r \in Runs : state[r] = "shell"

\* Seeded fault: a direct shell command does not hold the queue back.
PopBesideShell ==
    /\ sup.at = "pop"
    /\ sup.queue # <<>>
    /\ LET h == Head(sup.queue) IN
          /\ sup' = [sup EXCEPT !.queue = Tail(@), !.hint = h,
                !.at = IF h.via # "queued" \/ Held(h.run) \/ row[h.run] = "consumed"
                       THEN "starting" ELSE "pop"]
          /\ row' = IF h.via = "queued" /\ Held(h.run) THEN [row EXCEPT ![h.run] = "consumed"]
                    ELSE row
    /\ UNCHANGED <<state, session, spent, others, chan, events, startup>>

\* A queued turn starts only across its durable consumption; a hint whose row
\* was removed, or whose run was cancelled, is dropped.
Pop ==
    /\ sup.at = "pop"
    /\ ~ShellOwns
    /\ sup.queue # <<>>
    /\ LET h == Head(sup.queue) IN
          /\ sup' = [sup EXCEPT !.queue = Tail(@), !.hint = h,
                !.at = IF h.via # "queued" \/ Held(h.run) \/ row[h.run] = "consumed"
                       THEN "starting" ELSE "pop"]
          /\ row' = IF h.via = "queued" /\ Held(h.run) THEN [row EXCEPT ![h.run] = "consumed"]
                    ELSE row
    /\ UNCHANGED <<state, session, spent, others, chan, events, startup>>

\* Nothing to start: the task waits, and arms its idle deadline when the journal
\* shows no open run.
Wait ==
    /\ sup.at = "pop"
    /\ ShellOwns \/ sup.queue = <<>>
    /\ sup' = [sup EXCEPT !.at = "select",
          !.idle = IF @ = "no" /\ sup.queue = <<>> /\ ~sup.rescan /\ Quiet THEN "armed" ELSE @]
    /\ UNCHANGED <<durable, others, chan, events, startup>>

IdleFires ==
    /\ sup.at = "select"
    /\ sup.idle = "armed"
    /\ IF chan = <<>>
       THEN /\ sup' = [sup EXCEPT !.at = "top", !.idle = "expired"]
            /\ events' = events \cup {"expired"}
       ELSE /\ sup' = [sup EXCEPT !.at = "top", !.idle = "no"]
            /\ UNCHANGED events
    /\ UNCHANGED <<durable, others, chan, startup>>

\* The session is settled, and the task goes on.
Settle ==
    /\ sup.at = "settle"
    /\ Settled
    /\ sup' = [sup EXCEPT !.at = sup.next]
    /\ UNCHANGED <<state, row, spent, others, chan, events, startup>>

----------------------------------------------------------------------------
(* A turn: start, harness, outcome.                                        *)

\* The last fence before the harness is spawned.
Start ==
    /\ sup.at = "starting"
    /\ state[sup.hint.run] \notin {"cancelling", "cancelled"}
    /\ sup.hint.run \notin spent
    /\ sup' = [sup EXCEPT !.at = "live", !.active = sup.hint.run, !.out = "none", !.token = FALSE]
    /\ ready' = Answered(sup.hint)
    /\ UNCHANGED <<durable, others, chan, events, work>>

\* The budget of a headless run is used up: the fact is on record before anything
\* else is done about it.
Exhausted(r) == Disturb("budget") /\ spent' = spent \cup {r}

\* The fence, or anything else that a start needs, fails; the budget may be over.
StartFails ==
    /\ sup.at = "starting"
    /\ \E over \in BOOLEAN :
          LET r == sup.hint.run IN
          /\ over => state[r] \in Open
          /\ IF over /\ r \notin spent THEN Exhausted(r) ELSE UNCHANGED <<spent, used>>
          /\ sup' = [sup EXCEPT !.at = "failing",
                        !.saw = IF state[r] \in {"cancelling", "cancelled"} THEN "cancelled"
                                ELSE IF over THEN "budget" ELSE "errored"]
    /\ UNCHANGED <<state, row, session, phase, hand, busy, born, manager, chan, startup, lost>>

FailStart ==
    /\ sup.at = "failing"
    /\ LET plain == sup.saw = "errored" /\ sup.hint.via # "recovered" IN
          state' = Terminalized(sup.hint.run,
                                IF plain THEN "errored" ELSE Closing(sup.hint.run, sup.saw))
    /\ sup' = [sup EXCEPT !.at = "settle", !.next = "pop", !.saw = "none"]
    /\ ready' = Answered(sup.hint)
    /\ UNCHANGED <<row, session, spent, others, chan, events, work>>

Working == sup.active # 0 /\ sup.out = "none"

HarnessBegins ==
    /\ Working
    /\ state[sup.active] = "queued"
    /\ state' = [state EXCEPT ![sup.active] = "running"]
    /\ UNCHANGED <<row, session, spent, phase, hand, busy, born, manager, chan, sup, startup, ledger>>

\* The turn waits, or goes on: an answer needs a client, the network does not.
HarnessStep ==
    /\ Working
    /\ LET s == state[sup.active] IN
          \/ s = "running" /\ \E w \in Waiting : state' = [state EXCEPT ![sup.active] = w]
          \/ s = "parked" /\ Serving /\ state' = [state EXCEPT ![sup.active] = "running"]
          \/ s = "routed" /\ state' = [state EXCEPT ![sup.active] = "running"]
    /\ UNCHANGED <<row, session, spent, phase, hand, busy, born, manager, chan, sup, startup, ledger>>

\* The turn completes or fails; one that is cancelled, or was ended behind its
\* back, cannot commit that and stops, as does one whose token is cancelled,
\* after its own Cancelling.
HarnessEnds ==
    /\ Working
    /\ LET r == sup.active IN
          \/ /\ state[r] = "running"
             /\ \E s \in {"done", "errored"} : state' = [state EXCEPT ![r] = s]
             /\ sup' = [sup EXCEPT !.out = "ended"]
          \/ /\ state[r] \in {"cancelling"} \cup Ended
             /\ sup' = [sup EXCEPT !.out = "ended"]
             /\ UNCHANGED state
          \/ /\ sup.token
             /\ state[r] \in {"queued", "running"} \cup Waiting
             /\ state' = [state EXCEPT ![r] = "cancelling"]
             /\ sup' = [sup EXCEPT !.out = "stopped"]
    /\ UNCHANGED <<row, session, spent, phase, hand, busy, born, manager, chan, startup, ledger>>

HarnessPanics ==
    /\ Working
    /\ Disturb("panic")
    /\ sup' = [sup EXCEPT !.out = "panicked"]
    /\ UNCHANGED <<durable, phase, hand, busy, born, manager, chan, startup, lost>>

\* The supervisor reaps the outcome. Core leaves Cancelled, and the failure of a
\* budget that its monitor saw, to it; a turn that panicked ends as a failure, and
\* its supervisor with it. A budget's failure that comes after the end of the run
\* settles nothing, if it is not core's own.
Outcome ==
    /\ sup.at = "live"
    /\ sup.out # "none"
    /\ LET r == sup.active
           s == IF sup.out = "panicked" THEN "errored" ELSE "cancelled"
           late == r \in spent /\ state[r] \in Ended /\ sup.out # "panicked"
       IN  /\ state' = IF sup.out = "ended" /\ state[r] # "cancelling" THEN state
                       ELSE Terminalized(r, Closing(r, s))
           /\ \E at \in IF late THEN {"settle", "top"} ELSE {"settle"} :
                 sup' = [sup EXCEPT !.at = at, !.active = 0, !.out = "none", !.token = FALSE,
                                    !.next = IF sup.out = "panicked" THEN "exited" ELSE "top"]
    /\ UNCHANGED <<row, session, spent, others, chan, events, startup>>

\* The monitor of a headless turn at work: the turn is told to stop.
BudgetFires ==
    /\ sup.at = "live"
    /\ sup.active \notin spent
    /\ Exhausted(sup.active)
    /\ sup' = [sup EXCEPT !.token = TRUE]
    /\ UNCHANGED <<state, row, session, phase, hand, busy, born, manager, chan, startup, lost>>

\* The budget of a queued run is over while another turn is at work; the run may
\* be cancelled since it was found in the queue, the wake is then still to come.
QueuedBudgetFires(r) ==
    /\ sup.at = "live"
    /\ r # sup.active
    /\ state[r] = "queued" \/ (state[r] = "cancelling" /\ sup.wake)
    /\ IF r \in spent THEN UNCHANGED <<spent, used>> ELSE Exhausted(r)
    /\ sup' = [sup EXCEPT !.at = "expiring", !.hint = Hint(r, "queued")]
    /\ UNCHANGED <<state, row, session, phase, hand, busy, born, manager, chan, startup, lost>>

\* The hints of a queue but those of some runs.
Retained(q, gone) ==
    LET kept == InOrder({i \in 1..Len(q) : q[i].run \notin gone})
    IN  [i \in 1..Len(kept) |-> q[kept[i]]]

\* It leaves the queue and ends, cancelled in the meantime or not.
ExpireQueued ==
    /\ sup.at = "expiring"
    /\ LET r == sup.hint.run IN
          /\ row' = IF Held(r) THEN [row EXCEPT ![r] = "consumed"] ELSE row
          /\ state' = Terminalized(r, "budget")
          /\ sup' = [sup EXCEPT !.at = "live", !.queue = Retained(@, {r})]
    /\ UNCHANGED <<session, spent, others, chan, events, startup>>

----------------------------------------------------------------------------
(* Commands and wakes.                                                     *)

Listening == sup.at \in {"select", "live"}

\* Where the loop goes after a command.
Again == IF sup.active = 0 THEN "top" ELSE "live"

Active(t) == [t EXCEPT !.idle = "no"]

InQueue(r) == \E i \in 1..Len(sup.queue) : sup.queue[i].run = r

Known(r) == r = sup.active \/ InQueue(r)

\* Seeded fault: the overflow is not remembered.
OverflowedUnnoticed(t) == t

\* The journal is the overflow buffer.
Overflowed(t) == [t EXCEPT !.rescan = TRUE]

Checkpoint(h) == h.via = "recovered" /\ state[h.run] # "queued"

\* A hint is checked against the journal.
Admit(h) ==
    LET r == h.run
        room == Len(sup.queue) < Capacity
        went(t) == [Active(t) EXCEPT !.at = Again]
        settles(t) == [Active(t) EXCEPT !.at = "settle", !.next = Again]
        checkpoint == Checkpoint(h)
    IN  \/ /\ checkpoint \/ (state[r] = "queued" /\ ~Known(r))
           /\ room
           /\ sup' = [went(sup) EXCEPT !.queue = Append(@, h)]
           /\ ready' = IF checkpoint THEN ready ELSE Answered(h)
           /\ UNCHANGED state
        \/ /\ state[r] = "queued" /\ ~Known(r) /\ ~room
           /\ IF h.via = "recovered"
              THEN /\ state' = Terminalized(r, Closing(r, "errored"))
                   /\ sup' = settles(sup)
              ELSE /\ sup' = Overflowed(went(sup))
                   /\ UNCHANGED state
           /\ ready' = Answered(h)
        \/ /\ checkpoint /\ ~room
           /\ sup' = went(sup)
           /\ UNCHANGED <<state, ready>>
        \/ /\ state[r] = "cancelling" /\ ~checkpoint
           /\ state' = Terminalized(r, Closing(r, "cancelled"))
           /\ sup' = settles(sup)
           /\ ready' = Answered(h)
        \/ /\ ~checkpoint
           /\ state[r] \notin {"queued", "cancelling"} \/ (state[r] = "queued" /\ Known(r))
           /\ sup' = went(sup)
           /\ ready' = Answered(h)
           /\ UNCHANGED state

\* A recovered checkpoint that finds no room fails the startup.
TakeSubmit ==
    /\ Listening
    /\ chan # <<>>
    /\ Head(chan).via \in {"started", "queued", "recovered"}
    /\ Admit(Head(chan))
    /\ chan' = Tail(chan)
    /\ phase' = IF Checkpoint(Head(chan)) /\ Len(sup.queue) >= Capacity THEN "draining"
                ELSE phase
    /\ UNCHANGED <<row, session, spent, hand, busy, born, slot, sweep, ledger, events, work>>

\* A shell command runs at once, or after the turn that is being reaped.
TakeShell ==
    /\ Listening
    /\ chan # <<>>
    /\ Head(chan).via = "shell"
    /\ chan' = Tail(chan)
    /\ sup' = IF sup.active = 0 THEN [Active(sup) EXCEPT !.at = "shell", !.hint = Head(chan)]
              ELSE IF \E i \in 1..Len(sup.shells) : sup.shells[i] = Head(chan) THEN Active(sup)
              ELSE [Active(sup) EXCEPT !.shells = Append(@, Head(chan))]
    /\ UNCHANGED <<durable, others, events, startup>>

TakeRetire ==
    /\ Listening
    /\ chan # <<>>
    /\ Head(chan).via \in {"retire", "retire_idle"}
    /\ chan' = Tail(chan)
    /\ IF Head(chan).via = "retire_idle" /\ sup.idle # "expired"
       THEN /\ events' = events \cup {"refused"}
            /\ sup' = [sup EXCEPT !.at = Again]
       ELSE /\ sup' = [sup EXCEPT !.at = Again, !.retire = TRUE]
            /\ UNCHANGED events
    /\ UNCHANGED <<durable, others, startup>>

\* A waiting turn is kept as it is for the next generation, any other is
\* cancelled, and so are the queued ones.
TakeShutdown ==
    /\ Listening
    /\ chan # <<>>
    /\ Head(chan).via = "shutdown"
    /\ chan' = Tail(chan)
    /\ LET r == sup.active
           keep == r # 0 /\ state[r] \in Waiting
           queued == {q \in Runs \ {r} : state[q] = "queued"}
           t == [sup EXCEPT !.stopping = TRUE, !.queue = <<>>]
       IN  /\ state' = [q \in Runs |-> IF q \in queued THEN "cancelled" ELSE state[q]]
           /\ sup' = IF keep THEN [t EXCEPT !.at = "top", !.active = 0, !.out = "none", !.kept = TRUE]
                     ELSE IF r # 0 THEN [t EXCEPT !.token = TRUE]
                     ELSE [t EXCEPT !.at = IF queued = {} THEN "top" ELSE "settle", !.next = "top"]
    /\ UNCHANGED <<row, session, spent, others, events, startup>>

\* Seeded fault: a wake is for the running turn only.
TakeWakeOfActive ==
    /\ Listening
    /\ sup.wake
    /\ sup' = [sup EXCEPT !.wake = FALSE, !.at = Again,
                 !.token = @ \/ (sup.active # 0 /\ state[sup.active] = "cancelling")]
    /\ UNCHANGED <<durable, others, chan, events, startup>>

\* A cancellation wake: the running turn is told, the other cancelling runs end
\* here, and their hints with them.
TakeWake ==
    /\ Listening
    /\ sup.wake
    /\ LET gone == {r \in Runs \ {sup.active} : state[r] = "cancelling"}
           told == sup.active # 0 /\ state[sup.active] = "cancelling"
       IN  /\ state' = [r \in Runs |-> IF r \in gone THEN "cancelled" ELSE state[r]]
           /\ sup' = [sup EXCEPT !.wake = FALSE, !.token = @ \/ told,
                        !.queue = Retained(@, gone),
                        !.at = IF gone = {} THEN Again ELSE "settle", !.next = Again]
    /\ UNCHANGED <<row, session, spent, others, chan, events, startup>>

----------------------------------------------------------------------------
(* A direct shell command, awaited by the supervisor itself.               *)

ShellEnd(s) ==
    /\ state' = Terminalized(sup.hint.run, s)
    /\ sup' = [sup EXCEPT !.at = "settle", !.next = "top"]
    /\ UNCHANGED <<row, session, spent, others, chan, events, startup>>

\* It was over before it was taken up, or it is cancelled, drained or done.
ShellEnds ==
    /\ sup.at = "shell"
    /\ IF state[sup.hint.run] = "cancelling" \/ phase \in Drains THEN ShellEnd("cancelled")
       ELSE \E s \in {"done", "errored"} : ShellEnd(s)

\* It listens for the session's cancellations, and looks at its own run only.
ShellWake ==
    /\ sup.at = "shell"
    /\ sup.wake
    /\ sup' = [sup EXCEPT !.wake = FALSE]
    /\ UNCHANGED <<durable, others, chan, events, startup>>

----------------------------------------------------------------------------
(* Drain, crash, startup.                                                  *)

BeginDraining ==
    /\ phase = "up"
    /\ Disturb("stop")
    /\ phase' = "draining"
    /\ UNCHANGED <<durable, hand, busy, born, manager, chan, sup, startup, lost>>

\* Seeded fault: the shutdown is offered to the channel once.
ManagerShutdownOffered ==
    /\ phase = "draining"
    /\ Idling
    /\ phase' = "settling"
    /\ chan' = IF slot = "none" \/ sup.at = "exited" \/ Len(chan) >= Capacity THEN chan
               ELSE Append(chan, Shutdown)
    /\ UNCHANGED <<durable, hand, busy, born, manager, sup, startup, ledger>>

\* Shutdown waits for room in the supervisor's channel.
ManagerShutdown ==
    /\ phase = "draining"
    /\ Idling
    /\ phase' = "settling"
    /\ chan' = IF slot = "none" \/ sup.at = "exited" THEN chan ELSE Append(chan, Shutdown)
    /\ UNCHANGED <<durable, hand, busy, born, manager, sup, startup, ledger>>

\* Seeded fault: the sweep does not wait for the supervisor.
DrainSweepUnjoined ==
    /\ phase = "settling"
    /\ Idling
    /\ sweep' = Sweep("drain", {r \in Nonterminal : state[r] # "parked"})
    /\ phase' = IF sweep' = NoSweep THEN "down" ELSE "sweeping"
    /\ UNCHANGED <<durable, hand, busy, born, slot, chan, events, sup, startup, ledger>>

\* Every supervisor is joined: what was accepted without a hand-off is swept.
DrainSweep ==
    /\ phase = "settling"
    /\ slot = "none" /\ Idling
    /\ sweep' = Sweep("drain", {r \in Nonterminal : state[r] # "parked"})
    /\ phase' = IF sweep' = NoSweep THEN "down" ELSE "sweeping"
    /\ UNCHANGED <<durable, hand, busy, born, slot, chan, events, sup, startup, ledger>>

NewProcess ==
    /\ phase' = "recovering"
    /\ hand' = {} /\ busy' = {} /\ born' = {}
    /\ slot' = "none" /\ chan' = <<>> /\ events' = {}
    /\ sweep' = NoSweep
    /\ sup' = NoSup
    /\ work' = <<>>
    /\ ready' = 0
    /\ lost' = FALSE
    /\ UNCHANGED durable

Crash ==
    /\ phase \notin {"down", "recovering"}
    /\ Disturb("stop")
    /\ NewProcess

Restart == phase = "down" /\ NewProcess /\ UNCHANGED used

\* ready counts the runs looked at while recovery reads the session.
At == ready + 1

Resumable == {"queued", "running"} \cup Waiting
Interrupted == {"running", "shell", "cancelling"} \cup Waiting

\* Recovery of one run, in accepted order. What is queued is handed over again, and
\* so is a turn that waits or was at work when it left a checkpoint that can be put
\* together again; anything else ends, and the session is idle.
RecoverRun ==
    /\ phase = "recovering"
    /\ At \in Accepted
    /\ ready' = At
    /\ LET s == state[At] IN
          \/ /\ s \in Resumable
             /\ work' = Append(work, At)
             /\ session' = IF s = "queued" /\ \A i \in 1..Len(work) : state[work[i]] # "queued"
                           THEN "active" ELSE session
             /\ UNCHANGED state
          \/ /\ s \in Interrupted
             /\ state' = [state EXCEPT ![At] = IF s = "cancelling" /\ At \notin spent
                                                THEN "cancelled" ELSE "errored"]
             /\ session' = "idle"
             /\ UNCHANGED work
          \/ s \in Ended /\ UNCHANGED <<state, session, work>>
    /\ UNCHANGED <<row, spent, phase, hand, busy, born, manager, chan, sup, ledger>>

RecoveryRead ==
    /\ phase = "recovering"
    /\ At \notin Accepted
    /\ phase' = "handing"
    /\ ready' = 0
    /\ UNCHANGED <<durable, hand, busy, born, manager, chan, sup, work, ledger>>

\* Startup hands over one piece of work and waits for it: a queued run until it
\* is admitted, a checkpoint until it is started.
HandOver ==
    /\ phase = "handing"
    /\ ready = 0
    /\ work # <<>>
    /\ Send(Hint(Head(work), "recovered"))
    /\ ready' = Head(work)
    /\ work' = Tail(work)
    /\ UNCHANGED <<durable, phase, hand, busy, born, ledger>>

Listen ==
    /\ phase = "handing"
    /\ ready = 0
    /\ work = <<>>
    /\ phase' = "up"
    /\ UNCHANGED <<durable, hand, busy, born, manager, chan, sup, startup, ledger>>

----------------------------------------------------------------------------
Clients ==
    \/ Accept \/ AcceptShell
    \/ \E r \in Runs : Cancel(r) \/ Unqueue(r) \/ Repeat(r)

Manager ==
    \/ \E r \in Runs : HandOff(r) \/ HandOffFails(r)
    \/ \E e \in {"expired", "refused"} : TakeEvent(e)
    \/ Join \/ SweepRun \/ SweepEnds

TakeCommand == TakeSubmit \/ TakeShell \/ TakeRetire \/ TakeShutdown

Supervisor ==
    \/ RetireCheck \/ Exit \/ TakeDeferredShell \/ Refill \/ Pop \/ Wait \/ IdleFires
    \/ Settle \/ Start \/ StartFails \/ FailStart \/ Outcome \/ ExpireQueued
    \/ TakeCommand \/ TakeWake \/ ShellEnds \/ ShellWake

Startup == RecoverRun \/ RecoveryRead \/ HandOver \/ Listen \/ Restart

Drain == ManagerShutdown \/ DrainSweep

Budget == BudgetFires \/ \E r \in Runs : QueuedBudgetFires(r)

Next ==
    \/ Clients \/ RetireSession \/ Manager \/ Supervisor
    \/ HarnessBegins \/ HarnessStep \/ HarnessEnds \/ HarnessPanics \/ Budget
    \/ BeginDraining \/ Drain \/ Crash \/ Startup

Spec == Init /\ [][Next]_vars

\* The runtime polls every task that can run and a harness that is told to stop
\* does so, or is stopped by its timeouts. Clients, deletions, panics, budgets
\* and crashes are never assumed.
Fairness ==
    /\ WF_vars(Manager) /\ WF_vars(Supervisor) /\ WF_vars(Startup) /\ WF_vars(Drain)
    /\ SF_vars(TakeCommand) /\ WF_vars(HarnessBegins) /\ WF_vars(HarnessEnds)

FairSpec == Spec /\ Fairness

----------------------------------------------------------------------------
(* Properties.                                                             *)

States == {"none"} \cup Open \cup Ended

\* The types. The queue keeps to SUPERVISOR_CAPACITY; the channel may be followed
\* by a Retire and a Shutdown whose senders wait for room (worker.rs:183).
TypeOK ==
    /\ state \in [Runs -> States]
    /\ row \in [Runs -> {"none", "held", "removed", "consumed", "shell"}]
    /\ session \in {"idle", "active"}
    /\ spent \subseteq Runs
    /\ phase \in {"up", "down", "recovering", "handing"} \cup Drains
    /\ hand \subseteq Runs /\ busy \subseteq Runs /\ born \subseteq Runs
    /\ slot \in {"none", "active", "retiring"}
    /\ chan \in Seq(Hints \cup {Retire(TRUE), Retire(FALSE), Shutdown})
    /\ Len(chan) <= Capacity + 2
    /\ Len(sup.queue) <= Capacity
    /\ events \subseteq {"expired", "refused"}
    /\ ready \in 0..MaxRuns

InChannel(r) == \E i \in 1..Len(chan) : chan[i].run = r

(* One thing at a time (worker.rs:4829, "direct_shell_owns_session", and   *)
(* the slot that outlives its task until it is joined): while a turn is at *)
(* work no direct shell command of the session is, and any other run the   *)
(* journal calls running is a recovered one whose turn has not come.       *)
OneAtWork ==
    Working /\ state[sup.active] \in Open =>
        \A r \in Runs \ {sup.active} :
           /\ state[r] # "shell"
           /\ state[r] = "running" => r = ready \/ Contains(work, r)

\* Somebody will look at the run: it is on its way, held, or about to be swept.
Pending(r) ==
    \/ r \in hand \/ r \in busy
    \/ InChannel(r)
    \/ Known(r)
    \/ \E i \in 1..Len(sup.shells) : sup.shells[i].run = r
    \/ sup.at \in {"starting", "failing", "shell"} /\ sup.hint.run = r
    \/ sup.rescan
    \/ sup.at = "exited" \/ sup.next = "exited"
    \/ \E t \in sweep.todo : t.run = r

(* Hints are only hints, the journal is the truth: while the daemon is up, *)
(* a queued turn with a row in the queue, a turn at work and a shell       *)
(* command are never without someone who will come back to them: a hand-   *)
(* off, the supervisor, a rescan it owes, the manager's sweep, or a client *)
(* that was told to try again.  Two losses are left out: a sweep that gave *)
(* up, and a turn that was started without a row (see the README).         *)
NoTurnForgotten ==
    phase = "up" /\ ~lost =>
        \A r \in Runs :
           \/ state[r] = "queued" /\ row[r] # "none"
           \/ state[r] \in {"running", "shell"}
           => Pending(r)

(* A drain that ends has ended everything that was handed off: what is     *)
(* still open waits for an answer or for the network, is being cancelled,  *)
(* or was accepted behind the sweep and its client knows of no success.    *)
DrainIsComplete ==
    phase = "down" /\ ~lost =>
        \A r \in Runs \ (hand \cup busy) : state[r] \notin {"queued", "running", "shell"}

(* The store's transition gate (validate_worker_run_transitions) holds     *)
(* against every writer: a run that is over stays as it ended, and a       *)
(* cancelled one ends as Cancelled, whoever else was about to complete it, *)
(* fail it, sweep it or recover it, unless the exhaustion of its budget    *)
(* was on record before, which may then end it as Errored                  *)
(* (budget_terminal_wins, run_budget_tests.rs:524).                        *)
TerminalIsFinal ==
    [][\A r \in Runs :
         /\ state[r] \in Ended => state'[r] = state[r]
         /\ state[r] = "cancelling" => \/ state'[r] \in {"cancelling", "cancelled"}
                                       \/ (state'[r] = "errored" /\ r \in spent)]_vars

(* A cancelled run ends, whoever holds it: the harness, the supervisor's   *)
(* queue, a hint on its way, the drain or the next generation; as Errored  *)
(* only when its budget is used up.  A client that was told to try again   *)
(* has to, and a sweep may have given up.                                  *)
CancelSettles ==
    \A r \in Runs :
        state[r] = "cancelling" ~>
            \/ state[r] = "cancelled"
            \/ (state[r] = "errored" /\ r \in spent)
            \/ r \in busy
            \/ lost

(* When no turn waits for ever, a queued turn is started or ends, through  *)
(* idle retirements, panics of the turn before it, drains and crashes.     *)
QueuedIsServed ==
    <>[](\A q \in Runs : state[q] \notin Waiting) =>
        \A r \in Runs : state[r] = "queued" ~> state[r] # "queued" \/ r \in busy \/ lost

(* A drain ends: the supervisor stops, whatever its turn was doing, and    *)
(* the manager's sweep of the journal comes to an end.                     *)
DrainEnds == phase \in Drains ~> phase \notin Drains

----------------------------------------------------------------------------
(* What the repository says of the program, and the program does not do.   *)

(* session_hub_private_tests.rs:7068, "a per-run terminalization must      *)
(* never commit `SessionState::Idle` while any other durable run in the    *)
(* session is nonterminal".  Startup recovery does.                        *)
IdleMeansQuiet == session = "idle" => Quiet

(* worker.rs:5236, "park, don't cancel: request-input, route, and local-   *)
(* child waits are durable checkpoints".  The supervisor keeps a turn that *)
(* waits for the network, the manager's sweep cancels it.                  *)
WaitsSurviveDrain ==
    [][sweep.of = "drain" =>
         \A r \in Runs : state[r] \in Waiting => state'[r] \notin Ended]_vars

(* worker.rs:5921, "Receipt replays for active or terminal runs are        *)
(* response-only."  A repeated command for an active run that is being     *)
(* cancelled ends it under its harness, which nothing stops any more.      *)
LiveTurnIsOpen == Working => state[sup.active] \notin Ended
=============================================================================
