---------------------------- MODULE HookDispatch ----------------------------
(***************************************************************************)
(* The hook engine of the daemon (hooks.rs): a durable outbox row is       *)
(* written with every committed event, and one engine task dispatches the  *)
(* rows to the configured hooks, page by page, from a wake-up that carries *)
(* no data.                                                                *)
(*                                                                         *)
(* A page races with the commits of the sessions, with the server jobs it  *)
(* started earlier, which acknowledge their rows themselves, with hook     *)
(* files that appear, with workspaces that vanish or are selected anew,    *)
(* and with the deletion of a session, which must not erase a row that     *)
(* nobody handled. Rows of a workspace without hooks are retained behind a *)
(* cursor until hooks are discovered.                                      *)
(***************************************************************************)
EXTENDS Naturals, Sequences, FiniteSets

CONSTANTS NumSessions,   \* sessions, in the order of their identifiers
          MaxRows,       \* events committed, over all sessions
          PageMax,       \* HOOK_DRAIN_PAGE_MAX_REQUESTS
          MaxRequests,   \* requests of clients, changes of workspaces and hooks
          MaxFaults,     \* failed reads, discoveries, handlers, jobs, flushes; crashes
          OfTurn         \* whether inputs are of the turn that may lose its workspace

ASSUME HookAssumption ==
    /\ NumSessions \in Nat \ {0}
    /\ MaxRows \in Nat
    /\ PageMax \in Nat \ {0}
    /\ MaxRequests \in Nat
    /\ MaxFaults \in Nat
    /\ OfTurn \subseteq BOOLEAN

VARIABLES
    rows,      \* durable: hook_dispatch_outbox, coordinates <<session, seq>>
    input,     \* durable: coordinates whose payload may be a hook's input
    turn,      \* durable: events of the session's turn that may lose its workspace
    facts,     \* durable: workspace_unavailable events of these turns
    picks,     \* durable: workspace_selected events
    last,      \* durable: session -> its last sequence number
    done,      \* coordinates that were handled to the end by the hooks
    waived,    \* inputs whose row goes although no hook has run for them
    away,      \* sessions whose workspace cannot be opened
    pinned,    \* sessions whose turn is in HookService's workspace_unavailable_runs
    hooked,    \* sessions whose workspace has a hook file
    cache,     \* session -> what discovery last saw: "unknown", "none", "hooks"
    rescan,    \* dispatch_rescan_required
    wake,      \* the committed_wake channel holds an unseen change
    head,      \* the committed_wake channel holds Some(head)
    cursor,    \* session -> dispatch_scan_after_seq
    flights,   \* the active, completed and blocked coordinates
    acked,     \* active jobs whose acknowledgement is committed
    progress,  \* the permit stored in dispatch_progress
    controls,  \* the control channel
    eng,       \* the engine task
    page,      \* the page in hand
    del,       \* session -> where its deletion stands
    trouble,   \* something failed since the process started
    used       \* <<requests, faults>> so far

kinds == <<input, turn, facts, picks>>
durable == <<rows, input, turn, facts, picks, last>>
history == <<done, waived>>
files == <<away, hooked, cache, rescan>>
config == <<pinned, files>>
signals == <<wake, head, progress>>
vars == <<rows, input, turn, facts, picks, last, done, waived, away, pinned, hooked, cache,
          rescan, wake, head, cursor, flights, acked, progress, controls, eng, page, del, trouble,
          used>>

Sessions == 1..NumSessions

Coordinates == Sessions \X (1..MaxRows)

RowsOf(s) == {c \in rows : c[1] = s}

NoFlights == [active |-> {}, completed |-> {}, blocked |-> {}]

\* fenced: the rows that were read with the mark of an unavailable workspace. ctx:
\* the discovery cached for the page, "?", "none" or "hooks", "changed" or "removed"
\* when that differs from what was seen before, "away" without a workspace, or
\* "failed".
NoPage == [todo |-> {}, tails |-> {}, fenced |-> {}, acks |-> {},
           ctx |-> [s \in Sessions |-> "?"], started |-> FALSE, waiting |-> FALSE,
           blocked |-> FALSE, aborted |-> FALSE]

\* The engine starts with the replay of what is pending.
Replaying == [pc |-> "begin", mode |-> "replay", of |-> 0]
Resting   == [pc |-> "idle", mode |-> "run", of |-> 0]
Stopped   == [pc |-> "stopped", mode |-> "run", of |-> 0]

Alive == eng.pc # "stopped"

Init ==
    /\ rows = {} /\ last = [s \in Sessions |-> 0]
    /\ input = {} /\ turn = {} /\ facts = {} /\ picks = {}
    /\ done = {} /\ waived = {}
    /\ away = {} /\ pinned = {}
    /\ hooked \in SUBSET Sessions /\ cache = [s \in Sessions |-> "unknown"] /\ rescan = FALSE
    /\ wake = FALSE /\ head = FALSE /\ progress = FALSE
    /\ cursor = [s \in Sessions |-> 0]
    /\ flights = NoFlights /\ acked = {}
    /\ controls = <<>>
    /\ eng = Replaying /\ page = NoPage
    /\ del = [s \in Sessions |-> "no"]
    /\ trouble = FALSE /\ used = <<0, 0>>

----------------------------------------------------------------------------
(* The rest of the daemon: commits, hook files, control messages.          *)

Total == Cardinality({c \in Coordinates : c[2] <= last[c[1]]})

\* The coordinate of the next event.
Coming(s) == <<s, last[s] + 1>>

\* The row is inserted in the event's transaction; publication then replaces the
\* wake value. A session under deletion takes events until its actor stopped.
Commits(s, kept) ==
    /\ del[s] \notin {"stopped", "gone"}
    /\ Total < MaxRows
    /\ last' = [last EXCEPT ![s] = @ + 1]
    /\ rows' = kept \cup {Coming(s)}
    /\ wake' = TRUE
    /\ head' = TRUE
    /\ UNCHANGED <<done, rescan, cursor, flights, acked, progress, controls, eng, page, del, trouble>>

\* A selection needs a session whose turns are over.
Selected(s) == \E c \in picks : c[1] = s

Commit(s) ==
    /\ Commits(s, rows)
    /\ \/ UNCHANGED <<input, turn>>
       \/ /\ input' = input \cup {Coming(s)}
          /\ \E t \in OfTurn : turn' = IF t /\ ~Selected(s) THEN turn \cup {Coming(s)} ELSE turn
    /\ UNCHANGED <<facts, picks, waived, away, pinned, hooked, cache, used>>

Budget == used[1] < MaxRequests /\ used' = [used EXCEPT ![1] = @ + 1]

Fault == used[2] < MaxFaults /\ used' = [used EXCEPT ![2] = @ + 1]

\* A hook file appears in, or leaves, the workspace of a session.
EditHooks(s) ==
    /\ Budget
    /\ hooked' = IF s \in hooked THEN hooked \ {s} ELSE hooked \cup {s}
    /\ UNCHANGED <<durable, history, away, pinned, cache, rescan, signals, cursor, flights, acked,
                   controls, eng, page, del, trouble>>

\* The workspace of a session vanishes, or is there again.
MoveWorkspace(s) ==
    /\ Budget
    /\ away' = IF s \in away THEN away \ {s} ELSE away \cup {s}
    /\ UNCHANGED <<durable, history, pinned, hooked, cache, rescan, signals, cursor, flights, acked,
                   controls, eng, page, del, trouble>>

\* A turn that finds its workspace gone is pinned at once, in memory ...
PinTurn(s) ==
    /\ s \in away /\ s \notin pinned /\ ~Selected(s)
    /\ pinned' = pinned \cup {s}
    /\ UNCHANGED <<durable, history, away, hooked, cache, rescan, signals, cursor, flights, acked,
                   controls, eng, page, del, trouble, used>>

Unavailable(s) == \E c \in facts : c[1] = s

\* Seeded fault: the pin goes with the commit of the fact.
JournalUnavailableUnpinning(s) ==
    /\ s \in pinned /\ ~Unavailable(s) /\ ~Selected(s)
    /\ Commits(s, rows)
    /\ turn' = turn \cup {Coming(s)}
    /\ facts' = facts \cup {Coming(s)}
    /\ pinned' = pinned \ {s}
    /\ UNCHANGED <<input, picks, waived, away, hooked, cache, used>>

\* ... and then journals the fact, once; it marks every row of the turn, those
\* to come and those that are there.
JournalUnavailable(s) ==
    /\ s \in pinned /\ ~Unavailable(s) /\ ~Selected(s)
    /\ Commits(s, rows)
    /\ turn' = turn \cup {Coming(s)}
    /\ facts' = facts \cup {Coming(s)}
    /\ UNCHANGED <<input, picks, waived, away, pinned, hooked, cache, used>>

\* The mark of a row, durable with the fact.
Marked(c) == c \in turn /\ Unavailable(c[1])

\* session.workspace.set: the rows before the selection go with its commit. The
\* new workspace is there, with or without hooks, and is new to the process.
SelectWorkspace(s) ==
    /\ Budget
    /\ Commits(s, rows \ RowsOf(s))
    /\ picks' = picks \cup {Coming(s)}
    /\ waived' = waived \cup (RowsOf(s) \cap input)
    /\ away' = away \ {s}
    /\ hooked' \in {hooked \cup {s}, hooked \ {s}}
    /\ cache' = [cache EXCEPT ![s] = "unknown"]
    /\ UNCHANGED <<input, turn, facts, pinned>>

Seen(s) == IF s \in hooked THEN "hooks" ELSE "none"

\* discover_cached_async: the cache is keyed by the stamp of the hook files, and is
\* not looked at without a workspace.
Discovered(s) ==
    IF s \in away THEN "away"
    ELSE IF cache[s] \in {"unknown", Seen(s)} THEN Seen(s)
    ELSE IF s \in hooked THEN "changed" ELSE "removed"

Discover(s) ==
    /\ rescan' = (rescan \/ (cache[s] # Seen(s) /\ Discovered(s) \in {"hooks", "changed", "removed"}))
    /\ cache' = IF s \in away THEN cache ELSE [cache EXCEPT ![s] = Seen(s)]
    /\ UNCHANGED <<away, hooked>>

\* hooks.list: discovery, and a wake-up when a trusted hook is there.
List(s) ==
    /\ Budget
    /\ Discover(s)
    /\ wake' = (wake \/ s \in hooked \ away)
    /\ UNCHANGED <<durable, history, pinned, head, progress, cursor, flights, acked, controls, eng,
                   page, del, trouble>>

SendControl(message) ==
    /\ Alive
    /\ Budget
    /\ controls' = Append(controls, message)
    /\ UNCHANGED <<durable, history, config, signals, cursor, flights, acked, eng, page, trouble>>

ChangeTrust == SendControl([kind |-> "trust", of |-> 0]) /\ UNCHANGED del

Shutdown ==
    /\ \A i \in 1..Len(controls) : controls[i].kind # "shutdown"
    /\ SendControl([kind |-> "shutdown", of |-> 0]) /\ UNCHANGED del

\* delete_session: the outbox is drained before the session is fenced ...
AskDelete(s) ==
    /\ del[s] = "no"
    /\ SendControl([kind |-> "drain", of |-> s])
    /\ del' = [del EXCEPT ![s] = "asked"]

\* ... then the actor is stopped behind everything it had accepted, unless it has
\* become busy ...
StopActor(s) ==
    /\ del[s] = "drained"
    /\ \E next \in {"stopped", "no"} : del' = [del EXCEPT ![s] = next]
    /\ UNCHANGED <<durable, history, config, signals, cursor, flights, acked, controls, eng,
                   page, trouble, used>>

\* Seeded fault: the drain before the fence is taken for enough.
EraseUnchecked(s) ==
    /\ del[s] = "stopped"
    /\ rows' = rows \ RowsOf(s)
    /\ del' = [del EXCEPT ![s] = "gone"]
    /\ controls' = IF Alive THEN Append(controls, [kind |-> "deleted", of |-> s]) ELSE controls
    /\ UNCHANGED <<kinds, last, history, config, signals, cursor, flights, acked, eng, page,
                   trouble, used>>

\* ... and a row that came in between refuses the deletion.
Erase(s) ==
    /\ del[s] = "stopped"
    /\ IF RowsOf(s) = {}
       THEN /\ del' = [del EXCEPT ![s] = "gone"]
            /\ controls' = IF Alive THEN Append(controls, [kind |-> "deleted", of |-> s])
                                    ELSE controls
       ELSE /\ del' = [del EXCEPT ![s] = "no"]
            /\ UNCHANGED controls
    /\ UNCHANGED <<durable, history, config, signals, cursor, flights, acked, eng, page,
                   trouble, used>>

----------------------------------------------------------------------------
(* The engine's select: the wake-up first, then a control message.         *)

\* A wake-up whose value is still None is passed over.
TakeWake ==
    /\ eng.pc = "idle"
    /\ wake
    /\ wake' = FALSE
    /\ eng' = IF head THEN [eng EXCEPT !.pc = "begin"] ELSE eng
    /\ UNCHANGED <<durable, history, config, head, progress, cursor, flights, acked, controls,
                   page, del, trouble, used>>

TakeControl ==
    /\ eng.pc = "idle"
    /\ ~wake
    /\ controls # <<>>
    /\ controls' = Tail(controls)
    /\ LET m == Head(controls) IN
          \/ /\ m.kind = "trust"
             /\ cursor' = [s \in Sessions |-> 0]
             /\ wake' = TRUE
             /\ UNCHANGED <<eng, pinned>>
          \/ /\ m.kind = "deleted"
             /\ cursor' = [cursor EXCEPT ![m.of] = 0]
             /\ pinned' = pinned \ {m.of}
             /\ wake' = TRUE
             /\ UNCHANGED eng
          \/ /\ m.kind = "drain"
             /\ cursor' = [cursor EXCEPT ![m.of] = 0]
             /\ eng' = [pc |-> "check", mode |-> "drain", of |-> m.of]
             /\ UNCHANGED <<wake, pinned>>
          \/ /\ m.kind = "shutdown"
             /\ eng' = [pc |-> "begin", mode |-> "shutdown", of |-> 0]
             /\ UNCHANGED <<cursor, wake, pinned>>
    /\ UNCHANGED <<durable, history, away, hooked, cache, rescan, head, progress, flights, acked,
                   page, del, trouble, used>>

\* The loop ends: jobs are aborted, what waits on the channel is answered with
\* an error, what the process holds of the dispatch state is gone.
Ends ==
    /\ eng' = Stopped
    /\ flights' = NoFlights
    /\ acked' = {}
    /\ controls' = <<>>
    /\ del' = [s \in Sessions |-> IF del[s] = "asked" THEN "no" ELSE del[s]]

\* The drain of one session answers and re-arms the wake-up.
Answers(answer) ==
    /\ del' = [del EXCEPT ![eng.of] = answer]
    /\ eng' = Resting
    /\ wake' = TRUE

\* drain_hook_dispatches_through_session looks at the store, then at a page.
DrainCheck ==
    /\ eng.pc = "check"
    /\ IF RowsOf(eng.of) = {}
       THEN /\ Answers("drained")
            /\ cursor' = [cursor EXCEPT ![eng.of] = 0]
       ELSE /\ eng' = [eng EXCEPT !.pc = "begin"]
            /\ UNCHANGED <<del, wake, cursor>>
    /\ UNCHANGED <<durable, history, config, head, progress, flights, acked, controls, page,
                   trouble, used>>

DrainCheckFails ==
    /\ eng.pc = "check"
    /\ Fault
    /\ trouble' = TRUE
    /\ Answers("no")
    /\ UNCHANGED <<durable, history, config, head, progress, cursor, flights, acked, controls,
                   page>>

DrainAwait ==
    /\ eng.pc = "await"
    /\ progress
    /\ progress' = FALSE
    /\ eng' = [eng EXCEPT !.pc = "check"]
    /\ UNCHANGED <<durable, history, config, wake, head, cursor, flights, acked, controls, page,
                   del, trouble, used>>

----------------------------------------------------------------------------
(* drain_hook_dispatch_page.                                               *)

\* Seeded fault: the rescan flag is consumed and the cursors stay.
PageBeginKeepingCursors ==
    /\ eng.pc = "begin"
    /\ eng' = [eng EXCEPT !.pc = "read"]
    /\ rescan' = FALSE
    /\ flights' = [flights EXCEPT !.completed = {}]
    /\ UNCHANGED <<durable, history, away, pinned, hooked, cache, signals, cursor, acked, controls,
                   page, del, trouble, used>>

\* The rescan flag is consumed and the completed jobs are forgotten before
\* anything is read.
PageBegin ==
    /\ eng.pc = "begin"
    /\ eng' = [eng EXCEPT !.pc = "read"]
    /\ rescan' = FALSE
    /\ cursor' = IF rescan THEN [s \in Sessions |-> 0] ELSE cursor
    /\ flights' = [flights EXCEPT !.completed = {}]
    /\ UNCHANGED <<durable, history, away, pinned, hooked, cache, signals, acked, controls, page, del,
                   trouble, used>>

\* What follows a page, by who asked for it. The new set of rows is in place.
Continue(result, armed) ==
    \/ /\ eng.mode = "run"
       /\ eng' = Resting
       /\ wake' = (armed \/ (result = "progress" /\ controls = <<>>))
       /\ UNCHANGED <<flights, acked, controls, del>>
    \/ /\ eng.mode = "replay"
       /\ result \in {"empty", "progress"}
       /\ eng' = IF result = "empty" THEN Resting ELSE [eng EXCEPT !.pc = "begin"]
       /\ wake' = armed
       /\ UNCHANGED <<flights, acked, controls, del>>
    \/ /\ eng.mode = "replay" /\ result \in {"waiting", "blocked"}
       /\ Ends /\ wake' = armed
    \/ /\ eng.mode = "shutdown"
       /\ result = "progress"
       /\ eng' = [eng EXCEPT !.pc = "begin"]
       /\ wake' = armed
       /\ UNCHANGED <<flights, acked, controls, del>>
    \/ /\ eng.mode = "shutdown" /\ result # "progress"
       /\ Ends /\ wake' = armed
    \/ /\ eng.mode = "drain"
       /\ result \in {"progress", "waiting"}
       /\ eng' = [eng EXCEPT !.pc = IF result = "progress" THEN "check" ELSE "await"]
       /\ wake' = armed
       /\ UNCHANGED <<flights, acked, controls, del>>
    \/ /\ eng.mode = "drain"
       /\ result \in {"empty", "blocked"}
       /\ Answers(IF {c \in rows' : c[1] = eng.of} = {} THEN "drained" ELSE "no")
       /\ UNCHANGED <<flights, acked, controls>>

\* Rows are read session by session, each session's in their order.
Before(c, d) == c[1] < d[1] \/ (c[1] = d[1] /\ c[2] < d[2])

\* The rows past the cursors of their sessions.
Pending == {c \in rows : c[2] > cursor[c[1]]}

\* The first of them, up to the page limit.
PageRows == {c \in Pending : Cardinality({d \in Pending : Before(d, c)}) < PageMax}

\* Cursors of sessions without rows are forgotten.
PageRead ==
    /\ eng.pc = "read"
    /\ cursor' = [s \in Sessions |-> IF RowsOf(s) = {} THEN 0 ELSE cursor[s]]
    /\ IF PageRows = {}
       THEN UNCHANGED <<durable, page>> /\ Continue("empty", wake)
       ELSE /\ page' = [NoPage EXCEPT !.todo = PageRows, !.tails = PageRows,
                                     !.fenced = {c \in PageRows : Marked(c)}]
            /\ eng' = [eng EXCEPT !.pc = "rows"]
            /\ UNCHANGED <<durable, wake, flights, acked, controls, del>>
    /\ UNCHANGED <<history, config, head, progress, trouble, used>>

PageReadFails ==
    /\ eng.pc = "read"
    /\ Fault
    /\ trouble' = TRUE
    /\ UNCHANGED <<durable, history, config, head, progress, cursor, page>>
    /\ Continue("blocked", wake)

Current == CHOOSE c \in page.todo : \A d \in page.todo \ {c} : Before(c, d)

\* Seeded fault: only what has ended is looked up.
FlyingEnded(c) == c \in flights.blocked \cup flights.completed

Flying(c) == c \in flights.blocked \cup flights.completed \cup flights.active

\* A row whose job is running, ended or failed is not started again.
PassOver ==
    /\ eng.pc = "rows" /\ page.todo # {} /\ ~page.aborted
    /\ Flying(Current)
    /\ page' = [page EXCEPT !.todo = @ \ {Current},
                            !.blocked = @ \/ Current \in flights.blocked,
                            !.waiting = @ \/ Current \in flights.active \ flights.blocked]
    /\ UNCHANGED <<durable, history, config, signals, cursor, flights, acked, controls, eng,
                   del, trouble, used>>

\* The mark was read with the page, the pin is looked up now.
Fenced(c) == c \in page.fenced \/ (c \in turn /\ c[1] \in pinned)

\* What the page can learn of the workspace of a row: what discovery says, once per
\* session and page, unless it fails; nothing for the fact that there is none.
\* Metadata that cannot be read are asked for again by the handler: "unread" when
\* that fails too, "late" when it does not.
Contexts(c) ==
    IF Fenced(c) THEN {"skipped"}
    ELSE IF page.ctx[c[1]] # "?" THEN {page.ctx[c[1]]}
    ELSE {Discovered(c[1]), "late", "failed", "unread"}

Found(s, x) == page.ctx[s] = "?" /\ x \in {Discovered(s), "late"}

Cached(s, x) ==
    IF x \in {"unread", "skipped"} THEN page.ctx[s] ELSE IF x = "late" THEN Discovered(s) ELSE x

\* A read that fails counts when it is made.
Charged(s, x) ==
    IF x \in {"failed", "unread", "late"} /\ page.ctx[s] = "?" THEN Fault ELSE UNCHANGED used

Forced(s) == eng.mode = "drain" /\ eng.of = s

\* metadata_dispatch_disposition. An input is a payload that the hooks of its
\* workspace, once there are any, match.
Disposition(c, x) ==
    IF x \in {"failed", "unread", "late", "skipped"} \/ c \in picks THEN "decode"
    ELSE IF x = "away" THEN "acknowledge"
    ELSE IF x \in {"changed", "removed"} THEN "decode"
    ELSE IF c \notin input THEN "acknowledge"
    ELSE IF x = "hooks" THEN "decode"
    ELSE IF Forced(c[1]) THEN "acknowledge" ELSE "retain"

\* There is a next row, and nobody has it.
AtRow == eng.pc = "rows" /\ page.todo # {} /\ ~page.aborted /\ ~Flying(Current)

\* The row leaves the page, as p.
Turn(p) ==
    /\ page' = [p EXCEPT !.todo = page.todo \ {Current}]
    /\ UNCHANGED <<durable, signals, cursor, acked, controls, eng, del>>

\* It is decided on in context x.
Consider(disposition, x, p) ==
    /\ Disposition(Current, x) = disposition
    /\ Turn([p EXCEPT !.ctx[Current[1]] = Cached(Current[1], x)])
    /\ IF Found(Current[1], x) THEN Discover(Current[1]) ELSE UNCHANGED files

Acks == [page EXCEPT !.acks = @ \cup {Current}, !.started = TRUE]

Waive == waived' = waived \cup ({Current} \cap input) /\ UNCHANGED done

\* A row of a turn without a workspace is acknowledged before any discovery.
FenceOff ==
    /\ AtRow /\ Fenced(Current) /\ Current \notin facts
    /\ Turn(Acks)
    /\ Waive
    /\ UNCHANGED <<config, flights, trouble, used>>

Decides == AtRow /\ (Fenced(Current) => Current \in facts)

Retain ==
    /\ Decides
    /\ \E x \in Contexts(Current) : Consider("retain", x, page)
    /\ UNCHANGED <<history, pinned, flights, trouble, used>>

\* Nothing a hook could match; or there is no workspace; or its session is about
\* to be deleted and has no hooks.
Acknowledge ==
    /\ Decides
    /\ \E x \in Contexts(Current) : Consider("acknowledge", x, Acks)
    /\ Waive
    /\ UNCHANGED <<pinned, flights, trouble, used>>

\* The envelope is read through the outbox, where it may be gone.
Vanished ==
    /\ Decides /\ Current \notin rows
    /\ \E x \in Contexts(Current) : Consider("decode", x, page) /\ Charged(Current[1], x)
    /\ UNCHANGED <<history, pinned, flights, trouble>>

Fires(c, x) == c \in input /\ Cached(c[1], x) \in {"hooks", "changed"}

\* handle_and_complete without a server hook to wait for: when it returns the
\* hooks have run, if there are any, and the row is acknowledged with its page.
\* The fact of an unavailable workspace lifts the pin, as its mark is durable, and
\* a selection does.
HandleInline ==
    /\ Decides /\ Current \in rows
    /\ \E x \in Contexts(Current) :
          /\ Consider("decode", x, Acks)
          /\ Charged(Current[1], x)
          /\ IF Fires(Current, x) THEN done' = done \cup {Current} /\ UNCHANGED waived
             ELSE Waive
    /\ pinned' = IF Current \in facts \cup picks THEN pinned \ {Current[1]} ELSE pinned
    /\ UNCHANGED <<flights, trouble>>

\* A server hook answers in its own time: a job waits for it. Not in the replay.
Defer ==
    /\ eng.mode # "replay"
    /\ Decides /\ Current \in rows
    /\ \E x \in Contexts(Current) :
          /\ Fires(Current, x)
          /\ Consider("decode", x, [page EXCEPT !.started = TRUE])
          /\ Charged(Current[1], x)
    /\ flights' = [flights EXCEPT !.active = @ \cup {Current}]
    /\ UNCHANGED <<history, pinned, trouble>>

\* The session's activity lease is refused, a handler or the decoding fails: the
\* rest of the page is left.
HandlerFails ==
    /\ Decides
    /\ Fault
    /\ \E x \in Contexts(Current) : Consider("decode", x, [page EXCEPT !.aborted = TRUE])
    /\ trouble' = TRUE
    /\ UNCHANGED <<history, pinned, flights>>

Tail_(s) == CHOOSE n \in {c[2] : c \in {d \in page.tails : d[1] = s}} :
               \A c \in page.tails : c[1] = s => c[2] <= n

Advanced ==
    [s \in Sessions |->
        IF \E c \in page.tails : c[1] = s /\ c[2] > cursor[s] THEN Tail_(s) ELSE cursor[s]]

Ended == eng.pc = "rows" /\ (page.todo = {} \/ page.aborted)

\* One transaction acknowledges what the page handled. The cursors move only
\* over a page nothing of which has to be read again.
PageEnd ==
    /\ Ended
    /\ rows' = rows \ page.acks
    /\ cursor' = IF page.aborted \/ page.blocked THEN cursor ELSE Advanced
    /\ page' = NoPage
    /\ UNCHANGED <<kinds, last, history, config, head, progress, trouble, used>>
    /\ Continue(IF page.aborted \/ (~page.started /\ page.blocked) THEN "blocked"
                ELSE IF ~page.started /\ page.waiting THEN "waiting" ELSE "progress", wake)

FlushFails ==
    /\ Ended
    /\ page.acks # {}
    /\ Fault
    /\ trouble' = TRUE
    /\ page' = NoPage
    /\ UNCHANGED <<durable, history, config, head, progress, cursor>>
    /\ Continue("blocked", wake)

----------------------------------------------------------------------------
(* The jobs of server hooks, on their own tasks.                           *)

\* The hooks have answered and the row is acknowledged ...
JobAcks(c) ==
    /\ c \in flights.active \ acked
    /\ done' = done \cup {c}
    /\ rows' = rows \ {c}
    /\ acked' = acked \cup {c}
    /\ UNCHANGED <<kinds, last, waived, config, signals, cursor, flights, controls, eng, page,
                   del, trouble, used>>

\* ... and only then the job says so.
JobEnds(c) ==
    /\ c \in acked
    /\ acked' = acked \ {c}
    /\ flights' = [flights EXCEPT !.active = @ \ {c}, !.completed = @ \cup {c}]
    /\ progress' = TRUE
    /\ wake' = TRUE
    /\ UNCHANGED <<durable, history, config, head, cursor, controls, eng, page, del, trouble, used>>

\* Seeded fault: only a job that succeeded announces its end.
JobFailsSilently(c) ==
    /\ c \in flights.active \ acked
    /\ Fault
    /\ trouble' = TRUE
    /\ flights' = [flights EXCEPT !.active = @ \ {c}, !.blocked = @ \cup {c}]
    /\ UNCHANGED <<durable, history, config, signals, cursor, acked, controls, eng, page, del>>

JobFails(c) ==
    /\ c \in flights.active \ acked
    /\ Fault
    /\ trouble' = TRUE
    /\ flights' = [flights EXCEPT !.active = @ \ {c}, !.blocked = @ \cup {c}]
    /\ progress' = TRUE
    /\ UNCHANGED <<durable, history, config, wake, head, cursor, acked, controls, eng, page, del>>

----------------------------------------------------------------------------
(* The next process, after a shutdown or a crash at any point.             *)

NewProcess ==
    /\ pinned' = {}
    /\ cache' = [s \in Sessions |-> "unknown"]
    /\ rescan' = FALSE
    /\ wake' = FALSE /\ head' = FALSE /\ progress' = FALSE
    /\ cursor' = [s \in Sessions |-> 0]
    /\ flights' = NoFlights /\ acked' = {}
    /\ controls' = <<>>
    /\ eng' = Replaying /\ page' = NoPage
    /\ del' = [s \in Sessions |-> IF del[s] = "gone" THEN "gone" ELSE "no"]
    /\ trouble' = FALSE
    /\ UNCHANGED <<durable, history, away, hooked>>

Restart == ~Alive /\ NewProcess /\ UNCHANGED used

Crash == Alive /\ Fault /\ NewProcess

Engine ==
    \/ TakeWake \/ TakeControl \/ DrainCheck \/ DrainCheckFails \/ DrainAwait
    \/ PageBegin \/ PageRead \/ PageReadFails \/ PassOver \/ FenceOff \/ Retain
    \/ Acknowledge \/ Vanished \/ HandleInline \/ Defer \/ HandlerFails \/ PageEnd \/ FlushFails

Job(c) == JobAcks(c) \/ JobEnds(c) \/ JobFails(c)

Next ==
    \/ Engine
    \/ \E c \in Coordinates : Job(c)
    \/ \E s \in Sessions : Commit(s) \/ EditHooks(s) \/ List(s) \/ AskDelete(s)
                           \/ StopActor(s) \/ Erase(s)
    \/ \E s \in Sessions : MoveWorkspace(s) \/ PinTurn(s) \/ JournalUnavailable(s)
                           \/ SelectWorkspace(s)
    \/ ChangeTrust \/ Shutdown \/ Restart \/ Crash

Spec == Init /\ [][Next]_vars

\* The engine task and the jobs run; a job ends because a server hook has a
\* timeout. Commits, edits, requests, deletions, faults and restarts are never
\* assumed.
FairSpec ==
    /\ Spec
    /\ WF_vars(Engine)
    /\ \A c \in Coordinates : WF_vars(Job(c))

----------------------------------------------------------------------------
(* Properties.                                                             *)

\* The types. Acknowledged jobs are active until they say so, and a page only
\* acknowledges rows it has read (hooks.rs:2057).
TypeOK ==
    /\ rows \subseteq Coordinates
    /\ {input, turn, facts, picks} \subseteq SUBSET Coordinates
    /\ last \in [Sessions -> 0..MaxRows]
    /\ done \subseteq Coordinates /\ waived \subseteq Coordinates
    /\ {hooked, away, pinned} \subseteq SUBSET Sessions
    /\ cache \in [Sessions -> {"unknown", "none", "hooks"}]
    /\ {rescan, wake, head, progress, trouble} \subseteq BOOLEAN
    /\ cursor \in [Sessions -> 0..MaxRows]
    /\ flights \in [active : SUBSET Coordinates, completed : SUBSET Coordinates,
                    blocked : SUBSET Coordinates]
    /\ acked \subseteq flights.active
    /\ eng.pc \in {"idle", "begin", "read", "rows", "check", "await", "stopped"}
    /\ eng.mode \in {"replay", "run", "drain", "shutdown"}
    /\ page.todo \subseteq Coordinates /\ page.acks \subseteq page.tails
    /\ del \in [Sessions -> {"no", "asked", "drained", "stopped", "gone"}]

\* No policy bypass but the ones the code decides on: an input leaves the outbox
\* when its hooks have run to the end for it, and without them only because its
\* turn or its session has no workspace, another workspace was selected, its
\* session is being deleted and has no hooks, the hooks were removed, or metadata
\* or hook files could not be read. It does not leave by a crash, a failed page,
\* handler, job or flush, a deletion that races a commit, or because it was
\* committed before its hooks were installed (hooks.rs drain_hook_dispatch_page,
\* handle_and_complete, mod.rs delete_fenced_session).
NoInputDropped == input \subseteq rows \cup done \cup waived

\* A row that was given to a job is the job's: no page that reads it again, for a
\* rescan, a trust change or a deletion, acknowledges it while its hooks run or
\* after they failed (drain_hook_dispatch_page, HookDispatchFlights).
JobOwnsItsRow == page.acks \cap (flights.active \cup flights.blocked) = {}

\* The rows the hooks were run for, or are being run for.
Started == done \cup flights.active

\* A turn that found its workspace gone runs no hook any more, even when the
\* workspace comes back: not a row that a page had read before the turn was
\* pinned, not between the pin, the commit of the fact and its handling, which
\* lifts the pin, and not in the next process once the fact is durable
\* (hooks_tests.rs:1127, worker.rs:8348).
NoHooksOnceUnavailable ==
    [][\A c \in turn : c[1] \in pinned \/ Unavailable(c[1]) =>
         (c \in Started' => c \in Started)]_vars

\* The session has hooks and the engine has not been told otherwise.
Due(c) ==
    /\ c \in rows
    /\ c \in input => (c[1] \in hooked /\ cache[c[1]] # "none")

\* Once this process has seen a commit, every row its hooks are configured for is
\* handled and acknowledged, unless something failed, which the next start
\* repairs: no commit, finished job, discovery or control message in the middle
\* of a page leaves the engine asleep over it (run_engine, drain_hook_dispatch_page).
EveryRowIsServed ==
    \A c \in Coordinates : (Due(c) /\ head) ~> (~Due(c) \/ trouble \/ ~Alive)

\* A session deletion that waits for its rows is answered, whatever becomes of
\* the jobs it waits for (drain_hook_dispatches_through_session).
DrainIsAnswered ==
    \A s \in Sessions : del[s] = "asked" ~> del[s] # "asked"

\* What HookService::list promises: rows retained for want of hooks become
\* eligible as soon as the list has seen the hooks.
ListedRowsAreServed ==
    \A c \in Coordinates : Due(c) ~> (~Due(c) \/ trouble \/ ~Alive)
=============================================================================
