---------------------------- MODULE GroupCommit ----------------------------
(***************************************************************************)
(* The profile-wide group committer of the daemon (session_hub/mod.rs) and *)
(* the store transaction it drives (haider-store, event_store.rs).         *)
(*                                                                         *)
(* Every session actor, and the hook engine, hand their writes to one      *)
(* committer task: byte admission by a fair semaphore, a bounded channel,  *)
(* a group of what is waiting, one SQLite transaction with a savepoint per *)
(* member, an answer to each. Clients that hear nothing ask again under    *)
(* the same command id; the daemon drains, stops, crashes and restarts.    *)
(***************************************************************************)
EXTENDS Naturals, Sequences, FiniteSets, FiniteSetsExt

CONSTANTS Sessions,      \* session actors
          Hooks,         \* the hook engine, one more producer
          Stop,          \* the Shutdown message
          MaxRequests,   \* requests per session
          Weights,       \* byte weights of requests
          QueueMax,      \* APPEND_QUEUE_MAX_REQUESTS
          QueueBytes,    \* APPEND_QUEUE_MAX_BYTES
          GroupMax,      \* APPEND_GROUP_MAX_REQUESTS
          GroupBytes,    \* APPEND_GROUP_MAX_BYTES
          MaxFaults      \* crashes and failed transactions

ASSUME CommitAssumption ==
    /\ Hooks \notin Sessions
    /\ Stop \notin Sessions \cup {Hooks}
    /\ MaxRequests \in Nat
    /\ Weights \subseteq Nat
    /\ QueueMax \in Nat \ {0}
    /\ QueueBytes \in Nat \ {0}
    /\ GroupMax \in Nat \ {0}
    /\ GroupBytes \in Nat
    /\ MaxFaults \in Nat

VARIABLES
    journal,    \* durable: session -> ids of committed requests, a sequence
    receipts,   \* durable: session -> ids with a committed command receipt
    rows,       \* durable: hook_dispatch_outbox
    next,       \* session -> id of its clients' current request
    again,      \* session -> that request was submitted before
    req,        \* producer -> the request in hand
    at,         \* producer -> where it stands
    answer,     \* producer -> what its oneshot channel holds
    free,       \* permits left in the byte semaphore
    waiters,    \* producers queued on the semaphore
    line,       \* producers, and the Shutdown message, queued on the channel
    queue,      \* the channel
    comm,       \* the committer task
    admitted,   \* the counter of admitted mutations
    phase,      \* of the hub: "open", "draining", "stopping", "down"
    faults

durable == <<journal, receipts, rows>>
clients == <<next, again>>
vars == <<journal, receipts, rows, next, again, req, at, answer, free, waiters,
          line, queue, comm, admitted, phase, faults>>

Producers == Sessions \cup {Hooks}

Ids == 1..MaxRequests

Coordinates == Sessions \X Ids

SessionRequests == [kind : {"accept", "append"}, id : Ids, weight : Weights]

AckRequests == [kind : {"ack"}, acks : SUBSET Coordinates, weight : Nat]

NoRequest == [kind |-> "none", weight |-> 0]

Answers == {"committed", "replayed", "refused", "failed"}

\* The committer between two groups; "carried" is next_message, <<>> or one request.
Resting == [at |-> "idle", group |-> <<>>, carried |-> <<>>, stop |-> FALSE]

Members(g) == {g[i] : i \in 1..Len(g)}

Init ==
    /\ journal = [s \in Sessions |-> <<>>]
    /\ receipts = [s \in Sessions |-> {}]
    /\ rows = {}
    /\ next = [s \in Sessions |-> 1]
    /\ again = [s \in Sessions |-> FALSE]
    /\ req = [p \in Producers |-> NoRequest]
    /\ at = [p \in Producers |-> "idle"]
    /\ answer = [p \in Producers |-> "none"]
    /\ free = QueueBytes
    /\ waiters = <<>>
    /\ line = <<>>
    /\ queue = <<>>
    /\ comm = Resting
    /\ admitted = 0
    /\ phase = "open"
    /\ faults = 0

----------------------------------------------------------------------------
(* Admission: a request is charged its weight, at least 1 and at most the  *)
(* whole semaphore; then it needs a slot of the channel.                   *)

\* Seeded fault: an oversized request is charged what it weighs.
ChargeUnclamped(p) == IF req[p].weight = 0 THEN 1 ELSE req[p].weight

Charge(p) ==
    IF req[p].weight = 0 THEN 1
    ELSE IF req[p].weight > QueueBytes THEN QueueBytes
    ELSE req[p].weight

\* The byte permits that the requests of P hold, one by one.
Permits(P) == UNION {{p} \X (1..Charge(p)) : p \in P}

Ask(p, r) ==
    /\ req' = [req EXCEPT ![p] = r]
    /\ at' = [at EXCEPT ![p] = "permit"]
    /\ waiters' = Append(waiters, p)
    /\ UNCHANGED <<durable, clients, answer, free, line, queue, comm, admitted, phase, faults>>

\* An actor takes the next command of its mailbox and hands it over. A command
\* repeated by its client is the same command.
Submit(s) ==
    /\ at[s] = "idle"
    /\ phase = "open"
    /\ next[s] \in Ids
    /\ \E r \in SessionRequests :
          /\ r.id = next[s]
          /\ again[s] => r.kind = "accept"
          /\ Ask(s, r)

\* The hook engine acknowledges rows: through the committer when a mutation is
\* admitted, in a transaction of its own otherwise.
SubmitAcks ==
    /\ at[Hooks] = "idle"
    /\ admitted > 0
    /\ \E acks \in SUBSET rows \ {{}} :
          Ask(Hooks, [kind |-> "ack", acks |-> acks, weight |-> Cardinality(acks)])

AckDirectly ==
    /\ at[Hooks] = "idle"
    /\ admitted = 0
    /\ \E acks \in SUBSET rows \ {{}} : rows' = rows \ acks
    /\ UNCHANGED <<journal, receipts, clients, req, at, answer, free, waiters, line,
                   queue, comm, admitted, phase, faults>>

\* The semaphore serves its waiters in order.
Acquire ==
    /\ waiters # <<>>
    /\ LET p == Head(waiters) IN
          /\ Charge(p) <= free
          /\ free' = free - Charge(p)
          /\ waiters' = Tail(waiters)
          /\ line' = Append(line, p)
          /\ at' = [at EXCEPT ![p] = "line"]
          /\ admitted' = admitted + 1
    /\ UNCHANGED <<durable, clients, req, answer, queue, comm, phase, faults>>

Enter ==
    /\ line # <<>>
    /\ comm.at # "stopped"
    /\ Len(queue) < QueueMax
    /\ queue' = Append(queue, Head(line))
    /\ line' = Tail(line)
    /\ at' = IF Head(line) = Stop THEN at ELSE [at EXCEPT ![Head(line)] = "queued"]
    /\ UNCHANGED <<durable, clients, req, answer, free, waiters, comm, admitted, phase, faults>>

\* Seeded fault: the permit is forgotten when the channel turns out closed.
SendFailsKeepingPermit ==
    /\ line # <<>>
    /\ comm.at = "stopped"
    /\ LET p == Head(line) IN
          /\ at' = [at EXCEPT ![p] = "answered"]
          /\ answer' = [answer EXCEPT ![p] = "failed"]
    /\ admitted' = admitted - 1
    /\ line' = Tail(line)
    /\ UNCHANGED <<durable, clients, req, free, waiters, queue, comm, phase, faults>>

\* The channel is closed: the producer takes its admission back and fails.
SendFails ==
    /\ line # <<>>
    /\ comm.at = "stopped"
    /\ LET p == Head(line) IN
          /\ at' = [at EXCEPT ![p] = "answered"]
          /\ answer' = [answer EXCEPT ![p] = "failed"]
          /\ free' = free + Charge(p)
    /\ admitted' = admitted - 1
    /\ line' = Tail(line)
    /\ UNCHANGED <<durable, clients, req, waiters, queue, comm, phase, faults>>

----------------------------------------------------------------------------
(* The committer.                                                          *)

GroupWeight == MapThenSumSet(LAMBDA p : req[p].weight, Members(comm.group))

\* The first message of a group is the carried one or the next of the channel.
TakeFirst ==
    /\ comm.at = "idle"
    /\ \/ /\ comm.carried # <<>>
          /\ comm' = [comm EXCEPT !.at = "collecting", !.group = comm.carried, !.carried = <<>>]
          /\ UNCHANGED queue
       \/ /\ comm.carried = <<>>
          /\ queue # <<>>
          /\ Head(queue) # Stop
          /\ comm' = [comm EXCEPT !.at = "collecting", !.group = <<Head(queue)>>]
          /\ queue' = Tail(queue)
    /\ UNCHANGED <<durable, clients, req, at, answer, free, waiters, line, admitted, phase, faults>>

\* Seeded fault: a Shutdown that ends a group is not remembered.
CollectForgettingStop ==
    /\ comm.at = "collecting"
    /\ Len(comm.group) < GroupMax
    /\ queue # <<>>
    /\ queue' = Tail(queue)
    /\ LET m == Head(queue) IN
          comm' = IF m = Stop THEN [comm EXCEPT !.at = "commit"]
                  ELSE IF GroupWeight + req[m].weight > GroupBytes
                       THEN [comm EXCEPT !.at = "commit", !.carried = <<m>>]
                       ELSE [comm EXCEPT !.group = Append(@, m)]
    /\ UNCHANGED <<durable, clients, req, at, answer, free, waiters, line, admitted, phase, faults>>

\* What is waiting joins, up to the limits of a group; a request that would
\* exceed the byte limit is carried to the next one, Shutdown ends the group.
Collect ==
    /\ comm.at = "collecting"
    /\ Len(comm.group) < GroupMax
    /\ queue # <<>>
    /\ queue' = Tail(queue)
    /\ LET m == Head(queue) IN
          comm' = IF m = Stop THEN [comm EXCEPT !.at = "commit", !.stop = TRUE]
                  ELSE IF GroupWeight + req[m].weight > GroupBytes
                       THEN [comm EXCEPT !.at = "commit", !.carried = <<m>>]
                       ELSE [comm EXCEPT !.group = Append(@, m)]
    /\ UNCHANGED <<durable, clients, req, at, answer, free, waiters, line, admitted, phase, faults>>

Close ==
    /\ comm.at = "collecting"
    /\ Len(comm.group) = GroupMax \/ queue = <<>>
    /\ comm' = [comm EXCEPT !.at = "commit"]
    /\ UNCHANGED <<durable, clients, req, at, answer, free, waiters, line, queue, admitted,
                   phase, faults>>

----------------------------------------------------------------------------
(* The transaction. Members are different producers, each the only writer  *)
(* of its session, so a member's savepoint is its own journal, receipts    *)
(* and rows.                                                               *)

\* R are the members whose request fails the semantic checks at this attempt. A
\* committed receipt is replayed before anything else is looked at; a semantic
\* failure rolls the member's savepoint back.
Outcome(p, R) ==
    IF req[p].kind = "ack" THEN "committed"
    ELSE IF req[p].kind = "accept" /\ req[p].id \in receipts[p] THEN "replayed"
    ELSE IF p \in R THEN "refused"
    ELSE "committed"

Outcomes(g, R) == [i \in 1..Len(g) |-> Outcome(g[i], R)]

\* Seeded fault: one member's semantic failure rolls the others back as well.
WritesUnlessRefused(s, R) ==
    /\ s \in Members(comm.group)
    /\ Outcome(s, R) = "committed"
    /\ \A p \in Members(comm.group) : Outcome(p, R) # "refused"

Writes(s, R) == s \in Members(comm.group) /\ Outcome(s, R) = "committed"

\* Seeded fault: the receipt is not written with the envelopes.
TransactionUnreceipted(R) ==
    /\ journal' = [s \in Sessions |-> IF Writes(s, R) THEN Append(journal[s], req[s].id)
                                                      ELSE journal[s]]
    /\ rows' = (IF Hooks \in Members(comm.group) THEN rows \ req[Hooks].acks ELSE rows)
               \cup {<<s, Len(journal[s]) + 1>> : s \in {t \in Sessions : Writes(t, R)}}
    /\ UNCHANGED receipts

\* Envelopes, receipt and dispatch rows of the members that passed.
Transaction(R) ==
    /\ journal' = [s \in Sessions |-> IF Writes(s, R) THEN Append(journal[s], req[s].id)
                                                      ELSE journal[s]]
    /\ receipts' = [s \in Sessions |->
                       IF Writes(s, R) /\ req[s].kind = "accept"
                       THEN receipts[s] \cup {req[s].id} ELSE receipts[s]]
    /\ rows' = (IF Hooks \in Members(comm.group) THEN rows \ req[Hooks].acks ELSE rows)
               \cup {<<s, Len(journal[s]) + 1>> : s \in {t \in Sessions : Writes(t, R)}}

\* Whose completion goes out or is dropped with the receiver.
Released == Members(comm.group) \cup IF comm.stop THEN Members(queue) \ {Stop} ELSE {}

\* Completions are zipped with the outcomes; one without an outcome, and those
\* still in the channel when the committer ends, are dropped, which their
\* producer sees as a closed hub.
Reply(outcomes) ==
    /\ answer' = [p \in Producers |->
                    IF \E i \in 1..Len(outcomes) : comm.group[i] = p
                    THEN outcomes[CHOOSE i \in 1..Len(outcomes) : comm.group[i] = p]
                    ELSE IF p \in Released THEN "failed" ELSE answer[p]]
    /\ at' = [p \in Producers |-> IF p \in Released THEN "answered" ELSE at[p]]
    /\ free' = free + Cardinality(Permits(Released))
    /\ admitted' = admitted - Len(comm.group)
    /\ comm' = [comm EXCEPT !.at = IF comm.stop THEN "stopped" ELSE "idle", !.group = <<>>]
    /\ queue' = IF comm.stop THEN <<>> ELSE queue
    /\ UNCHANGED <<clients, req, waiters, line, phase>>

Commit ==
    /\ comm.at = "commit"
    /\ \E R \in SUBSET Members(comm.group) :
          /\ Transaction(R)
          /\ Reply(Outcomes(comm.group, R))
    /\ UNCHANGED faults

\* A fatal error of the store rolls the whole transaction back.
CommitFails ==
    /\ comm.at = "commit"
    /\ faults < MaxFaults
    /\ faults' = faults + 1
    /\ Reply([i \in 1..Len(comm.group) |-> "failed"])
    /\ UNCHANGED durable

\* Shutdown is the first message of a group: the loop ends.
TakeStop ==
    /\ comm.at = "idle"
    /\ comm.carried = <<>>
    /\ queue # <<>>
    /\ Head(queue) = Stop
    /\ LET dropped == Members(Tail(queue)) IN
          /\ answer' = [p \in Producers |-> IF p \in dropped THEN "failed" ELSE answer[p]]
          /\ at' = [p \in Producers |-> IF p \in dropped THEN "answered" ELSE at[p]]
          /\ free' = free + Cardinality(Permits(dropped))
    /\ comm' = [comm EXCEPT !.at = "stopped"]
    /\ queue' = <<>>
    /\ UNCHANGED <<durable, clients, req, waiters, line, admitted, phase, faults>>

----------------------------------------------------------------------------
(* Answers, shutdown, crash.                                               *)

Settle(s, again_) ==
    /\ next' = [next EXCEPT ![s] = IF again_ THEN @ ELSE @ + 1]
    /\ again' = [again EXCEPT ![s] = again_]

\* The actor passes the answer on. A client that hears of a failure, or that
\* hears nothing, repeats a command; nobody repeats an append.
Receive(p) ==
    /\ at[p] = "answered"
    /\ at' = [at EXCEPT ![p] = "idle"]
    /\ req' = [req EXCEPT ![p] = NoRequest]
    /\ answer' = [answer EXCEPT ![p] = "none"]
    /\ \/ p = Hooks /\ UNCHANGED clients
       \/ /\ p # Hooks
          /\ req[p].kind = "append" \/ answer[p] # "failed"
          /\ Settle(p, FALSE)
       \/ /\ p # Hooks
          /\ req[p].kind = "accept"
          /\ Settle(p, TRUE)
    /\ UNCHANGED <<durable, free, waiters, line, queue, comm, admitted, phase, faults>>

\* The hub refuses new work and lets every actor finish the command in hand.
BeginDraining ==
    /\ phase = "open"
    /\ phase' = "draining"
    /\ UNCHANGED <<durable, clients, req, at, answer, free, waiters, line, queue, comm,
                   admitted, faults>>

\* The actors are joined; the hook engine may still be acknowledging.
SendStop ==
    /\ phase = "draining"
    /\ \A s \in Sessions : at[s] = "idle"
    /\ phase' = "stopping"
    /\ line' = Append(line, Stop)
    /\ UNCHANGED <<durable, clients, req, at, answer, free, waiters, queue, comm, admitted, faults>>

JoinCommitter ==
    /\ phase = "stopping"
    /\ comm.at = "stopped"
    /\ phase' = "down"
    /\ UNCHANGED <<durable, clients, req, at, answer, free, waiters, line, queue, comm,
                   admitted, faults>>

\* The next process, after a shutdown or a crash at any point.
Reborn ==
    /\ req' = [p \in Producers |-> NoRequest]
    /\ at' = [p \in Producers |-> "idle"]
    /\ answer' = [p \in Producers |-> "none"]
    /\ free' = QueueBytes
    /\ waiters' = <<>>
    /\ line' = <<>>
    /\ queue' = <<>>
    /\ comm' = Resting
    /\ admitted' = 0
    /\ phase' = "open"
    /\ next' = [s \in Sessions |-> IF req[s].kind = "append" THEN next[s] + 1 ELSE next[s]]
    /\ again' = [s \in Sessions |-> IF req[s].kind = "none" THEN again[s]
                                    ELSE req[s].kind = "accept"]
    /\ UNCHANGED durable

Crash ==
    /\ phase # "down"
    /\ faults < MaxFaults
    /\ faults' = faults + 1
    /\ Reborn

Restart == phase = "down" /\ Reborn /\ UNCHANGED faults

Committer == TakeFirst \/ Collect \/ Close \/ Commit \/ TakeStop

Next ==
    \/ \E s \in Sessions : Submit(s)
    \/ \E p \in Producers : Receive(p)
    \/ SubmitAcks \/ AckDirectly \/ Acquire \/ Enter \/ SendFails
    \/ Committer \/ CommitFails
    \/ BeginDraining \/ SendStop \/ JoinCommitter \/ Crash \/ Restart

Spec == Init /\ [][Next]_vars

\* The runtime polls every task that can run: admission, the committer, the
\* actors' answers and the shutdown future. Requests, acknowledgements, drains
\* and faults are never assumed.
Fairness ==
    /\ WF_vars(Acquire) /\ WF_vars(Enter) /\ WF_vars(SendFails)
    /\ WF_vars(Committer \/ CommitFails)
    /\ WF_vars(SendStop) /\ WF_vars(JoinCommitter)
    /\ \A p \in Producers : WF_vars(Receive(p))

FairSpec == Spec /\ Fairness

----------------------------------------------------------------------------
(* Properties.                                                             *)

\* The types, with the limits the code puts on them: permits never exceed the
\* semaphore, the channel and a group never exceed their capacity (mod.rs:204).
TypeOK ==
    /\ journal \in [Sessions -> Seq(Ids)]
    /\ receipts \in [Sessions -> SUBSET Ids]
    /\ rows \subseteq Coordinates
    /\ next \in [Sessions -> 1..(MaxRequests + 1)]
    /\ again \in [Sessions -> BOOLEAN]
    /\ req = [p \in Producers |-> req[p]]
    /\ \A s \in Sessions : req[s] \in SessionRequests \cup {NoRequest}
    /\ req[Hooks] \in AckRequests \cup {NoRequest}
    /\ at \in [Producers -> {"idle", "permit", "line", "queued", "answered"}]
    /\ answer \in [Producers -> Answers \cup {"none"}]
    /\ free \in 0..QueueBytes
    /\ waiters \in Seq(Producers)
    /\ line \in Seq(Producers \cup {Stop})
    /\ queue \in Seq(Producers \cup {Stop}) /\ Len(queue) <= QueueMax
    /\ comm \in [at : {"idle", "collecting", "commit", "stopped"},
                 group : Seq(Producers), carried : Seq(Producers), stop : BOOLEAN]
    /\ Len(comm.group) <= GroupMax /\ Len(comm.carried) <= 1
    /\ admitted \in Nat
    /\ phase \in {"open", "draining", "stopping", "down"}
    /\ faults \in 0..MaxFaults

\* A command takes effect at most once, and the commands of a session in the
\* order they were made, through lost answers, retries, failed groups, crashes
\* and restarts (event_store.rs accept_turn_in_transaction, receipt first).
AppliedOnce ==
    \A s \in Sessions : \A i, j \in 1..Len(journal[s]) :
        i < j => journal[s][i] < journal[s][j]

Charged == {p \in Producers : at[p] \in {"line", "queued"}}

\* Every byte permit taken is held by a request that is still on its way, and
\* the counter of admitted mutations, which routes hook acknowledgements, counts
\* exactly those until the committer stops (mod.rs AppendCommitter::send).
AdmissionExact ==
    /\ free + Cardinality(Permits(Charged)) = QueueBytes
    /\ comm.at # "stopped" => admitted = Cardinality(Charged)

\* What its client, or the hook engine, may know of a request.
Fate(p) == CASE at[p] = "idle" -> "idle"
             [] at[p] = "answered" -> answer[p]
             [] OTHER -> "pending"

\* The group is invisible: journal, rows and answers change as if every request
\* were a transaction of its own, and a command id is replayed exactly when its
\* command is in the journal, although the code only looks at receipts.
Alone == INSTANCE CommandStore WITH
    fate <- [p \in Producers |-> Fate(p)]

EachAlone == Alone!Spec

\* A request that was handed over is answered or dies with the process: nothing
\* waits for ever on bytes, on the channel or on a group, whatever its size
\* (AppendCommitter::admit clamps the charge), and a shutdown leaves nobody
\* waiting on a oneshot.
EveryRequestIsAnswered ==
    \A p \in Producers : at[p] \in {"permit", "line", "queued"} ~> at[p] \in {"idle", "answered"}

\* A drain that has begun ends.
ShutdownEnds == phase = "draining" ~> phase \in {"down", "open"}
=============================================================================
