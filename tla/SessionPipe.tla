---------------------------- MODULE SessionPipe ----------------------------
(***************************************************************************)
(* One session of the daemon's session hub: the session actor that owns    *)
(* the durable command order (session_hub/actor.rs), the bounded catch-up  *)
(* channel it fans commits out to, the replay task of every attachment     *)
(* (session_hub/replay.rs), the attachment's lane of the connection outbox *)
(* and the graceful or forced shutdown of the hub (session_hub/mod.rs).    *)
(*                                                                         *)
(* A client holds at most one attachment at a time, so the state of an     *)
(* attachment is indexed by its client.  An envelope is its position in    *)
(* the journal; of its payload the model keeps whether it is an item delta *)
(* (sealed replay leaves those out).  The weight of a batch in estimated   *)
(* bytes is chosen when the batch is committed.                            *)
(***************************************************************************)
EXTENDS Naturals, Sequences, FiniteSets

CONSTANTS
    Clients,          \* the attached (or attaching) clients
    CatchUpCapacity,  \* catch_up_capacity: frames of one catch-up channel
    ByteBudget,       \* catch_up_byte_budget
    LaneCapacity,     \* frames of one attachment's outbox lane
    PageSize,         \* REPLAY_PAGE_SIZE
    Kinds,            \* kinds of envelope: "delta" (item delta), "fact"
    Weights,          \* weights a committed batch may have
    MaxBatch,         \* bound: envelopes of one commit
    MaxSeq,           \* bound: length of the journal
    MaxFaults         \* bound: failed reads, refusals, disconnects, stops

ASSUME PipeAssumption ==
    /\ CatchUpCapacity \in Nat \ {0}
    /\ ByteBudget \in Nat
    /\ LaneCapacity \in Nat \ {0}
    /\ PageSize \in Nat \ {0}
    /\ Kinds \subseteq {"delta", "fact"}
    /\ Weights \subseteq Nat
    /\ MaxBatch \in Nat
    /\ MaxSeq \in Nat
    /\ MaxFaults \in Nat

VARIABLES
    journal,      \* the session's committed envelopes, in the store
    head,         \* the actor's `head`
    actor,        \* "idle", "publishing" (committed, not published), "stopped"
    batchWeight,  \* weight of the batch being published
    drain,        \* "serving", "draining", "graceful", "forced"
    owned,        \* clients in the hub's `attachments` map
    connected,    \* clients whose connection outbox is open
    suffixFailed, \* a finished task still in the registry reported
                  \* FinalSuffixFailed
    faults,       \* disturbances so far
    reg,          \* ActorAttachment of each client, in the actor's map
    chan,         \* catch-up channel, byte ledger and lag watch
    task,         \* the replay task
    wire          \* the outbox lane and a record of what the client was sent

actorVars == <<journal, head, actor, batchWeight>>
hubVars   == <<drain, owned, connected, suffixFailed, faults>>
vars      == <<actorVars, hubVars, reg, chan, task, wire>>

(* A definition followed by the one it varies is a seeded fault: nothing   *)
(* uses it, it only serves to show that a property notices that mistake.   *)

(***************************************************************************)
(* Positions of a replay task.  "registered" and "owned" are the attach    *)
(* request before its task exists; the final_ positions are                *)
(* final_suffix_resume, which runs once the actor is gone.                 *)
(***************************************************************************)
FinalPcs   == {"final", "final_replay", "final_page"}
StreamPcs  == {"replay", "page", "buffered", "buffered_deliver", "live",
               "live_deliver"}
RunningPcs == StreamPcs \cup FinalPcs \cup {"reregister"}
Pcs        == {"done", "registered", "owned"} \cup RunningPcs

(* How a task ended: "untold" is a detach whose Lagged notice was refused. *)
Outcomes == {"none", "complete", "told", "untold", "detached", "read_failed",
             "drain_read_failed", "final_suffix_failed", "aborted"}

Event(s)    == [kind |-> "event", seq |-> s]
CaughtUp(h) == [kind |-> "caught_up", seq |-> h]
Lagged(s)   == [kind |-> "lagged", seq |-> s]
Response(h) == [kind |-> "response", seq |-> h]
Overloaded  == [kind |-> "overloaded", seq |-> 0]
Frames      == [kind : {"event", "caught_up", "lagged", "response",
                        "overloaded"}, seq : Nat]

Smaller(a, b) == IF a < b THEN a ELSE b

(***************************************************************************)
(* The idle values of the per-client records.  Of `wire`, only the lane is *)
(* state of the program; named (the client got the attach response), seen  *)
(* (last event the client received), initialHigh (replay_through_seq of    *)
(* the attach response), announced (last AttachCaughtUp admitted) and      *)
(* omitted (last envelope left out by sealed replay) are history.          *)
(***************************************************************************)
NoReg  == [present |-> FALSE, active |-> FALSE, lastBuffered |-> 0,
           detaching |-> FALSE]
NoChan == [queue |-> <<>>, bytes |-> 0, lagged |-> FALSE]
NoTask == [pc |-> "done", lastSent |-> 0, highWater |-> 0, sealing |-> FALSE,
           pageEnd |-> 0, pending |-> 0, inReplay |-> FALSE,
           waiting |-> "no", outcome |-> "none"]
NoWire == [lane |-> <<>>, named |-> FALSE, seen |-> 0, initialHigh |-> 0,
           announced |-> 0, omitted |-> 0]

Init ==
    /\ journal = <<>>
    /\ head = 0
    /\ actor = "idle"
    /\ batchWeight = 0
    /\ drain = "serving"
    /\ owned = {}
    /\ connected = Clients
    /\ suffixFailed = FALSE
    /\ faults = 0
    /\ reg  = [c \in Clients |-> NoReg]
    /\ chan = [c \in Clients |-> NoChan]
    /\ task = [c \in Clients |-> NoTask]
    /\ wire = [c \in Clients |-> NoWire]

-----------------------------------------------------------------------------
(* The session actor. *)

(* A store-commit arm up to the return of the store call: the batch is     *)
(* durable and not yet published.  A commit that fails changes nothing.    *)
CommitBatch(kinds, weight) ==
    /\ actor = "idle"
    /\ Len(journal) + Len(kinds) <= MaxSeq
    /\ journal' = journal \o kinds
    /\ batchWeight' = weight
    /\ actor' = "publishing"
    /\ UNCHANGED <<head, hubVars, reg, chan, task, wire>>

(* The receiver half of the channel is dropped with the replay task.       *)
ReceiverGone(c) == task[c].pc = "done"

BatchLen == Len(journal) - head

(* How many entries of the batch the channel still takes.                  *)
Accepted(c) ==
    IF chan[c].bytes + batchWeight > ByteBudget
    THEN 0
    ELSE Smaller(BatchLen, CatchUpCapacity - Len(chan[c].queue))

(* The whole batch's weight rides on its last queued entry.                *)
QueuedByBatchIndex(n) ==
    [i \in 1..n |-> [seq    |-> head + i,
                     weight |-> IF i = BatchLen THEN batchWeight ELSE 0]]
Queued(n) ==
    [i \in 1..n |-> [seq    |-> head + i,
                     weight |-> IF i = n THEN batchWeight ELSE 0]]

(* One active receiver's share of a publication: it takes the prefix of    *)
(* the batch it has room for, and lags when that is not all of it.         *)
FedNoPartialLag(c) ==
    [queue  |-> chan[c].queue \o Queued(Accepted(c)),
     bytes  |-> chan[c].bytes + (IF Accepted(c) > 0 THEN batchWeight ELSE 0),
     lagged |-> chan[c].lagged \/ Accepted(c) = 0]
Fed(c) ==
    [queue  |-> chan[c].queue \o Queued(Accepted(c)),
     bytes  |-> chan[c].bytes + (IF Accepted(c) > 0 THEN batchWeight ELSE 0),
     lagged |-> chan[c].lagged \/ Accepted(c) < BatchLen]

(* The receiver's entry after it: inactive once it lags; an active entry   *)
(* whose receiver is gone leaves the actor's map.                          *)
PublishedReg(c) ==
    IF ~(reg[c].present /\ reg[c].active) THEN reg[c]
    ELSE IF ReceiverGone(c) THEN NoReg
    ELSE [reg[c] EXCEPT
            !.active = Accepted(c) = BatchLen,
            !.lastBuffered = IF Accepted(c) > 0 THEN head + Accepted(c) ELSE @]

PublishedChan(c) ==
    IF reg[c].present /\ reg[c].active /\ ~ReceiverGone(c) THEN Fed(c)
    ELSE chan[c]

(* publish_shared_attachments.                                             *)
Publish ==
    /\ actor = "publishing"
    /\ chan' = [c \in Clients |-> PublishedChan(c)]
    /\ reg' = [c \in Clients |-> PublishedReg(c)]
    /\ head' = Len(journal)
    /\ actor' = "idle"
    /\ UNCHANGED <<journal, batchWeight, hubVars, task, wire>>

(* The Detach arm.                                                         *)
ActorDetach(c) ==
    /\ actor = "idle"
    /\ reg[c].detaching
    /\ reg' = [reg EXCEPT ![c] = NoReg]
    /\ UNCHANGED <<actorVars, hubVars, chan, task, wire>>

-----------------------------------------------------------------------------
(* The attach request. *)

(* The Register arm: the receiver enters the map and the head is read in   *)
(* one actor step.  session_attach refuses an empty session before it, and *)
(* the arm itself refuses a cursor beyond the head; neither changes state. *)
Register(c, after, sealed) ==
    /\ actor = "idle"
    /\ c \in connected \ owned
    /\ task[c].pc = "done"
    /\ wire[c].lane = <<>>
    /\ journal # <<>>
    /\ after <= head
    /\ reg' = [reg EXCEPT ![c] = [present |-> TRUE, active |-> TRUE,
                                  lastBuffered |-> head, detaching |-> FALSE]]
    /\ chan' = [chan EXCEPT ![c] = NoChan]
    /\ task' = [task EXCEPT ![c] = [NoTask EXCEPT
                    !.pc = "registered", !.lastSent = after,
                    !.highWater = head, !.sealing = sealed]]
    /\ wire' = [wire EXCEPT ![c] = [NoWire EXCEPT
                    !.seen = after, !.initialHigh = head]]
    /\ UNCHANGED <<actorVars, hubVars>>

(* The end of register_reserved: ownership enters the hub's map.           *)
InsertOwner(c) ==
    /\ task[c].pc = "registered"
    /\ owned' = owned \cup {c}
    /\ task' = [task EXCEPT ![c].pc = "owned"]
    /\ UNCHANGED <<actorVars, drain, connected, suffixFailed, faults, reg, chan,
                   wire>>

(* The task, or the request it grew from, stops here.                      *)
Finish(c, how) ==
    task' = [task EXCEPT ![c].pc = "done", ![c].waiting = "no",
                         ![c].outcome = how]

(* take_attachment, and the Detach command finish_detach sends after it;   *)
(* nothing happens when a concurrent detach already took the owner.        *)
Disown(c) ==
    /\ owned' = owned \ {c}
    /\ reg' = [reg EXCEPT ![c].detaching =
                 @ \/ (c \in owned /\ reg[c].present)]

(* An error returned by the request handler is fatal to its connection:    *)
(* queued frames are discarded and close() sweeps what it owns.            *)
FatalToConnection(c) ==
    /\ connected' = connected \ {c}
    /\ wire' = [wire EXCEPT ![c].lane = <<>>]

(* The tail of session_attach on an open connection: the response is       *)
(* staged and the replay task starts, unless a detach already won.         *)
(* spawn_replay also reaps the handles of tasks that ended, and with them  *)
(* what they reported.                                                     *)
StageAndSpawnUngated(c) ==
    /\ task[c].pc = "owned"
    /\ c \in connected \cap owned
    /\ wire' = [wire EXCEPT ![c].lane = <<Response(task[c].highWater)>>]
    /\ task' = [task EXCEPT ![c].pc = "replay"]
    /\ suffixFailed' = FALSE
    /\ UNCHANGED <<actorVars, drain, owned, connected, faults, reg, chan>>
StageAndSpawn(c) ==
    /\ task[c].pc = "owned"
    /\ c \in connected
    /\ drain = "serving"
    /\ wire' = [wire EXCEPT ![c].lane = <<Response(task[c].highWater)>>]
    /\ IF c \in owned
       THEN /\ task' = [task EXCEPT ![c].pc = "replay"]
            /\ suffixFailed' = FALSE
       ELSE /\ Finish(c, "detached")
            /\ UNCHANGED suffixFailed
    /\ UNCHANGED <<actorVars, drain, owned, connected, faults, reg, chan>>

(* The same tail when the outbox is closed or full: the request detaches   *)
(* what it registered.                                                     *)
StageRefused(c) ==
    /\ task[c].pc = "owned"
    /\ \/ c \notin connected /\ UNCHANGED faults
       \/ c \in connected /\ faults < MaxFaults /\ faults' = faults + 1
    /\ Disown(c)
    /\ FatalToConnection(c)
    /\ Finish(c, "detached")
    /\ UNCHANGED <<actorVars, drain, suffixFailed, chan>>

(* The metadata read after registration fails, or spawn_replay finds the   *)
(* hub draining: the handler returns an error and leaves the owner to the  *)
(* sweep of its connection.                                                *)
AttachFailed(c) ==
    /\ task[c].pc = "owned"
    /\ \/ faults < MaxFaults /\ faults' = faults + 1
       \/ drain # "serving" /\ c \in connected /\ UNCHANGED faults
    /\ FatalToConnection(c)
    /\ Finish(c, "detached")
    /\ UNCHANGED <<actorVars, drain, owned, suffixFailed, reg, chan>>

-----------------------------------------------------------------------------
(* Frame admission: deliver_prepared_frame and the lane it offers to. *)

ResponseStaged(c) ==
    wire[c].lane # <<>> /\ Head(wire[c].lane).kind = "response"

(* The sink takes one more attachment frame.  The ownership lock makes     *)
(* admission and detach exclusive.                                         *)
AdmitsBeforeResponse(c) ==
    /\ c \in owned \cap connected
    /\ Len(wire[c].lane) < LaneCapacity
Admits(c) ==
    /\ c \in owned \cap connected
    /\ ~ResponseStaged(c)
    /\ Len(wire[c].lane) < LaneCapacity

(* The lag watch has a live sender while the actor holds the entry.        *)
LagPending(c) == chan[c].lagged /\ reg[c].present

(* A frame waits for admission at these positions.                         *)
Offering(c) ==
    \/ task[c].pc \in {"page", "buffered_deliver", "live_deliver",
                       "final_page"}
    \/ /\ task[c].pc \in {"replay", "final_replay"}
       /\ task[c].lastSent >= task[c].highWater

(* The offer answered Busy: the task holds an admission ticket and waits,  *)
(* on the lag watch too if it is open at that moment.  A wake-up repeats   *)
(* the offer.                                                              *)
Busy(c) ==
    /\ Offering(c)
    /\ c \in owned \cap connected
    /\ ~Admits(c)
    /\ LET watch == IF reg[c].present THEN "lag_open" ELSE "lag_closed"
       IN /\ task[c].waiting # watch
          /\ task' = [task EXCEPT ![c].waiting = watch]
    /\ UNCHANGED <<actorVars, hubVars, reg, chan, wire>>

(* lag_and_detach: ownership goes first, then the lane is purged.  A       *)
(* client that never got its attach response gets an error for it,         *)
(* otherwise it gets Lagged; a notice the outbox has no room for is        *)
(* ignored.  `cost` counts the refusal that led here.                      *)
LagAndDetach(c, cost) ==
    /\ Disown(c)
    /\ \/ /\ c \in connected
          /\ wire' = [wire EXCEPT ![c].lane =
                <<IF ResponseStaged(c) THEN Overloaded
                                       ELSE Lagged(task[c].lastSent)>>]
          /\ faults' = faults + cost
          /\ Finish(c, "told")
       \/ /\ c \in connected
          /\ faults + cost < MaxFaults
          /\ wire' = [wire EXCEPT ![c].lane = <<>>]
          /\ faults' = faults + cost + 1
          /\ Finish(c, "untold")
       \/ /\ c \notin connected
          /\ wire' = [wire EXCEPT ![c].lane = <<>>]
          /\ faults' = faults + cost
          /\ Finish(c, "detached")
    /\ UNCHANGED <<actorVars, drain, connected, suffixFailed, chan>>

(* FrameDelivery::Stuck: the channel has overflowed behind a busy outbox.  *)
(* The actor may be gone by the time the wait observes it.                 *)
Stuck(c) ==
    /\ Offering(c)
    /\ task[c].pc \notin FinalPcs
    /\ task[c].waiting = "lag_open"
    /\ c \in owned
    /\ chan[c].lagged
    /\ LagAndDetach(c, 0)

(* FrameDelivery::Refused: the outbox is closed, or the frame is over the  *)
(* negotiated limit.                                                       *)
Refused(c) ==
    /\ Offering(c)
    /\ task[c].pc \notin FinalPcs
    /\ c \in owned
    /\ \/ c \notin connected /\ LagAndDetach(c, 0)
       \/ c \in connected /\ faults < MaxFaults /\ LagAndDetach(c, 1)

-----------------------------------------------------------------------------
(* The replay task: store replay of (lastSent, highWater]. *)

ReplayBehind(c) ==
    /\ task[c].pc \in {"replay", "final_replay"}
    /\ task[c].lastSent < task[c].highWater
    /\ c \in owned

(* One page of the store, whose length the byte budget may shorten.        *)
ReadPage(c) ==
    /\ ReplayBehind(c)
    /\ ~LagPending(c)
    /\ \E n \in 1..PageSize :
          /\ task[c].lastSent + n <= task[c].highWater
          /\ task' = [task EXCEPT
                ![c].pageEnd = task[c].lastSent + n,
                ![c].pc = IF @ = "replay" THEN "page" ELSE "final_page"]
    /\ UNCHANGED <<actorVars, hubVars, reg, chan, wire>>

(* The page is read, and discarded because the receiver lagged meanwhile.  *)
ReplayLagged(c) ==
    /\ ReplayBehind(c)
    /\ task[c].pc = "replay"
    /\ LagPending(c)
    /\ task' = [task EXCEPT ![c].pc = "reregister", ![c].inReplay = TRUE]
    /\ UNCHANGED <<actorVars, hubVars, reg, chan, wire>>

(* A failed read of the ordinary replay: the task detaches and completes.  *)
ReplayReadFailed(c) ==
    /\ ReplayBehind(c)
    /\ task[c].pc = "replay"
    /\ ~LagPending(c)
    /\ faults < MaxFaults
    /\ faults' = faults + 1
    /\ Disown(c)
    /\ Finish(c, IF drain = "serving" THEN "read_failed" ELSE "drain_read_failed")
    /\ UNCHANGED <<actorVars, drain, connected, suffixFailed, chan, wire>>

(* The cursor moves over one envelope of the page; after the last one the  *)
(* loop asks for the next page.                                            *)
AdvanceInPageToEnd(c) ==
    task' = [task EXCEPT
        ![c].lastSent = task[c].pageEnd,
        ![c].waiting = "no",
        ![c].pc = IF @ = "page" THEN "replay" ELSE "final_replay"]
AdvanceInPage(c) ==
    task' = [task EXCEPT
        ![c].lastSent = @ + 1,
        ![c].waiting = "no",
        ![c].pc = IF task[c].lastSent + 1 < task[c].pageEnd THEN @
                  ELSE IF @ = "page" THEN "replay" ELSE "final_replay"]

SkipsDelta(c) ==
    task[c].sealing /\ journal[task[c].lastSent + 1] = "delta"

(* Sealed replay leaves an item delta out and still moves the cursor.      *)
ReplaySkip(c) ==
    /\ task[c].pc \in {"page", "final_page"}
    /\ c \in owned
    /\ SkipsDelta(c)
    /\ wire' = [wire EXCEPT ![c].omitted = task[c].lastSent + 1]
    /\ AdvanceInPage(c)
    /\ UNCHANGED <<actorVars, hubVars, reg, chan>>

ReplayEvent(c) ==
    /\ task[c].pc \in {"page", "final_page"}
    /\ ~SkipsDelta(c)
    /\ Admits(c)
    /\ wire' = [wire EXCEPT ![c].lane = Append(@, Event(task[c].lastSent + 1))]
    /\ AdvanceInPage(c)
    /\ UNCHANGED <<actorVars, hubVars, reg, chan>>

(* AttachCaughtUp enters the lane.                                         *)
AnnounceFreshHead(c) ==
    /\ Offering(c)
    /\ Admits(c)
    /\ wire' = [wire EXCEPT ![c].lane = Append(@, CaughtUp(head)),
                            ![c].announced = head]
Announce(c) ==
    /\ Offering(c)
    /\ Admits(c)
    /\ wire' = [wire EXCEPT
          ![c].lane = Append(@, CaughtUp(task[c].highWater)),
          ![c].announced = task[c].highWater]

(* (after, H] is on the wire: announce H and turn to the channel.          *)
ReplayCaughtUp(c) ==
    /\ task[c].pc = "replay"
    /\ Announce(c)
    /\ task' = [task EXCEPT ![c].pc = "buffered", ![c].sealing = FALSE,
                            ![c].waiting = "no"]
    /\ UNCHANGED <<actorVars, hubVars, reg, chan>>

-----------------------------------------------------------------------------
(* The replay task: the catch-up channel. *)

(* credit_catch_up: a saturating refund.                                   *)
CreditTwice(bytes, weight) == bytes - 2 * weight
Credit(bytes, weight) == IF bytes < weight THEN 0 ELSE bytes - weight

(* One entry leaves the channel and its bytes are credited; a duplicate is *)
(* dropped, anything newer waits for admission.                            *)
Receive(c) ==
    /\ task[c].pc \in {"buffered", "live"}
    /\ c \in owned
    /\ chan[c].queue # <<>>
    /\ LET entry == Head(chan[c].queue)
           drops == \/ entry.seq <= task[c].lastSent
                    \/ /\ task[c].pc = "buffered"
                       /\ entry.seq <= task[c].highWater
       IN /\ chan' = [chan EXCEPT
                ![c].queue = Tail(@),
                ![c].bytes = Credit(@, entry.weight)]
          /\ task' = IF drops THEN task
                     ELSE [task EXCEPT
                        ![c].pending = entry.seq,
                        ![c].pc = IF @ = "buffered" THEN "buffered_deliver"
                                                    ELSE "live_deliver"]
    /\ UNCHANGED <<actorVars, hubVars, reg, wire>>

ChannelEvent(c) ==
    /\ task[c].pc \in {"buffered_deliver", "live_deliver"}
    /\ Admits(c)
    /\ wire' = [wire EXCEPT ![c].lane = Append(@, Event(task[c].pending))]
    /\ task' = [task EXCEPT
          ![c].lastSent = task[c].pending,
          ![c].waiting = "no",
          ![c].pc = IF @ = "buffered_deliver" THEN "buffered" ELSE "live"]
    /\ UNCHANGED <<actorVars, hubVars, reg, chan>>

(* Waiting on an empty channel.                                            *)
Drained(c) ==
    /\ task[c].pc \in {"buffered", "live"}
    /\ c \in owned
    /\ chan[c].queue = <<>>

(* The sender is alive: back to the store if the head moved past the       *)
(* cursor, else live.                                                      *)
GoLive(c) ==
    /\ Drained(c)
    /\ task[c].pc = "buffered"
    /\ reg[c].present
    /\ task' = [task EXCEPT ![c].pc =
          IF task[c].highWater > task[c].lastSent THEN "replay" ELSE "live"]
    /\ UNCHANGED <<actorVars, hubVars, reg, chan, wire>>

(* The lag arm of the live select.  The channel was empty when the events  *)
(* arm was polled; the actor may have filled it since, and what it then    *)
(* holds is dropped with it.                                               *)
LiveLagged(c) ==
    /\ task[c].pc = "live"
    /\ c \in owned
    /\ LagPending(c)
    /\ task' = [task EXCEPT ![c].pc = "reregister", ![c].inReplay = FALSE]
    /\ UNCHANGED <<actorVars, hubVars, reg, chan, wire>>

(* The sender is gone: a pending lag means a committed suffix is still     *)
(* owed from the store.                                                    *)
ChannelClosedIgnoringLag(c) ==
    /\ Drained(c)
    /\ ~reg[c].present
    /\ Finish(c, "complete")
    /\ UNCHANGED <<actorVars, hubVars, reg, chan, wire>>
ChannelClosed(c) ==
    /\ Drained(c)
    /\ ~reg[c].present
    /\ IF chan[c].lagged
       THEN task' = [task EXCEPT ![c].pc = "final", ![c].inReplay = FALSE]
       ELSE Finish(c, "complete")
    /\ UNCHANGED <<actorVars, hubVars, reg, chan, wire>>

(* The Reregister arm: fresh channel and watch, zero bytes, the current    *)
(* head as the new high water mark.                                        *)
ReregisterKeepingMark(c) ==
    /\ task[c].pc = "reregister"
    /\ actor = "idle"
    /\ reg[c].present
    /\ chan' = [chan EXCEPT ![c] = NoChan]
    /\ reg' = [reg EXCEPT ![c].lastBuffered = head, ![c].active = TRUE]
    /\ task' = [task EXCEPT ![c].pc = "replay"]
    /\ UNCHANGED <<actorVars, hubVars, wire>>
Reregister(c) ==
    /\ task[c].pc = "reregister"
    /\ actor = "idle"
    /\ reg[c].present
    /\ chan' = [chan EXCEPT ![c] = NoChan]
    /\ reg' = [reg EXCEPT ![c].lastBuffered = head, ![c].active = TRUE]
    /\ task' = [task EXCEPT ![c].pc = "replay", ![c].highWater = head]
    /\ UNCHANGED <<actorVars, hubVars, wire>>

(* The entry is gone, or the actor is and drops the reply.                 *)
ReregisterRefused(c) ==
    /\ task[c].pc = "reregister"
    /\ ~reg[c].present
    /\ task' = [task EXCEPT ![c].pc = "final"]
    /\ UNCHANGED <<actorVars, hubVars, reg, chan, wire>>

-----------------------------------------------------------------------------
(* The replay task: final_suffix_resume. *)

(* On success the store replay breaks out of the loop and detaches, the    *)
(* other callers return.                                                   *)
FinishFinal(c) ==
    /\ Finish(c, IF c \in owned THEN "complete" ELSE "detached")
    /\ IF task[c].inReplay THEN Disown(c) ELSE UNCHANGED <<owned, reg>>

(* latest_seq names the suffix that is owed, if any.                       *)
FinalHead(c) ==
    /\ task[c].pc = "final"
    /\ IF Len(journal) <= task[c].lastSent
       THEN FinishFinal(c)
       ELSE /\ task' = [task EXCEPT ![c].pc = "final_replay",
                                    ![c].highWater = Len(journal)]
            /\ UNCHANGED <<owned, reg>>
    /\ UNCHANGED <<actorVars, drain, connected, suffixFailed, faults, chan, wire>>

FinalCaughtUp(c) ==
    /\ task[c].pc = "final_replay"
    /\ Announce(c)
    /\ FinishFinal(c)
    /\ UNCHANGED <<actorVars, drain, connected, suffixFailed, faults, chan>>

(* A failed read, a refusal or a cancellation of the final suffix is       *)
(* reported to shutdown.                                                   *)
FinalSuffixFailed(c) ==
    /\ task[c].pc \in FinalPcs
    /\ \/ faults < MaxFaults /\ faults' = faults + 1
       \/ /\ task[c].pc # "final"
          /\ c \notin owned \/ (Offering(c) /\ c \notin connected)
          /\ UNCHANGED faults
    /\ Finish(c, IF drain = "serving" THEN "detached" ELSE "final_suffix_failed")
    /\ suffixFailed' = TRUE
    /\ UNCHANGED <<actorVars, drain, owned, connected, reg, chan, wire>>

(* A detach was observed: the task ends without another frame.             *)
Cancelled(c) ==
    /\ task[c].pc \in StreamPcs
    /\ c \notin owned
    /\ Finish(c, "detached")
    /\ UNCHANGED <<actorVars, hubVars, reg, chan, wire>>

-----------------------------------------------------------------------------
(* The connection and the client. *)

(* The writer pops the oldest frame and the client receives it.            *)
Deliver(c) ==
    /\ c \in connected
    /\ wire[c].lane # <<>>
    /\ LET frame == Head(wire[c].lane)
       IN wire' = [wire EXCEPT
            ![c].lane = Tail(@),
            ![c].named = @ \/ frame.kind = "response",
            ![c].seen = IF frame.kind = "event" THEN frame.seq ELSE @]
    /\ UNCHANGED <<actorVars, hubVars, reg, chan, task>>

(* session.detach, for an attachment the client has been told of.          *)
ClientDetach(c) ==
    /\ c \in connected \cap owned
    /\ task[c].pc \notin {"registered", "owned"}
    /\ ~ResponseStaged(c)
    /\ Disown(c)
    /\ wire' = [wire EXCEPT ![c].lane = <<>>]
    /\ UNCHANGED <<actorVars, drain, connected, suffixFailed, faults, chan, task>>

(* The outbox closes under the connection: the peer is gone or a required  *)
(* frame could not be delivered.                                           *)
Disconnect(c) ==
    /\ c \in connected
    /\ faults < MaxFaults
    /\ faults' = faults + 1
    /\ connected' = connected \ {c}
    /\ wire' = [wire EXCEPT ![c].lane = <<>>]
    /\ UNCHANGED <<actorVars, drain, owned, suffixFailed, reg, chan, task>>

(* HubConnection::close, which the connection loop reaches only after the  *)
(* request it was handling: the owners of the connection are swept.        *)
CloseConnection(c) ==
    /\ c \in owned \ connected
    /\ task[c].pc \notin {"registered", "owned"}
    /\ Disown(c)
    /\ UNCHANGED <<actorVars, drain, connected, suffixFailed, faults, chan, task,
                   wire>>

(* The client dials again once nothing of the old connection is left.      *)
Reconnect(c) ==
    /\ c \notin connected \cup owned
    /\ task[c].pc = "done"
    /\ drain = "serving"
    /\ connected' = connected \cup {c}
    /\ UNCHANGED <<actorVars, drain, owned, suffixFailed, faults, reg, chan,
                   task, wire>>

-----------------------------------------------------------------------------
(* Shutdown and restart. *)

BeginDraining ==
    /\ drain = "serving"
    /\ faults < MaxFaults
    /\ faults' = faults + 1
    /\ drain' = "draining"
    /\ UNCHANGED <<actorVars, owned, connected, suffixFailed, reg, chan, task, wire>>

(* Stop is reached behind everything already queued; the actor's map, and  *)
(* with it every sender, is dropped.                                       *)
StopActorKeepingSenders ==
    /\ drain = "draining"
    /\ actor = "idle"
    /\ actor' = "stopped"
    /\ UNCHANGED <<journal, head, batchWeight, hubVars, reg, chan, task, wire>>
StopActor ==
    /\ drain = "draining"
    /\ actor = "idle"
    /\ actor' = "stopped"
    /\ reg' = [c \in Clients |-> NoReg]
    /\ UNCHANGED <<journal, head, batchWeight, hubVars, chan, task, wire>>

(* Every replay task has been joined: the outcome is Forced if one of them *)
(* reported a failed final suffix, and ownership is swept.                 *)
JoinReplays ==
    /\ drain = "draining"
    /\ actor = "stopped"
    /\ \A c \in Clients : task[c].pc \notin RunningPcs
    /\ drain' = IF suffixFailed THEN "forced" ELSE "graceful"
    /\ owned' = {}
    /\ UNCHANGED <<actorVars, connected, suffixFailed, faults, reg, chan, task, wire>>

(* The drain deadline passes, or the process dies: every task is aborted   *)
(* where it stands and a committed batch may stay unpublished.             *)
ForceStop ==
    /\ drain \in {"serving", "draining"}
    /\ faults < MaxFaults
    /\ faults' = faults + 1
    /\ drain' = "forced"
    /\ actor' = "stopped"
    /\ reg' = [c \in Clients |-> NoReg]
    /\ task' = [c \in Clients |-> IF task[c].pc = "done" THEN task[c]
                  ELSE [task[c] EXCEPT !.pc = "done", !.waiting = "no",
                                       !.outcome = "aborted"]]
    /\ owned' = {}
    /\ UNCHANGED <<journal, head, batchWeight, connected, suffixFailed, chan, wire>>

(* The next daemon opens the session at its durable head; no connection    *)
(* survives.                                                               *)
Restart ==
    /\ drain \in {"graceful", "forced"}
    /\ drain' = "serving"
    /\ actor' = "idle"
    /\ head' = Len(journal)
    /\ connected' = {}
    /\ owned' = {}
    /\ suffixFailed' = FALSE
    /\ task' = [c \in Clients |-> NoTask]
    /\ wire' = [c \in Clients |-> [wire[c] EXCEPT !.lane = <<>>]]
    /\ UNCHANGED <<journal, batchWeight, faults, reg, chan>>

-----------------------------------------------------------------------------
TaskStep(c) ==
    \/ InsertOwner(c) \/ StageAndSpawn(c) \/ StageRefused(c) \/ AttachFailed(c)
    \/ Busy(c) \/ Stuck(c) \/ Refused(c)
    \/ ReadPage(c) \/ ReplayLagged(c) \/ ReplayReadFailed(c)
    \/ ReplaySkip(c) \/ ReplayEvent(c) \/ ReplayCaughtUp(c)
    \/ Receive(c) \/ ChannelEvent(c) \/ GoLive(c) \/ LiveLagged(c)
    \/ ChannelClosed(c) \/ Reregister(c) \/ ReregisterRefused(c)
    \/ FinalHead(c) \/ FinalCaughtUp(c) \/ FinalSuffixFailed(c)
    \/ Cancelled(c)

ActorStep ==
    \/ \E n \in 1..MaxBatch : \E kinds \in [1..n -> Kinds], w \in Weights :
          CommitBatch(kinds, w)
    \/ Publish
    \/ \E c \in Clients : ActorDetach(c)

ClientStep(c) ==
    \/ \E after \in 0..head, sealed \in BOOLEAN : Register(c, after, sealed)
    \/ Deliver(c) \/ ClientDetach(c)
    \/ Disconnect(c) \/ CloseConnection(c) \/ Reconnect(c)

HubStep == BeginDraining \/ StopActor \/ JoinReplays \/ ForceStop \/ Restart

Next ==
    \/ ActorStep
    \/ HubStep
    \/ \E c \in Clients : TaskStep(c) \/ ClientStep(c)

Spec == Init /\ [][Next]_vars

(***************************************************************************)
(* Fairness.  The tokio runtime keeps polling the actor and every replay   *)
(* task, the shutdown future keeps joining, and a connected client keeps   *)
(* reading: the daemon closes one that does not (connection.rs closes a    *)
(* connection whose writes make no progress).  Commits, detaches,          *)
(* disconnects and the start of a drain are never forced to happen.        *)
(***************************************************************************)
Fairness ==
    /\ WF_vars(Publish)
    /\ WF_vars(StopActor)
    /\ WF_vars(JoinReplays)
    /\ \A c \in Clients :
          /\ WF_vars(TaskStep(c))
          /\ WF_vars(Deliver(c))
          /\ WF_vars(ActorDetach(c))
          /\ WF_vars(CloseConnection(c))

FairSpec == Spec /\ Fairness

-----------------------------------------------------------------------------
(* Properties. *)

RegType  == [present : BOOLEAN, active : BOOLEAN, lastBuffered : Nat,
             detaching : BOOLEAN]
ChanType == [queue : Seq([seq : Nat, weight : Nat]), bytes : Nat,
             lagged : BOOLEAN]
TaskType == [pc : Pcs, lastSent : Nat, highWater : Nat, sealing : BOOLEAN,
             pageEnd : Nat, pending : Nat, inReplay : BOOLEAN,
             waiting : {"no", "lag_open", "lag_closed"}, outcome : Outcomes]
WireType == [lane : Seq(Frames), named : BOOLEAN, seen : Nat,
             initialHigh : Nat, announced : Nat, omitted : Nat]

(* Types of every variable.                                                *)
TypeOK ==
    /\ journal \in Seq(Kinds)
    /\ head \in Nat
    /\ actor \in {"idle", "publishing", "stopped"}
    /\ batchWeight \in Nat
    /\ drain \in {"serving", "draining", "graceful", "forced"}
    /\ owned \subseteq Clients
    /\ connected \subseteq Clients
    /\ suffixFailed \in BOOLEAN
    /\ faults \in Nat
    /\ reg  \in [Clients -> RegType]
    /\ chan \in [Clients -> ChanType]
    /\ task \in [Clients -> TaskType]
    /\ wire \in [Clients -> WireType]

(* The attachment still owns its stream and its connection is open.        *)
Streaming(c) == c \in owned \cap connected /\ task[c].pc \in RunningPcs

InLane(c, s, upTo) ==
    \E i \in 1..upTo : wire[c].lane[i] = Event(s)

(* An envelope sealed replay left out.                                     *)
Omitted(c, s) == s <= wire[c].omitted /\ journal[s] = "delta"

(* Nothing is lost or reordered between the cursor of a streaming replay   *)
(* task and its client: every envelope past the last one the client        *)
(* received, up to the task's cursor, is in the lane (or was left out by   *)
(* sealed replay), and the lane's events are strictly increasing and newer *)
(* than anything received, so none is sent twice.                          *)
StreamContiguous ==
    \A c \in Clients : Streaming(c) =>
      /\ \A s \in (wire[c].seen + 1)..task[c].lastSent :
            InLane(c, s, Len(wire[c].lane)) \/ Omitted(c, s)
      /\ \A i, j \in 1..Len(wire[c].lane) :
            /\ wire[c].lane[i].kind = "event"
            /\ wire[c].lane[j].kind = "event"
            => /\ wire[c].lane[i].seq \in (wire[c].seen + 1)..task[c].lastSent
               /\ i < j => wire[c].lane[i].seq < wire[c].lane[j].seq

(* AttachCaughtUp(h) means delivery is complete through h: every envelope  *)
(* up to h that the client lacks is ahead of the marker in the lane.       *)
CaughtUpIsComplete ==
    \A c \in Clients : \A i \in 1..Len(wire[c].lane) :
      wire[c].lane[i].kind = "caught_up" =>
        \A s \in (wire[c].seen + 1)..wire[c].lane[i].seq :
          InLane(c, s, i - 1) \/ Omitted(c, s)

(* The high water marks announced on one attachment strictly increase,     *)
(* however often the receiver lags and re-registers.                       *)
CaughtUpIncreases ==
    [][\A c \in Clients :
         wire'[c].lane = Append(wire[c].lane, CaughtUp(wire'[c].announced))
           => wire'[c].announced > wire[c].announced]_vars

(* No commit is stranded between the store replay and the channel: while   *)
(* an attachment streams and has not lagged, every published envelope      *)
(* past its cursor will be read from the store, is queued, or is in hand.  *)
NothingStranded ==
    \A c \in Clients :
      (task[c].pc \in StreamPcs /\ reg[c].present /\ ~chan[c].lagged) =>
        \A s \in (task[c].lastSent + 1)..head :
          \/ s <= task[c].highWater
          \/ s = task[c].pending
          \/ \E i \in 1..Len(chan[c].queue) : chan[c].queue[i].seq = s

(* The unknown-id rule of lag_and_detach: no event, no AttachCaughtUp and  *)
(* no Lagged of an attachment is on its way to a client that has not been  *)
(* given the response which names the attachment.                          *)
UnknownIdRule ==
    \A c \in Clients : \A i \in 1..Len(wire[c].lane) :
      wire[c].lane[i].kind \in {"event", "caught_up", "lagged"} => wire[c].named

(* The bytes reserved by the entries of a channel, one element a byte.     *)
ReservedBytes(queue) == UNION {{i} \X (1..queue[i].weight) : i \in DOMAIN queue}

(* The catch-up byte ledger and the channel it accounts for: the ledger is *)
(* exactly the weight still queued, through partial batches, overflows and *)
(* re-registrations, so it neither leaks nor refunds a byte twice, and     *)
(* neither limit is exceeded.                                              *)
LedgerExact ==
    \A c \in Clients :
      /\ chan[c].bytes = Cardinality(ReservedBytes(chan[c].queue))
      /\ chan[c].bytes <= ByteBudget
      /\ Len(chan[c].queue) <= CatchUpCapacity

(* The final broadcast: after a graceful shutdown every replay task that   *)
(* ran to completion has put the whole journal into its outbox, the        *)
(* overflowed suffix included.                                             *)
GracefulIsComplete ==
    drain = "graceful" =>
      \A c \in Clients :
        task[c].outcome = "complete" => task[c].lastSent = Len(journal)

(* A final suffix that failed during the drain forces the outcome, however *)
(* many other attachments the drain joins: nothing that is spawned or      *)
(* reaped meanwhile can make shutdown forget the report.                   *)
SuffixFailureForces ==
    drain = "graceful" =>
      \A c \in Clients : task[c].outcome # "final_suffix_failed"

(* DELIVERED-OR-FORCED as the comment on shutdown() states it: a graceful  *)
(* outcome means that no replay task of the drain failed to read the       *)
(* durable suffix it still owed.                                           *)
DeliveredOrForced ==
    drain = "graceful" =>
      \A c \in Clients :
        task[c].outcome = "drain_read_failed" => task[c].lastSent = Len(journal)

(* Sealed replay omits item deltas of the initial replay only, up to the   *)
(* replay_through_seq the attach response announced.  The code does not    *)
(* keep this for a receiver that lags during its sealed replay.            *)
SealedIsInitialOnly ==
    \A c \in Clients : wire[c].omitted <= wire[c].initialHigh

(* Every committed envelope reaches a client that stays attached and       *)
(* connected, or was left out for it by sealed replay.                     *)
EveryCommitArrives ==
    \A c \in Clients, s \in 1..MaxSeq :
      (c \in owned /\ s <= Len(journal)) ~>
        \/ wire[c].seen >= s \/ wire[c].omitted >= s
        \/ c \notin owned \cap connected

(* A drain that begins ends, gracefully or by force: the shutdown future   *)
(* never waits forever for a replay task that waits for its outbox.        *)
DrainEnds == drain = "draining" ~> drain \in {"graceful", "forced"}

=============================================================================
