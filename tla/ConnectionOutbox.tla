-------------------------- MODULE ConnectionOutbox --------------------------
(***************************************************************************)
(* One client connection of the daemon: the bounded fair outbox            *)
(* (OutboundLane), the writer task that drains it (run_writer), the        *)
(* connection task that reads requests and pushes replies                  *)
(* (serve_io_with_peer_exit) and the tasks that offer stream frames to it  *)
(* (deliver_prepared_frame, deliver_ordered_frame).                        *)
(*                                                                         *)
(* A frame is its kind, the stream it belongs to and its charged bytes.    *)
(* Every method of OutboundLane runs under one mutex, so each is an        *)
(* operator from an outbox to an outbox and one step of whoever calls it.  *)
(* A stream is one attachment, monitor watch or Loom registry watch; it is *)
(* opened at most once (ids are random and never reused).                  *)
(***************************************************************************)
EXTENDS Naturals, Sequences, FiniteSets, SequencesExt

CONSTANTS
    Attachments,    \* attachment streams: owned by the hub, gated by their response
    Monitors,       \* monitor watches: ordered, announced on the reply lane
    Looms,          \* Loom registry watches: ordered, baseline sent by the handler
    System,         \* LaneKey::System, the lane of the replies
    Nobody,         \* no stream
    FrameCapacity,  \* outbound_queue_capacity
    ByteBudget,     \* outbound_queued_bytes
    FloorAllowance, \* frame_limit + 4
    EventSizes,     \* charged sizes of stream frames
    ReplySizes,     \* charged sizes of replies
    MaxReplies,     \* bound: plain requests and notices
    WriteFaults     \* whether a write may fail or outlive its deadline

ASSUME OutboxAssumption ==
    /\ System \notin Attachments \cup Monitors \cup Looms
    /\ Nobody \notin Attachments \cup Monitors \cup Looms \cup {System}
    /\ Attachments \cap (Monitors \cup Looms) = {}
    /\ Monitors \cap Looms = {}
    /\ FrameCapacity \in Nat
    /\ ByteBudget \in Nat
    /\ FloorAllowance \in Nat
    /\ EventSizes \subseteq Nat \ {0}
    /\ ReplySizes \subseteq Nat \ {0}
    /\ MaxReplies \in Nat
    /\ WriteFaults \in BOOLEAN

VARIABLES
    box,     \* OutboundState, with the permits stored in the tickets' Notify
    task,    \* who delivers the frames of each stream
    owned,   \* attachments in the hub's owner maps
    stopped, \* watches whose cancel flag is set
    conn,    \* the connection task
    reserve, \* the channel of the reserved ServerDraining notice
    writer,  \* the writer task
    named,   \* history: streams whose naming reply has left the queue
    owed     \* history: attachments whose attach request is unanswered

vars == <<box, task, owned, stopped, conn, reserve, writer, named, owed>>

(* A definition followed by the one it varies is a seeded fault: nothing   *)
(* uses it, it only serves to show that a property notices that mistake.   *)

Ordered == Monitors \cup Looms
Streams == Attachments \cup Ordered
Lanes   == Streams \cup {System}

(***************************************************************************)
(* Frames.  "error" is a protocol error sent before the handshake and      *)
(* "welcome" the Welcome: both are JSON, everything after the handshake is *)
(* in the negotiated encoding.  "response" is a staged attach response     *)
(* (response_for), "overloaded" the correlated error that replaces one and *)
(* "watching" the reply that names a monitor watch.                        *)
(***************************************************************************)
Frame(kind, of, n) == [kind |-> kind, of |-> of, size |-> n, floor |-> FALSE]
NoFrame   == Frame("none", Nobody, 0)
Packed(f) == f.kind \notin {"none", "error", "welcome"}
Kinds     == {"none", "error", "welcome", "reply", "response", "overloaded",
              "watching", "event"}

PerLaneCapacity ==
    LET half == (FrameCapacity + 1) \div 2 IN IF half = 0 THEN 1 ELSE half

(* saturating_sub *)
Minus(a, b)   == IF a - b \in 0 .. a THEN a - b ELSE 0

(* A sum of natural numbers, by counting its units one by one. *)
Total(f)      == Cardinality(UNION {{k} \X (1 .. f[k]) : k \in DOMAIN f})
Bytes(frames) == Total([i \in DOMAIN frames |-> frames[i].size])

EmptyBox ==
    [lanes |-> [k \in Lanes |-> <<>>], ring |-> <<>>, floor |-> <<>>,
     frames |-> 0, bytes |-> 0, floorInUse |-> 0, welcomeQueued |-> FALSE,
     pending |-> {}, tickets |-> <<>>, fired |-> {}, closed |-> FALSE]

-----------------------------------------------------------------------------
(* Admission tickets. *)

(* fire_one_ticket.  A holder always cancels before its ticket dies (the   *)
(* AdmissionTicketGuard), so there are no dead tickets to prune.           *)
Fire(b) ==
    IF b.tickets = <<>> THEN b ELSE [b EXCEPT !.fired = @ \cup {Head(b.tickets)}]

FireIfRoom(b) ==
    IF b.frames < FrameCapacity /\ b.bytes < ByteBudget THEN Fire(b) ELSE b

IsHead(b, s) == b.tickets # <<>> /\ Head(b.tickets) = s

(* The ticket and the permit stored in it go together. *)
DropTicket(b, s) ==
    [b EXCEPT !.tickets = RemoveFirst(@, s), !.fired = @ \ {s}]

DrainTicket(b, s) ==
    IF b.closed
    THEN [b EXCEPT !.fired = @ \cup {s}]
    ELSE [b EXCEPT !.tickets = Append(@, s)]

CancelSilently(b, s) == DropTicket(b, s)

CancelTicket(b, s) ==
    IF IsHead(b, s) THEN FireIfRoom(DropTicket(b, s)) ELSE DropTicket(b, s)

-----------------------------------------------------------------------------
(* Admission of frames. *)

OrdinaryAdmits(b, k, n) ==
    /\ b.frames < FrameCapacity
    /\ Len(b.lanes[k]) < PerLaneCapacity
    /\ b.bytes + n <= ByteBudget

FitsUngated(b, s, n) == OrdinaryAdmits(b, s, n)

(* An attachment whose staged response is still queued is never served. *)
Fits(b, s, n) == s \notin b.pending /\ OrdinaryAdmits(b, s, n)

Enqueue(b, k, f) ==
    [b EXCEPT !.lanes[k] = Append(@, f),
              !.ring = IF b.lanes[k] = <<>> THEN Append(@, k) ELSE @,
              !.frames = @ + 1,
              !.bytes = @ + f.size]

MayAdmit(b, s, ticketed) == b.tickets = <<>> \/ (ticketed /\ IsHead(b, s))

(* What an admitted offer leaves behind. *)
Offered(b, s, n) == FireIfRoom(Enqueue(DropTicket(b, s), s, Frame("event", s, n)))

FloorAdmits(b, n) == b.floorInUse = 0 /\ n <= FloorAllowance

Marked(b, f) ==
    [b EXCEPT !.welcomeQueued = @ \/ f.kind = "welcome",
              !.pending = IF f.kind = "response" THEN @ \cup {f.of} ELSE @]

Admits(b, n, floor) ==
    ~b.closed /\ (OrdinaryAdmits(b, System, n) \/ (floor /\ FloorAdmits(b, n)))

(* try_push_with_floor, where Admits: replies ride the System lane, or the *)
(* reserved floor when the ordinary bounds are taken.                      *)
Push(b, f) ==
    IF OrdinaryAdmits(b, System, f.size)
    THEN Enqueue(Marked(b, f), System, f)
    ELSE [Marked(b, f) EXCEPT !.floor = Append(@, [f EXCEPT !.floor = TRUE]),
                              !.floorInUse = 1]

-----------------------------------------------------------------------------
(* Service: recv, credit, purge and close. *)

HoldsWelcome(frames) == \E i \in DOMAIN frames : frames[i].kind = "welcome"

(* While the Welcome is queued only its own lane advances; otherwise the   *)
(* floor goes before the ring.                                             *)
FromFloor(b) ==
    b.floor # <<>> /\ (b.welcomeQueued => Head(b.floor).kind = "welcome")
FromLane(b, k) ==
    /\ ~FromFloor(b)
    /\ IF b.welcomeQueued THEN HoldsWelcome(b.lanes[k])
                          ELSE b.ring # <<>> /\ k = Head(b.ring)
Exhausted(b) == ~FromFloor(b) /\ \A k \in Lanes : ~FromLane(b, k)

PopLaneCrediting(b, k) ==
    [b EXCEPT !.lanes[k] = Tail(@),
              !.ring = IF Len(b.lanes[k]) > 1 THEN Append(RemoveFirst(@, k), k) ELSE RemoveFirst(@, k),
              !.frames = Minus(@, 1),
              !.bytes = Minus(@, Head(b.lanes[k]).size)]

PopLane(b, k) ==
    [b EXCEPT !.lanes[k] = Tail(@),
              !.ring = IF Len(b.lanes[k]) > 1 THEN Append(RemoveFirst(@, k), k) ELSE RemoveFirst(@, k),
              !.frames = Minus(@, 1)]

FinishPopKeepingMarker(b, f) ==
    Fire([b EXCEPT !.welcomeQueued = @ /\ f.kind # "welcome"])

FinishPop(b, f) ==
    Fire([b EXCEPT !.pending = IF f.kind = "response" THEN @ \ {f.of} ELSE @,
                   !.welcomeQueued = @ /\ f.kind # "welcome"])

CreditSilently(b, f) ==
    IF f.floor THEN [b EXCEPT !.floorInUse = 0]
               ELSE [b EXCEPT !.bytes = Minus(@, f.size)]

Credit(b, f) ==
    Fire(IF f.floor THEN [b EXCEPT !.floorInUse = 0]
                    ELSE [b EXCEPT !.bytes = Minus(@, f.size)])

WithoutLaneInRing(b, s) ==
    [b EXCEPT !.lanes[s] = <<>>,
              !.frames = Minus(@, Len(b.lanes[s])),
              !.bytes = Minus(@, Bytes(b.lanes[s]))]

WithoutLane(b, s) ==
    [b EXCEPT !.lanes[s] = <<>>,
              !.ring = RemoveFirst(@, s),
              !.frames = Minus(@, Len(b.lanes[s])),
              !.bytes = Minus(@, Bytes(b.lanes[s]))]

Staged(f, a) == f.kind = "response" /\ f.of = a
Unstaged(frames, a) == RemoveFirstMatch(frames, LAMBDA f : Staged(f, a))
StagedQueued(b, a) ==
    \/ \E i \in DOMAIN b.lanes[System] : Staged(b.lanes[System][i], a)
    \/ \E i \in DOMAIN b.floor : Staged(b.floor[i], a)

SpliceUnrefunded(b, a) ==
    LET kept == Unstaged(b.lanes[System], a)
    IN  [b EXCEPT !.lanes[System] = kept,
                  !.ring = IF kept = <<>> THEN RemoveFirst(@, System) ELSE @,
                  !.frames = Minus(@, Len(b.lanes[System]) - Len(kept)),
                  !.floor = Unstaged(@, a),
                  !.floorInUse = IF \E i \in DOMAIN b.floor : Staged(b.floor[i], a)
                                 THEN 0 ELSE @]

(* splice_staged_response: the response, of which there is one, may be on  *)
(* the System lane or on the floor.                                        *)
Splice(b, a) ==
    LET kept == Unstaged(b.lanes[System], a)
    IN  [b EXCEPT !.lanes[System] = kept,
                  !.ring = IF kept = <<>> THEN RemoveFirst(@, System) ELSE @,
                  !.frames = Minus(@, Len(b.lanes[System]) - Len(kept)),
                  !.bytes = Minus(@, Minus(Bytes(b.lanes[System]), Bytes(kept))),
                  !.floor = Unstaged(@, a),
                  !.floorInUse = IF \E i \in DOMAIN b.floor : Staged(b.floor[i], a)
                                 THEN 0 ELSE @]

(* purge: one firing however much was removed, none when nothing was. *)
Purge(b, a) ==
    LET cleared == WithoutLane(b, a)
        spliced == IF a \in b.pending
                   THEN Splice([cleared EXCEPT !.pending = @ \ {a}], a)
                   ELSE cleared
    IN  IF b.lanes[a] # <<>> \/ (a \in b.pending /\ StagedQueued(b, a))
        THEN Fire(spliced) ELSE spliced

PurgeOrdered(b, s) ==
    IF b.lanes[s] = <<>> THEN b ELSE FireIfRoom(WithoutLane(b, s))

Close(b) ==
    [b EXCEPT !.closed = TRUE, !.fired = @ \cup ToSet(b.tickets), !.tickets = <<>>]

HasBacklogQueued(b) == b.frames > 0 \/ b.floorInUse > 0
HasBacklog(b) == b.frames > 0 \/ b.bytes > 0 \/ b.floorInUse > 0

-----------------------------------------------------------------------------
(***************************************************************************)
(* State.  A stream's task is "none" before the stream is opened, "idle"   *)
(* between frames, "busy" after a Busy answer, "confirm" with a ticket and *)
(* about to re-offer, "waiting" on its ticket; "leaving", "purging" and    *)
(* "telling" are lag_and_detach, "gone" is the end.  The handler of the    *)
(* connection task (at, of) is "read" when it waits in its select loop;    *)
(* otherwise it is inside the request of stream `of`.                      *)
(***************************************************************************)
TaskPcs  == {"none", "idle", "busy", "confirm", "waiting", "leaving", "purging",
             "telling", "gone"}
ConnPcs  == {"hello", "open", "left", "detached", "closed"}
Handlers == {"read", "detach", "answer", "replace", "watch", "baseline"}
WriterPcs == {"look", "select", "lanes", "writing", "fire", "notice", "final",
              "farewell", "ended"}

FrameSet ==
    {f \in [kind : Kinds, of : Lanes \cup {Nobody}, size : Nat, floor : BOOLEAN] :
       /\ f.kind = "response" => f.of \in Attachments
       /\ f.kind = "watching" => f.of \in Monitors
       /\ f.kind = "event" => f.of \in Streams}
Queues   == Seq(FrameSet)
LaneMaps == [Lanes -> Queues]
Rings    == Seq(Lanes)
Tickets  == Seq(Streams)
BoxType ==
    [lanes : LaneMaps, ring : Rings, floor : Queues, frames : Nat, bytes : Nat,
     floorInUse : Nat, welcomeQueued : BOOLEAN, pending : SUBSET Attachments,
     tickets : Tickets, fired : SUBSET Streams, closed : BOOLEAN]
TaskType == [pc : TaskPcs, size : Nat]
ConnType == [pc : ConnPcs, at : Handlers, of : Streams \cup {Nobody},
             welcomed : BOOLEAN, failed : BOOLEAN,
             slot : Monitors \cup {Nobody}, replies : Nat]
ReserveType == [full : BOOLEAN, open : BOOLEAN]
WriterType == [pc : WriterPcs, frame : FrameSet, welcomeWritten : BOOLEAN,
               notice : {"none", "held", "written"}, reserveOpen : BOOLEAN]

Init ==
    /\ box = EmptyBox
    /\ task = [s \in Streams |-> [pc |-> "none", size |-> 0]]
    /\ owned = {}
    /\ stopped = {}
    /\ conn = [pc |-> "hello", at |-> "read", of |-> Nobody, welcomed |-> FALSE,
               failed |-> FALSE, slot |-> Nobody, replies |-> 0]
    /\ reserve = [full |-> FALSE, open |-> TRUE]
    /\ writer = [pc |-> "look", frame |-> NoFrame, welcomeWritten |-> FALSE,
                 notice |-> "none", reserveOpen |-> TRUE]
    /\ named = {}
    /\ owed = {}

-----------------------------------------------------------------------------
(* The tasks that deliver the frames of a stream. *)

Cancelled(s) == IF s \in Attachments THEN s \notin owned ELSE s \in stopped

(* The frame being delivered is forgotten when its delivery ends. *)
Move(s, pc) ==
    task' = [task EXCEPT ![s] = [pc |-> pc,
                size |-> IF pc \in {"confirm", "waiting"} THEN @.size ELSE 0]]

RefusesIfClosed(s) == box.closed

(* A closed outbox refuses; so does the hub for an attachment it no longer *)
(* owns, under the lock that detach takes to remove the owner.             *)
Refuses(s) == box.closed \/ (s \in Attachments /\ s \notin owned)
Sends(s, n, ticketed) ==
    ~Refuses(s) /\ MayAdmit(box, s, ticketed) /\ Fits(box, s, n)
Delays(s, n, ticketed) ==
    ~Refuses(s) /\ ~(MayAdmit(box, s, ticketed) /\ Fits(box, s, n))

(* A delivered baseline ends the request that offered it, a refused one    *)
(* fails the connection.                                                   *)
HandlerDone(s, ok) ==
    conn' = IF conn.at = "baseline" /\ conn.of = s
            THEN [conn EXCEPT !.at = "read", !.of = Nobody,
                              !.failed = @ \/ ~ok, !.pc = IF ok THEN @ ELSE "left"]
            ELSE conn

(* A refused attachment frame lags and detaches; a refused record of an    *)
(* ordered stream closes the outbox (close_after_required_delivery_failure). *)
Rejected(s) ==
    /\ Refuses(s)
    /\ IF s \in Attachments
       THEN /\ box' = CancelTicket(box, s)
            /\ Move(s, "leaving")
            /\ UNCHANGED conn
       ELSE /\ box' = Close(CancelTicket(box, s))
            /\ Move(s, "gone")
            /\ HandlerDone(s, FALSE)
    /\ UNCHANGED <<owned, stopped, reserve, writer, named, owed>>

(* The first, ticketless offer of a frame of n bytes. *)
Produce(s, n) ==
    /\ task[s].pc = "idle"
    /\ ~Cancelled(s)
    /\ \/ /\ Sends(s, n, FALSE)
          /\ box' = Offered(box, s, n)
          /\ UNCHANGED <<task, owned, stopped, conn, reserve, writer, named, owed>>
       \/ /\ Delays(s, n, FALSE)
          /\ task' = [task EXCEPT ![s] = [pc |-> "busy", size |-> n]]
          /\ UNCHANGED <<box, owned, stopped, conn, reserve, writer, named, owed>>
       \/ Rejected(s)

TakeTicket(s) ==
    /\ task[s].pc = "busy"
    /\ box' = DrainTicket(box, s)
    /\ Move(s, "confirm")
    /\ UNCHANGED <<owned, stopped, conn, reserve, writer, named, owed>>

Reoffer(s) ==
    /\ task[s].pc = "confirm"
    /\ \/ /\ Sends(s, task[s].size, TRUE)
          /\ box' = Offered(box, s, task[s].size)
          /\ Move(s, "idle")
          /\ HandlerDone(s, TRUE)
          /\ UNCHANGED <<owned, stopped, reserve, writer, named, owed>>
       \/ /\ Delays(s, task[s].size, TRUE)
          /\ Move(s, "waiting")
          /\ UNCHANGED <<box, owned, stopped, conn, reserve, writer, named, owed>>
       \/ Rejected(s)

(* The select of an attachment's delivery is biased towards its cancel. *)
Wake(s) ==
    /\ task[s].pc = "waiting"
    /\ s \in box.fired
    /\ s \in Attachments => ~Cancelled(s)
    /\ box' = [box EXCEPT !.fired = @ \ {s}]
    /\ Move(s, "confirm")
    /\ UNCHANGED <<owned, stopped, conn, reserve, writer, named, owed>>

StopWaiting(s) ==
    /\ task[s].pc \in {"idle", "waiting"}
    /\ Cancelled(s)
    /\ box' = CancelTicket(box, s)
    /\ Move(s, "gone")
    /\ HandlerDone(s, TRUE)
    /\ UNCHANGED <<owned, stopped, reserve, writer, named, owed>>

(* The replay task ends by itself (a failed read, a finished session): the *)
(* owner goes, the queued frames stay.                                     *)
TaskEnds(a) ==
    /\ a \in Attachments
    /\ task[a].pc = "idle"
    /\ a \in owned
    /\ owned' = owned \ {a}
    /\ Move(a, "gone")
    /\ UNCHANGED <<box, stopped, conn, reserve, writer, named, owed>>

StuckKeepingTicket(a) ==
    /\ a \in Attachments
    /\ task[a].pc = "waiting"
    /\ a \in owned
    /\ Move(a, "leaving")
    /\ UNCHANGED <<box, owned, stopped, conn, reserve, writer, named, owed>>

(* Commits overflow the catch-up channel while the sink is busy. *)
Stuck(a) ==
    /\ a \in Attachments
    /\ task[a].pc = "waiting"
    /\ a \in owned
    /\ box' = CancelTicket(box, a)
    /\ Move(a, "leaving")
    /\ UNCHANGED <<owned, stopped, conn, reserve, writer, named, owed>>

(* lag_and_detach: take the owner, purge the lane, tell the client. *)
LagTake(a) ==
    /\ task[a].pc = "leaving"
    /\ owned' = owned \ {a}
    /\ Move(a, IF a \in owned THEN "purging" ELSE "gone")
    /\ UNCHANGED <<box, stopped, conn, reserve, writer, named, owed>>

(* The size of a task that is leaving is no longer needed: 1 records that  *)
(* the purge reported a pending response.                                  *)
LagPurge(a) ==
    /\ task[a].pc = "purging"
    /\ box' = Purge(box, a)
    /\ task' = [task EXCEPT ![a] = [pc |-> "telling",
                                    size |-> IF a \in box.pending THEN 1 ELSE 0]]
    /\ UNCHANGED <<owned, stopped, conn, reserve, writer, named, owed>>

LagTell(a, n) ==
    /\ task[a].pc = "telling"
    /\ LET f == IF task[a].size = 1 THEN Frame("overloaded", a, n)
                                    ELSE Frame("reply", System, n)
       IN  box' = IF Admits(box, n, TRUE) THEN Push(box, f) ELSE box
    /\ Move(a, "gone")
    /\ UNCHANGED <<owned, stopped, conn, reserve, writer, named, owed>>

-----------------------------------------------------------------------------
(* The connection task: one request at a time, in its select loop. *)

Reading == conn.pc = "open" /\ conn.at = "read"

Leave(failed) ==
    conn' = [conn EXCEPT !.pc = "left", !.at = "read", !.of = Nobody,
                         !.failed = @ \/ failed]

MayAsk   == conn.replies < MaxReplies
Asked(c) == [c EXCEPT !.replies = @ + 1]

(* A refused reply is fatal to the connection. *)
Answer(f) ==
    /\ Admits(box, f.size, TRUE)
    /\ box' = Push(box, f)
    /\ conn' = [conn EXCEPT !.at = "read", !.of = Nobody]

Overflows(n) ==
    /\ ~Admits(box, n, TRUE)
    /\ Leave(TRUE)
    /\ UNCHANGED box

Hello(n) ==
    /\ conn.pc = "hello"
    /\ Admits(box, n, TRUE)
    /\ box' = Push(box, Frame("welcome", System, n))
    /\ conn' = [conn EXCEPT !.pc = "open", !.welcomed = TRUE]
    /\ UNCHANGED <<task, owned, stopped, reserve, writer, named, owed>>

(* Handshake timeout, a first frame that is no Hello, a rejected Hello. *)
HelloFails(n) ==
    /\ conn.pc = "hello"
    /\ box' = IF Admits(box, n, TRUE) THEN Push(box, Frame("error", System, n)) ELSE box
    /\ Leave(FALSE)
    /\ UNCHANGED <<task, owned, stopped, reserve, writer, named, owed>>

(* Any request that is answered by one reply; Pongs too. *)
Request(n) ==
    /\ Reading
    /\ MayAsk
    /\ \/ /\ Admits(box, n, TRUE)
          /\ box' = Push(box, Frame("reply", System, n))
          /\ conn' = Asked(conn)
       \/ Overflows(n)
    /\ UNCHANGED <<task, owned, stopped, reserve, writer, named, owed>>

(* session_attach: the response is staged, then the replay task spawned.   *)
(* A refused response detaches the attachment and fails the connection.    *)
Attach(a, n) ==
    /\ Reading
    /\ task[a].pc = "none"
    /\ \/ /\ Answer(Frame("response", a, n))
          /\ owned' = owned \cup {a}
          /\ owed' = owed \cup {a}
          /\ Move(a, "idle")
       \/ /\ Overflows(n)
          /\ UNCHANGED <<owned, owed, task>>
    /\ UNCHANGED <<stopped, reserve, writer, named>>

(* session_detach: take the owner, purge the lane, reply.  A client only   *)
(* knows an attachment whose response has reached it.                      *)
Detach(a) ==
    /\ Reading
    /\ a \in named \cap owned
    /\ owned' = owned \ {a}
    /\ conn' = [conn EXCEPT !.at = "detach", !.of = a]
    /\ UNCHANGED <<box, task, stopped, reserve, writer, named, owed>>

DetachPurge ==
    /\ conn.at = "detach"
    /\ box' = Purge(box, conn.of)
    /\ conn' = [conn EXCEPT !.at = "answer"]
    /\ UNCHANGED <<task, owned, stopped, reserve, writer, named, owed>>

DetachAnswer(n) ==
    /\ conn.at = "answer"
    /\ Answer(Frame("reply", System, n)) \/ Overflows(n)
    /\ UNCHANGED <<task, owned, stopped, reserve, writer, named, owed>>

(* monitor_watch: cancel and join the previous watch, purge its lane, name *)
(* the new one on the reply lane and spawn its task.                       *)
MonitorWatch(m) ==
    /\ Reading
    /\ task[m].pc = "none"
    /\ stopped' = stopped \cup ({conn.slot} \cap Monitors)
    /\ conn' = [conn EXCEPT !.of = m,
                            !.at = IF conn.slot = Nobody THEN "watch" ELSE "replace"]
    /\ UNCHANGED <<box, task, owned, reserve, writer, named, owed>>

ReplaceWatch ==
    /\ conn.at = "replace"
    /\ task[conn.slot].pc = "gone"
    /\ box' = PurgeOrdered(box, conn.slot)
    /\ conn' = [conn EXCEPT !.at = "watch", !.slot = Nobody]
    /\ UNCHANGED <<task, owned, stopped, reserve, writer, named, owed>>

OpenWatch(n) ==
    /\ conn.at = "watch"
    /\ \/ /\ Admits(box, n, TRUE)
          /\ box' = Push(box, Frame("watching", conn.of, n))
          /\ Move(conn.of, "idle")
          /\ conn' = [conn EXCEPT !.at = "read", !.of = Nobody, !.slot = conn.of]
       \/ Overflows(n) /\ UNCHANGED task
    /\ UNCHANGED <<owned, stopped, reserve, writer, named, owed>>

(* loom_watch: the handler itself delivers the baseline, the first record  *)
(* of the stream, and waits for its turn when the outbox is busy.          *)
LoomWatch(l, n) ==
    /\ Reading
    /\ task[l].pc = "none"
    /\ \/ /\ Sends(l, n, FALSE)
          /\ box' = Offered(box, l, n)
          /\ Move(l, "idle")
          /\ UNCHANGED conn
       \/ /\ Delays(l, n, FALSE)
          /\ task' = [task EXCEPT ![l] = [pc |-> "busy", size |-> n]]
          /\ conn' = [conn EXCEPT !.at = "baseline", !.of = l]
          /\ UNCHANGED box
       \/ /\ Refuses(l)
          /\ box' = Close(box)
          /\ Leave(TRUE)
          /\ Move(l, "gone")
    /\ UNCHANGED <<owned, stopped, reserve, writer, named, owed>>

(* A hub notice that may not use the floor; when it is refused the watcher *)
(* drops it or, if the client must have it, closes the outbox.             *)
Droppable(n) ==
    /\ conn.pc = "open"
    /\ MayAsk
    /\ box' \in IF Admits(box, n, FALSE) THEN {Push(box, Frame("reply", System, n))}
                                         ELSE {box, Close(box)}
    /\ conn' = Asked(conn)
    /\ UNCHANGED <<task, owned, stopped, reserve, writer, named, owed>>

(* The drain broadcast: the notice takes the reserved slot, the loop ends. *)
Drain ==
    /\ conn.pc \in {"hello", "open"}
    /\ conn.at = "read"
    /\ reserve' = [reserve EXCEPT !.full = TRUE]
    /\ Leave(FALSE)
    /\ UNCHANGED <<box, task, owned, stopped, writer, named, owed>>

(* End of file or the exit of the peer process; a failed read. *)
PeerGone ==
    /\ conn.pc \in {"hello", "open"}
    /\ conn.at = "read"
    /\ \E failed \in BOOLEAN : Leave(failed)
    /\ UNCHANGED <<box, task, owned, stopped, reserve, writer, named, owed>>

(* enqueue_fatal, best effort, and the end of the loop: after a frame that *)
(* cannot be decoded and for a peer that has sent nothing for too long.    *)
Retire(n) ==
    /\ Reading
    /\ box' = IF Admits(box, n, TRUE) THEN Push(box, Frame("reply", System, n)) ELSE box
    /\ Leave(FALSE)
    /\ UNCHANGED <<task, owned, stopped, reserve, writer, named, owed>>

BreachIfQueued(n) == HasBacklogQueued(box) /\ Retire(n)

(* liveness_breach on queued traffic that makes no progress. *)
Breach(n) == HasBacklog(box) /\ Retire(n)

HubCloseKeepingWatches ==
    /\ conn.pc = "left"
    /\ owned' = {}
    /\ stopped' = stopped
    /\ box' = IF conn.slot = Nobody THEN box ELSE PurgeOrdered(box, conn.slot)
    /\ conn' = [conn EXCEPT !.pc = "detached", !.slot = Nobody]
    /\ UNCHANGED <<task, reserve, writer, named, owed>>

(* HubConnection::close: every owner is taken and every watch cancelled;   *)
(* only the monitor watch has its lane purged.                             *)
HubClose ==
    /\ conn.pc = "left"
    /\ owned' = {}
    /\ stopped' = Ordered
    /\ box' = IF conn.slot = Nobody THEN box ELSE PurgeOrdered(box, conn.slot)
    /\ conn' = [conn EXCEPT !.pc = "detached", !.slot = Nobody]
    /\ UNCHANGED <<task, reserve, writer, named, owed>>

(* After a failure the writer is aborted with what it was writing. *)
CloseLane ==
    /\ conn.pc = "detached"
    /\ box' = Close(box)
    /\ reserve' = [reserve EXCEPT !.open = FALSE]
    /\ writer' = IF conn.failed THEN [writer EXCEPT !.pc = "ended", !.frame = NoFrame]
                                ELSE writer
    /\ conn' = [conn EXCEPT !.pc = "closed"]
    /\ UNCHANGED <<task, owned, stopped, named, owed>>

-----------------------------------------------------------------------------
(* The writer task. *)

WelcomeBarrier == ~writer.welcomeWritten /\ box.welcomeQueued

Look ==
    /\ writer.pc = "look"
    /\ writer' = [writer EXCEPT !.pc =
                    IF writer.reserveOpen /\ writer.notice # "written" /\ ~WelcomeBarrier
                    THEN "select" ELSE "lanes"]
    /\ UNCHANGED <<box, task, owned, stopped, conn, reserve, named, owed>>

(* The select is biased: the reserved notice goes before the lanes. *)
SelectNotice ==
    /\ writer.pc = "select"
    /\ reserve.full
    /\ reserve' = [reserve EXCEPT !.full = FALSE]
    /\ writer' = [writer EXCEPT !.reserveOpen = FALSE, !.notice = "held", !.pc = "fire"]
    /\ UNCHANGED <<box, task, owned, stopped, conn, named, owed>>

SelectClosed ==
    /\ writer.pc = "select"
    /\ ~reserve.full /\ ~reserve.open
    /\ writer' = [writer EXCEPT !.reserveOpen = FALSE, !.pc = "lanes"]
    /\ UNCHANGED <<box, task, owned, stopped, conn, reserve, named, owed>>

Receiving ==
    \/ writer.pc = "lanes"
    \/ writer.pc = "select" /\ ~reserve.full /\ reserve.open

(* recv hands a frame to the writer; from here it is on its way out. *)
Popped(b, f) ==
    /\ box' = FinishPop(b, f)
    /\ writer' = [writer EXCEPT !.pc = "writing", !.frame = f]
    /\ named' = IF f.kind \in {"response", "watching"} THEN named \cup {f.of} ELSE named
    /\ owed' = IF f.kind \in {"response", "overloaded"} THEN owed \ {f.of} ELSE owed
    /\ UNCHANGED <<task, owned, stopped, conn, reserve>>

Recv ==
    /\ Receiving
    /\ \/ FromFloor(box) /\ Popped([box EXCEPT !.floor = Tail(@)], Head(box.floor))
       \/ \E k \in Lanes : FromLane(box, k) /\ Popped(PopLane(box, k), Head(box.lanes[k]))

(* A Welcome marker without a Welcome fails closed. *)
RecvNone ==
    /\ Receiving
    /\ Exhausted(box)
    /\ box.closed \/ box.welcomeQueued
    /\ box' = [box EXCEPT !.closed = TRUE]
    /\ writer' = [writer EXCEPT !.pc = IF writer.notice = "held" THEN "fire" ELSE "final"]
    /\ UNCHANGED <<task, owned, stopped, conn, reserve, named, owed>>

(* write_ordinary also watches for the notice, to adopt its deadline. *)
AdoptNotice ==
    /\ writer.pc = "writing"
    /\ writer.reserveOpen /\ writer.notice = "none"
    /\ reserve.full \/ ~reserve.open
    /\ reserve' = [reserve EXCEPT !.full = FALSE]
    /\ writer' = [writer EXCEPT !.reserveOpen = FALSE,
                                !.notice = IF reserve.full THEN "held" ELSE @]
    /\ UNCHANGED <<box, task, owned, stopped, conn, named, owed>>

WriteDone ==
    /\ writer.pc = "writing"
    /\ box' = Credit(box, writer.frame)
    /\ writer' = [writer EXCEPT !.pc = "fire", !.frame = NoFrame,
                                !.welcomeWritten = @ \/ writer.frame.kind = "welcome"]
    /\ UNCHANGED <<task, owned, stopped, conn, reserve, named, owed>>

(* An I/O error, or the drain deadline expires. *)
WriteFails ==
    /\ WriteFaults
    /\ writer.pc \in {"writing", "notice", "farewell"}
    /\ box' = IF writer.pc = "writing" THEN Credit(box, writer.frame) ELSE box
    /\ writer' = [writer EXCEPT !.pc = "ended", !.frame = NoFrame]
    /\ UNCHANGED <<task, owned, stopped, conn, reserve, named, owed>>

FireNoticeUnbarred ==
    /\ writer.pc = "fire"
    /\ writer' = [writer EXCEPT !.pc = IF writer.notice = "held" THEN "notice" ELSE "look"]
    /\ UNCHANGED <<box, task, owned, stopped, conn, reserve, named, owed>>

(* The barrier is checked again: the writer may have parked before the     *)
(* Welcome was queued.                                                     *)
FireNotice ==
    /\ writer.pc = "fire"
    /\ writer' = [writer EXCEPT !.pc =
                    IF writer.notice = "held" /\ ~WelcomeBarrier THEN "notice" ELSE "look"]
    /\ UNCHANGED <<box, task, owned, stopped, conn, reserve, named, owed>>

NoticeDone ==
    /\ writer.pc \in {"notice", "farewell"}
    /\ writer' = [writer EXCEPT !.notice = "written",
                                !.pc = IF writer.pc = "notice" THEN "look" ELSE "ended"]
    /\ UNCHANGED <<box, task, owned, stopped, conn, reserve, named, owed>>

(* The outbox is closed and drained: wait for the notice or its absence. *)
Final ==
    /\ writer.pc = "final"
    /\ writer.notice = "written" \/ reserve.full \/ ~reserve.open
    /\ reserve' = [reserve EXCEPT !.full = FALSE]
    /\ writer' = [writer EXCEPT !.pc = IF reserve.full THEN "farewell" ELSE "ended"]
    /\ UNCHANGED <<box, task, owned, stopped, conn, named, owed>>

-----------------------------------------------------------------------------
Delivery(s) ==
    \/ TakeTicket(s)
    \/ Reoffer(s)
    \/ Wake(s)
    \/ StopWaiting(s)
    \/ LagTake(s)
    \/ LagPurge(s)
    \/ \E n \in ReplySizes : LagTell(s, n)

Streaming(s) ==
    \/ \E n \in EventSizes : Produce(s, n)
    \/ TaskEnds(s)
    \/ Stuck(s)

Requests ==
    \/ \E n \in ReplySizes :
         \/ Hello(n)
         \/ HelloFails(n)
         \/ Request(n)
         \/ Retire(n)
         \/ Droppable(n)
         \/ \E a \in Attachments : Attach(a, n)
    \/ \E a \in Attachments : Detach(a)
    \/ \E m \in Monitors : MonitorWatch(m)
    \/ \E l \in Looms, n \in EventSizes : LoomWatch(l, n)
    \/ Drain
    \/ PeerGone

Handling ==
    \/ DetachPurge
    \/ \E n \in ReplySizes : DetachAnswer(n) \/ OpenWatch(n)
    \/ ReplaceWatch

Teardown == HubClose \/ CloseLane

Scheduling ==
    \/ Look
    \/ SelectNotice
    \/ SelectClosed
    \/ Recv
    \/ RecvNone
    \/ AdoptNotice
    \/ FireNotice
    \/ Final

Writing == WriteDone \/ NoticeDone

(* A connection that is over, with nobody left to wait for it. *)
Over ==
    /\ conn.pc = "closed"
    /\ writer.pc = "ended"
    /\ \A s \in Streams : task[s].pc \in {"none", "gone"}
    /\ UNCHANGED vars

Next ==
    \/ \E s \in Streams : Delivery(s) \/ Streaming(s)
    \/ Requests
    \/ \E n \in ReplySizes : Breach(n)
    \/ Handling
    \/ Teardown
    \/ Scheduling
    \/ Writing
    \/ WriteFails
    \/ Over

Spec == Init /\ [][Next]_vars

(***************************************************************************)
(* Tasks that can run do run, and the connection's teardown is not held    *)
(* up.  Nothing obliges a client to ask for anything or a session to       *)
(* produce events.  That the peer reads, so that the writer task gets on   *)
(* and every started write ends, and that the liveness tick comes round,   *)
(* are assumptions of the properties that need them.                       *)
(***************************************************************************)
RunningFairness ==
    /\ \A s \in Streams : WF_vars(Delivery(s))
    /\ WF_vars(Handling \/ Teardown)

RunningSpec == Spec /\ RunningFairness

PeerReads == WF_vars(Scheduling \/ Writing)

TickFires == WF_vars(\E n \in ReplySizes : Breach(n))

-----------------------------------------------------------------------------
(* Properties. *)

(* Every variable keeps its type; in particular the counters of the outbox *)
(* never leave the naturals.                                               *)
TypeOK ==
    /\ box \in BoxType
    /\ task \in [Streams -> TaskType]
    /\ owned \subseteq Attachments
    /\ stopped \subseteq Ordered
    /\ conn \in ConnType
    /\ reserve \in ReserveType
    /\ writer \in WriterType
    /\ named \subseteq Streams
    /\ owed \subseteq Attachments

InFlight(floor) == IF writer.frame.floor = floor THEN writer.frame.size ELSE 0
QueuedBytes(b)  == Total([k \in Lanes |-> Bytes(b.lanes[k])])

(* The counters of the outbox are what it holds: the frames queued, the    *)
(* bytes queued or being written, the floor slot queued or being written.  *)
(* (After an abort the frame in flight is dropped, not credited.)          *)
AccountingExact ==
    /\ box.frames = Total([k \in Lanes |-> Len(box.lanes[k])])
    /\ conn.failed \/
         /\ box.bytes = QueuedBytes(box) + InFlight(FALSE)
         /\ box.floorInUse = Len(box.floor) + (IF writer.frame.floor THEN 1 ELSE 0)

(* "EXACT WORST CASE, per connection": what is allocated, queued or being  *)
(* written, stays within the byte budget plus one reply on the floor.      *)
WorstCase ==
    /\ QueuedBytes(box) + InFlight(FALSE) <= ByteBudget
    /\ Bytes(box.floor) + InFlight(TRUE) <= FloorAllowance

(* The drain_ticket comment's "no lost wakeup": a task that sleeps on the  *)
(* head ticket, with no permit stored in it, has nothing to wake up for:   *)
(* its frame does not fit.  Whatever frees room (a pop, a settled write, a *)
(* purge, a cancelled ticket, an admission that leaves room) fires it.     *)
NoLostWakeup ==
    \A s \in Streams :
      (IsHead(box, s) /\ task[s].pc = "waiting" /\ s \notin box.fired)
        => ~Fits(box, s, task[s].size)

(* The AdmissionTicketGuard: no ticket outlives the delivery that took it. *)
(* A dead ticket at the head would keep every other stream out.            *)
TicketsAreHeld ==
    \A s \in ToSet(box.tickets) : task[s].pc \in {"confirm", "waiting"}

(* The ring lists every lane with queued frames exactly once, and no other *)
(* lane: a lane missing from it would never be served, a stale entry would *)
(* make recv pop an empty lane.  Offers, pops that rotate or drop a lane,  *)
(* spliced responses and purges each keep it so.                           *)
RingIsExact ==
    /\ IsInjective(box.ring)
    /\ ToSet(box.ring) = {k \in Lanes : box.lanes[k] # <<>>}

(* The marker that keeps an attachment's events back is set exactly while  *)
(* its staged response is queued, on the System lane or on the floor; a    *)
(* marker left behind would mute the attachment for ever.                  *)
PendingIsQueued == \A a \in Attachments : a \in box.pending <=> StagedQueued(box, a)

(* Response before event: a frame of an attachment is queued or being      *)
(* written only when the response that names it has left the queue.        *)
ResponseFirst ==
    \A a \in Attachments :
      (box.lanes[a] # <<>> \/ (writer.frame.kind = "event" /\ writer.frame.of = a))
        => a \in named

(* The Welcome is a total encoding barrier: once the handshake chose the   *)
(* negotiated encoding, neither a frame in it nor the drain notice is      *)
(* written before the JSON Welcome.                                        *)
EncodingBarrier ==
    \/ ~conn.welcomed
    \/ writer.welcomeWritten
    \/ writer.pc = "ended"
    \/ ~Packed(writer.frame) /\ writer.pc \notin {"notice", "farewell"}

(* Admission and detach are atomic under the ownership lock: a purged lane *)
(* is never recreated.                                                     *)
NothingAfterPurge ==
    \A a \in Attachments :
      \/ task[a].pc = "telling"
      \/ conn.at = "answer" /\ conn.of = a
      => box.lanes[a] = <<>>

(* The unknown-id rule's promise to an attachment that is purged before    *)
(* its response was sent: "the original request is answered with a         *)
(* correlated, retryable error instead".  While the connection is up, an   *)
(* unanswered attach request has its answer queued or its task is about to *)
(* send one.  The code does not keep this when the floor is taken.         *)
AttachIsAnswered ==
    \A a \in owed :
      \/ conn.pc # "open" \/ box.closed
      \/ StagedQueued(box, a)
      \/ \E i \in DOMAIN box.lanes[System] :
           box.lanes[System][i].kind = "overloaded" /\ box.lanes[System][i].of = a
      \/ \E i \in DOMAIN box.floor : box.floor[i].kind = "overloaded" /\ box.floor[i].of = a
      \/ task[a].pc \in {"purging", "telling"}

(* Every delivery that takes a ticket is served, or ends with its stream:  *)
(* "service itself is FIFO ... and starvation is impossible".              *)
TicketsAreServed ==
    PeerReads => \A s \in Streams :
      task[s].pc \in {"busy", "confirm", "waiting"} ~> task[s].pc \in {"idle", "gone"}

(* A connection that has left its loop drains its outbox, ends its writer  *)
(* and leaves no delivery behind; a drain notice it reserved is written    *)
(* unless the connection failed.                                           *)
ConnectionEnds ==
    PeerReads =>
      /\ conn.pc = "left" ~> (writer.pc = "ended" /\ \A s \in Streams :
                                                  task[s].pc \in {"none", "gone"})
      /\ reserve.full ~> (writer.notice = "written" \/ conn.failed)

(* What the code does for a peer that stops reading.  If the writer never  *)
(* finishes its frame and the handler does not wait for room, the liveness *)
(* tick ends the loop, every stream is let go and no delivery is left, not *)
(* the ones that wait for a ticket either.  This is less than R9's rule,   *)
(* that such a peer's connection is closed (connection.rs:100): the loop   *)
(* ends without an error, so the writer is not aborted (1594), and its     *)
(* last write, which has no deadline (1782), is awaited (1599).            *)
StalledPeerHoldsNoStream ==
    (TickFires /\ <>[](writer.pc = "writing" /\ conn.at # "baseline"))
        => <>(conn.pc = "closed" /\ \A s \in Streams : task[s].pc \in {"none", "gone"})

=============================================================================
