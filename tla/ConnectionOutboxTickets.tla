----------------------- MODULE ConnectionOutboxTickets ----------------------
(***************************************************************************)
(* Proofs about the admission tickets: no ticket outlives its delivery,    *)
(* and no delivery sleeps while its frame would fit.                       *)
(***************************************************************************)
EXTENDS ConnectionOutboxFrames

(* The first ticket stays first when another one is removed. *)
LEMMA RemoveFirstKeepsHead ==
  ASSUME NEW S, NEW q \in Seq(S), NEW e, RemoveFirst(q, e) # <<>>, Head(q) # e
  PROVE  q # <<>> /\ Head(RemoveFirst(q, e)) = Head(q)
<1>1. CASE RemoveFirst(q, e) = q
  BY <1>1
<1>2. ASSUME NEW i \in 1 .. Len(q), q[i] = e, RemoveFirst(q, e) = RemoveAt(q, i)
      PROVE  q # <<>> /\ Head(RemoveFirst(q, e)) = Head(q)
  <2> DEFINE r == RemoveFirst(q, e)
  <2>1. /\ r \in Seq(S) /\ Len(r) = Len(q) - 1
        /\ \A j \in 1 .. Len(q) - 1 : r[j] = IF j < i THEN q[j] ELSE q[j + 1]
    BY <1>2, RemoveAtType
  <2>2. q # <<>> /\ Head(q) = q[1]
    BY <1>2
  <2>3. 1 < i
    BY <1>2, <2>2
  <2> HIDE DEF r
  <2>4. r # <<>>
    BY DEF r
  <2>5. Head(r) = r[1] /\ 1 \in 1 .. Len(q) - 1
    BY <2>1, <2>4
  <2>6. Head(r) = q[1]
    BY <2>1, <2>3, <2>5
  <2> QED
    BY <2>2, <2>6 DEF r
<1> QED
  BY <1>1, <1>2, RemoveFirstIs

-----------------------------------------------------------------------------
(***************************************************************************)
(* What the operations of the outbox do to the tickets.  After a firing    *)
(* nobody need sleep: there is no ticket, its head has a permit, or there  *)
(* is no room.                                                             *)
(***************************************************************************)
Full(b) == ~(b.frames < FrameCapacity /\ b.bytes < ByteBudget)
Roused(b) == b.tickets = <<>> \/ Head(b.tickets) \in b.fired \/ Full(b)

(* c has the tickets of b and no more room than b. *)
Tighter(b, c) ==
    /\ c.tickets = b.tickets /\ c.fired = b.fired
    /\ b.frames <= c.frames /\ b.bytes <= c.bytes
    /\ b.pending \subseteq c.pending
    /\ \A s \in Streams : c.lanes[s] = b.lanes[s]

(* Firing the head, with or without the test for room, rouses. *)
LEMMA FireRouses ==
  ASSUME NEW b \in BoxType
  PROVE  /\ Roused(Fire(b)) /\ Roused(FireIfRoom(b))
         /\ Fire(b).tickets = b.tickets /\ FireIfRoom(b).tickets = b.tickets
<1>1. Fire(b).tickets = b.tickets
  BY DEF Fire, BoxType
<1>2. b.tickets # <<>> => Head(b.tickets) \in Fire(b).fired
  BY DEF Fire, BoxType
<1> QED
  BY <1>1, <1>2 DEF Roused, Full, FireIfRoom

(* The fields that removing a ticket changes. *)
LEMMA DropFields ==
  ASSUME NEW b \in BoxType, NEW s
  PROVE  /\ DropTicket(b, s).tickets = RemoveFirst(b.tickets, s)
         /\ DropTicket(b, s).fired = b.fired \ {s}
         /\ DropTicket(b, s).frames = b.frames /\ DropTicket(b, s).bytes = b.bytes
         /\ DropTicket(b, s).lanes = b.lanes /\ DropTicket(b, s).pending = b.pending
  BY DEF DropTicket, BoxType

(* cancel_ticket rouses unless the ticket was not the head. *)
LEMMA CancelFields ==
  ASSUME NEW b \in BoxType, NEW s
  PROVE  /\ CancelTicket(b, s).tickets = RemoveFirst(b.tickets, s)
         /\ \/ Roused(CancelTicket(b, s))
            \/ ~IsHead(b, s) /\ CancelTicket(b, s) = DropTicket(b, s)
<1> DEFINE d == DropTicket(b, s)
<1>1. d \in BoxType /\ d.tickets = RemoveFirst(b.tickets, s)
  BY DropTicketType, DropFields
<1>2. \/ CancelTicket(b, s) = FireIfRoom(d)
      \/ ~IsHead(b, s) /\ CancelTicket(b, s) = d
  BY DEF CancelTicket
<1> HIDE DEF d
<1>3. Roused(FireIfRoom(d)) /\ FireIfRoom(d).tickets = d.tickets
  BY <1>1, FireRouses
<1> QED
  BY <1>1, <1>2, <1>3 DEF d

(* An admitted offer drops its ticket and rouses the next. *)
LEMMA OfferedRouses ==
  ASSUME NEW b \in BoxType, NEW s \in Streams, NEW n \in Nat
  PROVE  Roused(Offered(b, s, n)) /\ Offered(b, s, n).tickets = RemoveFirst(b.tickets, s)
<1> DEFINE d == DropTicket(b, s)
           f == Frame("event", s, n)
           e == Enqueue(d, s, f)
<1>1. d \in BoxType /\ d.tickets = RemoveFirst(b.tickets, s)
  BY DropTicketType, DropFields
<1>2. s \in Lanes /\ f \in FrameSet
  <2>1. "event" \in Kinds /\ s \in Lanes
    BY LaneKinds DEF Kinds
  <2> QED
    BY <2>1, FrameType
<1> HIDE DEF d, f
<1>3. e \in BoxType
  BY <1>1, <1>2, EnqueueType
<1>4. e.tickets = d.tickets
  BY <1>1 DEF Enqueue, BoxType
<1>5. Offered(b, s, n) = FireIfRoom(e)
  BY DEF Offered, d, e, f
<1> HIDE DEF e
<1> QED
  BY <1>1, <1>3, <1>4, <1>5, FireRouses

(* A reply only takes room. *)
LEMMA PushTightens ==
  ASSUME NEW b \in Good, NEW f \in FrameSet
  PROVE  Tighter(b, Push(b, f))
<1> DEFINE m == Marked(b, f)
           g == [f EXCEPT !.floor = TRUE]
           c == Push(b, f)
<1>1. b \in BoxType /\ (f.kind = "response" => f.of \in Attachments) /\ f.size \in Nat
  BY DEF Good, FrameSet
<1>2. /\ m \in BoxType /\ m.lanes = b.lanes /\ m.tickets = b.tickets /\ m.fired = b.fired
      /\ m.frames = b.frames /\ m.bytes = b.bytes /\ b.pending \subseteq m.pending
  BY <1>1 DEF Marked, BoxType
<1>3. b.lanes \in [Lanes -> Seq(FrameSet)] /\ b.frames \in Nat /\ b.bytes \in Nat
  BY <1>1, BoxFields
<1> HIDE DEF m, g
<1>4. CASE OrdinaryAdmits(b, System, f.size)
  <2>1. c = Enqueue(m, System, f)
    BY <1>4 DEF Push, m
  <2>2. /\ c.lanes = [m.lanes EXCEPT ![System] = Append(m.lanes[System], f)]
        /\ c.tickets = m.tickets /\ c.fired = m.fired /\ c.pending = m.pending
        /\ c.frames = m.frames + 1 /\ c.bytes = m.bytes + f.size
    BY <1>2, <2>1 DEF Enqueue, BoxType
  <2> HIDE DEF c
  <2>3. \A s \in Streams : c.lanes[s] = b.lanes[s]
    BY <1>2, <1>3, <2>2, LaneKinds
  <2>4. b.frames <= c.frames /\ b.bytes <= c.bytes
    BY <1>1, <1>2, <1>3, <2>2
  <2>5. Tighter(b, c)
    BY <1>2, <2>2, <2>3, <2>4 DEF Tighter
  <2> QED
    BY <2>5 DEF c
<1>5. CASE ~OrdinaryAdmits(b, System, f.size)
  <2>1. c = [m EXCEPT !.floor = Append(@, g), !.floorInUse = 1]
    BY <1>5 DEF Push, m, g
  <2>2. /\ c.lanes = m.lanes /\ c.frames = m.frames /\ c.bytes = m.bytes
        /\ c.tickets = m.tickets /\ c.fired = m.fired /\ c.pending = m.pending
    BY <1>2, <2>1 DEF BoxType
  <2> HIDE DEF c
  <2>3. Tighter(b, c)
    BY <1>2, <1>3, <2>2 DEF Tighter
  <2> QED
    BY <2>3 DEF c
<1> QED
  BY <1>4, <1>5

(* recv rouses. *)
LEMMA PopRouses ==
  ASSUME NEW b \in BoxType, NEW f
  PROVE  Roused(FinishPop(b, f)) /\ FinishPop(b, f).tickets = b.tickets
<1> DEFINE c == [b EXCEPT !.pending = IF f.kind = "response" THEN @ \ {f.of} ELSE @,
                          !.welcomeQueued = @ /\ f.kind # "welcome"]
<1>1. c \in BoxType /\ c.tickets = b.tickets
  BY DEF BoxType
<1>2. FinishPop(b, f) = Fire(c)
  BY DEF FinishPop
<1> HIDE DEF c
<1> QED
  BY <1>1, <1>2, FireRouses

(* A settled write rouses. *)
LEMMA CreditRouses ==
  ASSUME NEW b \in BoxType, NEW f \in FrameSet
  PROVE  Roused(Credit(b, f)) /\ Credit(b, f).tickets = b.tickets
<1> DEFINE c == IF f.floor THEN [b EXCEPT !.floorInUse = 0]
                           ELSE [b EXCEPT !.bytes = Minus(@, f.size)]
<1>1. Minus(b.bytes, f.size) \in Nat
  BY MinusType DEF BoxType
<1>2. c \in BoxType /\ c.tickets = b.tickets
  BY <1>1 DEF BoxType
<1>3. Credit(b, f) = Fire(c)
  BY DEF Credit
<1> HIDE DEF c
<1> QED
  BY <1>2, <1>3, FireRouses

(* purge_ordered rouses when it removed something. *)
LEMMA PurgeOrderedRouses ==
  ASSUME NEW b \in BoxType, NEW s \in Lanes
  PROVE  /\ PurgeOrdered(b, s).tickets = b.tickets
         /\ (PurgeOrdered(b, s) = b \/ Roused(PurgeOrdered(b, s)))
<1> DEFINE c == WithoutLane(b, s)
<1>1. c \in BoxType /\ c.tickets = b.tickets
  BY WithoutLaneType DEF WithoutLane, BoxType
<1>2. PurgeOrdered(b, s) = b \/ PurgeOrdered(b, s) = FireIfRoom(c)
  BY DEF PurgeOrdered
<1> HIDE DEF c
<1> QED
  BY <1>1, <1>2, FireRouses

(* close leaves no ticket. *)
LEMMA CloseRouses ==
  ASSUME NEW b \in BoxType
  PROVE  Close(b).tickets = <<>> /\ Roused(Close(b))
  BY DEF Close, Roused, BoxType

(* A purge that frees room fires; one that finds nothing changes nothing. *)
LEMMA PurgeRouses ==
  ASSUME NEW b \in Good, Frames(b), NEW a \in Attachments
  PROVE  /\ Purge(b, a).tickets = b.tickets
         /\ (Tighter(b, Purge(b, a)) \/ Roused(Purge(b, a)))
<1> DEFINE cleared  == WithoutLane(b, a)
           unmarked == [cleared EXCEPT !.pending = @ \ {a}]
           spliced  == IF a \in b.pending THEN Splice(unmarked, a) ELSE cleared
<1>1. b \in BoxType /\ a \in Streams /\ a \in Lanes
  BY LaneKinds DEF Good
<1>2. cleared \in BoxType /\ cleared.tickets = b.tickets
  BY <1>1, WithoutLaneType DEF WithoutLane, BoxType
<1>3. unmarked \in BoxType /\ unmarked.tickets = b.tickets
  <2> HIDE DEF cleared
  <2> QED
    BY <1>2 DEF BoxType
<1>4. Splice(unmarked, a) \in BoxType /\ Splice(unmarked, a).tickets = b.tickets
  <2> HIDE DEF unmarked
  <2>1. Splice(unmarked, a).tickets = unmarked.tickets
    BY <1>3 DEF Splice, BoxType
  <2> QED
    BY <1>3, <2>1, SpliceType
<1>5. spliced \in BoxType /\ spliced.tickets = b.tickets
  <2> HIDE DEF cleared, unmarked
  <2> QED
    BY <1>2, <1>4
<1>6. Roused(Fire(spliced)) /\ Fire(spliced).tickets = b.tickets
  <2> HIDE DEF spliced
  <2> QED
    BY <1>5, FireRouses
<1>7. CASE b.lanes[a] # <<>> \/ a \in b.pending
  <2>1. a \in b.pending => StagedQueued(b, a)
    BY DEF Frames, StagedQueued, Holds
  <2>2. Purge(b, a) = Fire(spliced)
    BY <1>7, <2>1 DEF Purge
  <2> QED
    BY <1>6, <2>2
<1>8. CASE b.lanes[a] = <<>> /\ a \notin b.pending
  <2>1. Purge(b, a) = cleared
    BY <1>8 DEF Purge
  <2>2. /\ cleared.lanes = [b.lanes EXCEPT ![a] = <<>>]
        /\ cleared.frames = Minus(b.frames, Len(b.lanes[a]))
        /\ cleared.bytes = Minus(b.bytes, Bytes(b.lanes[a]))
        /\ cleared.fired = b.fired /\ cleared.pending = b.pending
    BY <1>1 DEF WithoutLane, BoxType
  <2> HIDE DEF cleared
  <2>3. /\ b.lanes \in [Lanes -> Seq(FrameSet)]
        /\ b.frames \in Nat /\ b.bytes \in Nat
    BY <1>1, BoxFields
  <2>4. Len(b.lanes[a]) = 0 /\ Bytes(b.lanes[a]) = 0
    BY <1>8, BytesNone
  <2>5. cleared.frames = b.frames /\ cleared.bytes = b.bytes
    BY <2>2, <2>3, <2>4 DEF Minus
  <2>6. \A s \in Streams : cleared.lanes[s] = b.lanes[s]
    BY <1>8, <2>2, <2>3, LaneKinds
  <2> QED
    BY <1>2, <2>1, <2>2, <2>3, <2>5, <2>6 DEF Tighter
<1> QED
  BY <1>7, <1>8

-----------------------------------------------------------------------------
(***************************************************************************)
(* The invariant.  A stream has at most one ticket, held while it confirms *)
(* or waits; the watch that a handler is about to open has no task yet; a  *)
(* frame that waits for admission has a size.                              *)
(***************************************************************************)
Holding == {"confirm", "waiting"}
Tracked == IsInjective(box.tickets) /\ \A s \in ToSet(box.tickets) : task[s].pc \in Holding
Unopened == conn.at \in {"replace", "watch"} => task[conn.of].pc = "none"
Sized ==
    \A s \in Streams : task[s].pc \in {"busy", "confirm", "waiting"} => task[s].size > 0

WakeInv == FramesInv /\ Tracked /\ Unopened /\ Sized /\ NoLostWakeup

(* What fits in the tighter outbox fits in the other one. *)
LEMMA TighterFits ==
  ASSUME NEW b \in BoxType, NEW c \in BoxType, Tighter(b, c),
         NEW s \in Streams, NEW n \in Nat, Fits(c, s, n)
  PROVE  Fits(b, s, n)
<1>1. /\ b.frames \in Nat /\ b.bytes \in Nat /\ c.frames \in Nat /\ c.bytes \in Nat
  BY BoxFields
<1>2. /\ b.frames <= c.frames /\ b.bytes <= c.bytes
      /\ b.pending \subseteq c.pending /\ c.lanes[s] = b.lanes[s]
  BY DEF Tighter
<1>3. /\ s \notin c.pending /\ c.frames < FrameCapacity
      /\ Len(c.lanes[s]) < PerLaneCapacity /\ c.bytes + n <= ByteBudget
  BY DEF Fits, OrdinaryAdmits
<1>4. b.frames < FrameCapacity /\ b.bytes + n <= ByteBudget
  BY <1>1, <1>2, <1>3, OutboxAssumption
<1> QED
  BY <1>2, <1>3, <1>4 DEF Fits, OrdinaryAdmits

(* Nothing fits in a full outbox. *)
LEMMA FullDoesNotFit ==
  ASSUME NEW b \in BoxType, Full(b), NEW s \in Streams, NEW n \in Nat, n > 0
  PROVE  ~Fits(b, s, n)
<1>1. b.frames \in Nat /\ b.bytes \in Nat
  BY BoxFields
<1> QED
  BY <1>1, OutboxAssumption DEF Full, Fits, OrdinaryAdmits

(* A step after which nobody need sleep, or with no more room than before. *)
SleepersStay == \A s \in Streams : task'[s].pc = "waiting" => task'[s] = task[s]

(* After such a step nobody sleeps through room. *)
LEMMA SleepStep ==
  ASSUME WakeInv, FramesInv', Sized',
         Roused(box') \/ (Tighter(box, box') /\ SleepersStay)
  PROVE  NoLostWakeup'
<1>0. box \in BoxType /\ box' \in BoxType /\ TasksOK /\ TasksOK'
  BY DEF WakeInv, FramesInv, TypeInv, Good
<1> SUFFICES ASSUME NEW s \in Streams,
                    IsHead(box', s), task'[s].pc = "waiting", s \notin box'.fired
             PROVE  ~Fits(box', s, task'[s].size)
  BY DEF NoLostWakeup
<1>1. task'[s].size \in Nat /\ task'[s].size > 0
  BY <1>0 DEF TasksOK, TaskType, Sized
<1>2. CASE Roused(box')
  <2>1. Full(box')
    BY <1>2 DEF Roused, IsHead
  <2> QED
    BY <1>0, <1>1, <2>1, FullDoesNotFit
<1>3. CASE Tighter(box, box') /\ SleepersStay
  <2>1. task'[s] = task[s] /\ IsHead(box, s) /\ s \notin box.fired
    BY <1>3 DEF SleepersStay, Tighter, IsHead
  <2>2. ~Fits(box, s, task[s].size)
    BY <2>1 DEF WakeInv, NoLostWakeup
  <2> QED
    BY <1>0, <1>1, <1>3, <2>1, <2>2, TighterFits
<1> QED
  BY <1>2, <1>3

(* The watch about to be opened has no task after a step that moves only   *)
(* running tasks.                                                          *)
LEMMA UnopenedKept ==
  ASSUME WakeInv,
         conn' = conn \/ conn'.at \notin {"replace", "watch"},
         \A r \in Streams : task'[r] = task[r] \/ task[r].pc # "none"
  PROVE  Unopened'
<1>1. conn.at \in {"replace", "watch"} => conn.of \in Streams
  BY LaneKinds DEF WakeInv, FramesInv, TypeInv, ConnOK, HandlerOK
<1> QED
  BY <1>1 DEF WakeInv, Unopened

(* What the invariant says of the tickets. *)
LEMMA TicketFacts ==
  ASSUME WakeInv
  PROVE  /\ box \in BoxType /\ box.tickets \in Seq(Streams) /\ IsInjective(box.tickets)
         /\ \A s \in ToSet(box.tickets) : s \in Streams /\ task[s].pc \in Holding
         /\ \A s : IsInjective(RemoveFirst(box.tickets, s))
                   /\ ToSet(RemoveFirst(box.tickets, s)) = ToSet(box.tickets) \ {s}
         /\ IsInjective(<<>>) /\ ToSet(<<>>) = {}
<1>1. box \in BoxType /\ box.tickets \in Seq(Streams) /\ IsInjective(box.tickets)
  BY BoxFields DEF WakeInv, FramesInv, TypeInv, Good, Tracked
<1>2. \A s \in ToSet(box.tickets) : s \in Streams
  BY <1>1 DEF ToSet
<1>3. \A s : IsInjective(RemoveFirst(box.tickets, s))
             /\ ToSet(RemoveFirst(box.tickets, s)) = ToSet(box.tickets) \ {s}
  BY <1>1, RemoveFirstInjective
<1>4. IsInjective(<<>>) /\ ToSet(<<>>) = {}
  BY DEF IsInjective, ToSet
<1> QED
  BY <1>1, <1>2, <1>3, <1>4 DEF WakeInv, Tracked

(* Steps that take no ticket and move no holder of one. *)
PlainTasks ==
    \A r \in Streams :
      \/ task'[r] = task[r]
      \/ /\ task[r].pc \notin Holding /\ task'[r].pc \notin Holding
         /\ task'[r].pc = "busy" => task'[r].size > 0

(* A step that leaves the holders of tickets alone keeps the invariant. *)
LEMMA PlainStep ==
  ASSUME WakeInv, FramesInv', PlainTasks, Unopened',
         box'.tickets = box.tickets \/ box'.tickets = <<>>,
         Roused(box') \/ Tighter(box, box')
  PROVE  WakeInv'
<1>1. Sized'
  BY DEF WakeInv, Sized, PlainTasks, Holding
<1>2. SleepersStay
  BY DEF PlainTasks, SleepersStay, Holding
<1>3. NoLostWakeup'
  BY <1>1, <1>2, SleepStep
<1>4. Tracked'
  <2>1. IsInjective(box'.tickets) /\ ToSet(box'.tickets) \subseteq ToSet(box.tickets)
    BY TicketFacts
  <2>2. \A s \in ToSet(box'.tickets) : task'[s].pc \in Holding
    BY <2>1, TicketFacts DEF PlainTasks
  <2> QED
    BY <2>1, <2>2 DEF Tracked
<1> QED
  BY <1>1, <1>3, <1>4 DEF WakeInv

(* The end of a delivery: its ticket goes with it. *)
LEMMA DropStep ==
  ASSUME WakeInv, FramesInv', NEW s \in Streams,
         task'[s].pc \notin {"busy", "confirm", "waiting"},
         \A r \in Streams \ {s} : task'[r] = task[r],
         Unopened',
         box'.tickets = RemoveFirst(box.tickets, s) \/ box'.tickets = <<>>,
         Roused(box') \/ (~IsHead(box, s) /\ box' = DropTicket(box, s))
  PROVE  WakeInv'
<1>1. Sized'
  BY DEF WakeInv, Sized
<1>2. IsInjective(box'.tickets) /\ ToSet(box'.tickets) \subseteq ToSet(box.tickets) \ {s}
  BY TicketFacts
<1>3. Tracked'
  BY <1>2, TicketFacts DEF Tracked
<1>4. CASE Roused(box')
  <2>1. NoLostWakeup'
    BY <1>1, <1>4, SleepStep
  <2> QED
    BY <1>1, <1>3, <2>1 DEF WakeInv
<1>5. CASE ~IsHead(box, s) /\ box' = DropTicket(box, s)
  <2>0. /\ box'.tickets = RemoveFirst(box.tickets, s) /\ box'.fired = box.fired \ {s}
        /\ box'.frames = box.frames /\ box'.bytes = box.bytes
        /\ box'.lanes = box.lanes /\ box'.pending = box.pending
    BY <1>5, TicketFacts, DropFields
  <2> SUFFICES ASSUME NEW r \in Streams,
                      IsHead(box', r), task'[r].pc = "waiting", r \notin box'.fired
               PROVE  ~Fits(box', r, task'[r].size)
    BY <1>1, <1>3 DEF WakeInv, NoLostWakeup
  <2>1. r # s /\ task'[r] = task[r]
    OBVIOUS
  <2>2. IsHead(box, r)
    <3>1. box'.tickets # <<>> /\ Head(box'.tickets) = r
      BY DEF IsHead
    <3>2. CASE box.tickets = <<>>
      <4>1. RemoveFirst(box.tickets, s) = box.tickets
        <5>1. ~\E i \in 1 .. Len(box.tickets) : TRUE
          BY <3>2
        <5> QED
          BY <5>1, TicketFacts, RemoveFirstIs
      <4> QED
        BY <2>0, <3>1, <3>2, <4>1
    <3>3. CASE box.tickets # <<>>
      <4>1. Head(box.tickets) # s
        BY <1>5, <3>3 DEF IsHead
      <4>2. Head(RemoveFirst(box.tickets, s)) = Head(box.tickets)
        BY <2>0, <3>1, <4>1, TicketFacts, RemoveFirstKeepsHead
      <4> QED
        BY <2>0, <3>1, <3>3, <4>2 DEF IsHead
    <3> QED
      BY <3>2, <3>3
  <2>3. ~Fits(box, r, task[r].size)
    BY <2>0, <2>1, <2>2 DEF WakeInv, NoLostWakeup
  <2> QED
    BY <2>0, <2>1, <2>3 DEF Fits, OrdinaryAdmits
<1> QED
  BY <1>4, <1>5

(* The frame stays with a delivery that confirms or waits. *)
LEMMA MoveSize ==
  ASSUME TasksOK, NEW s \in Streams, NEW pc \in Holding, Move(s, pc)
  PROVE  task'[s].size = task[s].size
<1> DEFINE t == [pc |-> pc,
                 size |-> IF pc \in {"confirm", "waiting"} THEN task[s].size ELSE 0]
<1>1. t.size = task[s].size /\ task' = [task EXCEPT ![s] = t]
  BY DEF Move, Holding
<1> HIDE DEF t
<1> QED
  BY <1>1 DEF TasksOK

(* The end of a baseline opens no watch, *)
LEMMA DoneConn ==
  ASSUME ConnOK, NEW s, NEW ok, HandlerDone(s, ok)
  PROVE  conn' = conn \/ conn'.at \notin {"replace", "watch"}
  BY DEF ConnOK, ConnType, HandlerDone

(* nor does leaving the select loop. *)
LEMMA LeaveConn ==
  ASSUME ConnOK, NEW failed, Leave(failed)
  PROVE  conn'.at \notin {"replace", "watch"}
  BY DEF ConnOK, ConnType, Leave

(* An unchanged outbox has no more room than before. *)
LEMMA SameIsTighter ==
  ASSUME WakeInv, box' = box
  PROVE  Tighter(box, box')
<1>1. box.frames \in Nat /\ box.bytes \in Nat
  BY BoxFields, TicketFacts
<1> QED
  BY <1>1 DEF Tighter

(* A refused offer takes its ticket with it. *)
LEMMA RejectedWakes ==
  ASSUME WakeInv, FramesInv', NEW s \in Streams, Rejected(s), task[s].pc # "none"
  PROVE  WakeInv'
<1>0. TasksOK /\ ConnOK /\ box \in BoxType
  BY DEF WakeInv, FramesInv, TypeInv, Good
<1>1. /\ task'[s].pc \in {"leaving", "gone"}
      /\ \A r \in Streams \ {s} : task'[r] = task[r]
  BY <1>0, MoveFacts DEF Rejected
<1>2. conn' = conn \/ conn'.at \notin {"replace", "watch"}
  BY <1>0, DoneConn DEF Rejected
<1>3. Unopened'
  BY <1>1, <1>2, UnopenedKept
<1> DEFINE c == CancelTicket(box, s)
<1>4. c \in BoxType /\ c.tickets = RemoveFirst(box.tickets, s)
      /\ (Roused(c) \/ (~IsHead(box, s) /\ c = DropTicket(box, s)))
  BY <1>0, TicketTypes, CancelFields
<1>5. box' = c \/ box' = Close(c)
  BY DEF Rejected
<1> HIDE DEF c
<1>6. Close(c).tickets = <<>> /\ Roused(Close(c))
  BY <1>4, CloseRouses
<1> QED
  BY <1>1, <1>3, <1>4, <1>5, <1>6, DropStep

(* An admitted offer keeps the invariant. *)
LEMMA OfferWakes ==
  ASSUME WakeInv, FramesInv', NEW s \in Streams, NEW n \in Nat, box' = Offered(box, s, n),
         task'[s].pc \notin {"busy", "confirm", "waiting"},
         \A r \in Streams \ {s} : task'[r] = task[r],
         Unopened'
  PROVE  WakeInv'
  BY TicketFacts, OfferedRouses, DropStep

(* A stream's own steps keep the invariant. *)
LEMMA StreamingWakes ==
  ASSUME WakeInv, NEW s \in Streams, Streaming(s)
  PROVE  WakeInv'
<1>0. FramesInv' /\ TasksOK /\ ConnOK /\ box \in BoxType
  BY StreamingFrames DEF WakeInv, FramesInv, TypeInv, Good
<1>1. ASSUME NEW n \in EventSizes, Produce(s, n)
      PROVE  WakeInv'
  <2>0. n \in Nat /\ n > 0 /\ task[s].pc = "idle"
    BY <1>1, OutboxAssumption DEF Produce
  <2>1. CASE /\ box' = Offered(box, s, n)
             /\ UNCHANGED <<task, owned, stopped, conn, reserve, writer, named, owed>>
    <3>1. Unopened'
      BY <2>1, UnopenedKept
    <3> QED
      BY <1>0, <2>0, <2>1, <3>1, OfferWakes
  <2>2. CASE /\ task' = [task EXCEPT ![s] = [pc |-> "busy", size |-> n]]
             /\ UNCHANGED <<box, owned, stopped, conn, reserve, writer, named, owed>>
    <3>1. task'[s] = [pc |-> "busy", size |-> n] /\ \A r \in Streams \ {s} : task'[r] = task[r]
      BY <1>0, <2>2 DEF TasksOK
    <3>2. PlainTasks
      BY <2>0, <3>1 DEF PlainTasks, Holding
    <3>3. Unopened'
      BY <2>0, <2>2, <3>1, UnopenedKept
    <3>4. box'.tickets = box.tickets /\ Tighter(box, box')
      BY <2>2, SameIsTighter
    <3> QED
      BY <1>0, <3>2, <3>3, <3>4, PlainStep
  <2> QED
    BY <1>0, <1>1, <2>0, <2>1, <2>2, RejectedWakes DEF Produce
<1>2. ASSUME TaskEnds(s)
      PROVE  WakeInv'
  <2>1. /\ task'[s].pc = "gone" /\ task[s].pc = "idle"
        /\ \A r \in Streams \ {s} : task'[r] = task[r]
    BY <1>0, <1>2, MoveFacts DEF TaskEnds
  <2>2. PlainTasks
    BY <2>1 DEF PlainTasks, Holding
  <2>3. Unopened'
    BY <1>2, <2>1, UnopenedKept DEF TaskEnds
  <2>4. box'.tickets = box.tickets /\ Tighter(box, box')
    BY <1>2, SameIsTighter DEF TaskEnds
  <2> QED
    BY <1>0, <2>2, <2>3, <2>4, PlainStep
<1>3. ASSUME Stuck(s)
      PROVE  WakeInv'
  <2>1. /\ task'[s].pc = "leaving" /\ task[s].pc = "waiting"
        /\ \A r \in Streams \ {s} : task'[r] = task[r]
    BY <1>0, <1>3, MoveFacts DEF Stuck
  <2>2. Unopened'
    BY <1>3, <2>1, UnopenedKept DEF Stuck
  <2>3. box'.tickets = RemoveFirst(box.tickets, s)
        /\ (Roused(box') \/ (~IsHead(box, s) /\ box' = DropTicket(box, s)))
    BY <1>0, <1>3, CancelFields DEF Stuck
  <2> QED
    BY <1>0, <2>1, <2>2, <2>3, DropStep
<1> QED
  BY <1>1, <1>2, <1>3 DEF Streaming

(* The new ticket is the last one; its owner is about to re-offer. *)
LEMMA TakeWakes ==
  ASSUME WakeInv, FramesInv', NEW s \in Streams, TakeTicket(s)
  PROVE  WakeInv'
<1>0. TasksOK /\ ConnOK /\ box \in BoxType
  BY DEF WakeInv, FramesInv, TypeInv, Good
<1>1. /\ task[s].pc = "busy" /\ task'[s].pc = "confirm" /\ task'[s].size = task[s].size
      /\ \A r \in Streams \ {s} : task'[r] = task[r]
  BY <1>0, MoveFacts, MoveSize DEF TakeTicket, Holding
<1>2. Unopened'
  BY <1>1, UnopenedKept DEF TakeTicket
<1>3. Sized'
  BY <1>1 DEF WakeInv, Sized
<1>4. s \notin ToSet(box.tickets)
  BY <1>1, TicketFacts DEF Holding
<1>5. /\ box'.frames = box.frames /\ box'.bytes = box.bytes
      /\ box'.lanes = box.lanes /\ box'.pending = box.pending
      /\ box'.tickets = IF box.closed THEN box.tickets ELSE Append(box.tickets, s)
      /\ box.fired \subseteq box'.fired
  BY <1>0 DEF TakeTicket, DrainTicket, BoxType
<1>6. /\ IsInjective(Append(box.tickets, s))
      /\ ToSet(Append(box.tickets, s)) = ToSet(box.tickets) \cup {s}
      /\ Head(Append(box.tickets, s)) = IF box.tickets = <<>> THEN s ELSE Head(box.tickets)
  BY <1>4, TicketFacts, AppendKeepsInjective, HeadTailAppend
<1>7. Tracked'
  <2>1. /\ IsInjective(box'.tickets)
        /\ ToSet(box'.tickets) \subseteq ToSet(box.tickets) \cup {s}
    BY <1>5, <1>6, TicketFacts
  <2> QED
    BY <1>1, <2>1, TicketFacts DEF Tracked, Holding
<1>8. ASSUME NEW r \in Streams,
             IsHead(box', r), task'[r].pc = "waiting", r \notin box'.fired
      PROVE  ~Fits(box', r, task'[r].size)
  <2>1. r # s /\ task'[r] = task[r] /\ r \notin box.fired
    BY <1>1, <1>5, <1>8
  <2>2. IsHead(box, r)
    BY <1>5, <1>6, <1>8, <2>1 DEF IsHead
  <2>3. ~Fits(box, r, task[r].size)
    BY <1>8, <2>1, <2>2 DEF WakeInv, NoLostWakeup
  <2> QED
    BY <1>5, <2>1, <2>3 DEF Fits, OrdinaryAdmits
<1> QED
  BY <1>2, <1>3, <1>7, <1>8 DEF WakeInv, NoLostWakeup

(* A delivery goes to sleep on the head ticket only when it does not fit. *)
LEMMA WaitWakes ==
  ASSUME WakeInv, FramesInv', NEW s \in Streams, task[s].pc = "confirm",
         Delays(s, task[s].size, TRUE), Move(s, "waiting"), UNCHANGED <<box, conn>>
  PROVE  WakeInv'
<1>0. TasksOK /\ ConnOK /\ box \in BoxType
  BY DEF WakeInv, FramesInv, TypeInv, Good
<1>1. /\ task'[s].pc = "waiting" /\ task'[s].size = task[s].size
      /\ \A r \in Streams \ {s} : task'[r] = task[r]
  BY <1>0, MoveFacts, MoveSize DEF Holding
<1>2. Unopened'
  BY <1>1, UnopenedKept
<1>3. Sized'
  BY <1>1 DEF WakeInv, Sized
<1>4. Tracked'
  BY <1>1, TicketFacts DEF Tracked, Holding
<1>5. IsHead(box, s) => ~Fits(box, s, task[s].size)
  BY DEF Delays, MayAdmit
<1>6. NoLostWakeup'
  BY <1>1, <1>5 DEF WakeInv, NoLostWakeup, IsHead, Fits, OrdinaryAdmits
<1> QED
  BY <1>2, <1>3, <1>4, <1>6 DEF WakeInv

(* The steps of a delivery keep the invariant; the permit it wakes by is   *)
(* consumed only to offer again.                                           *)
LEMMA DeliveryWakes ==
  ASSUME WakeInv, NEW s \in Streams, Delivery(s)
  PROVE  WakeInv'
<1>0. /\ FramesInv' /\ FramesInv /\ TasksOK /\ ConnOK /\ box \in BoxType /\ box \in Good
      /\ task[s].size \in Nat
  BY DeliveryFrames DEF WakeInv, FramesInv, TypeInv, Good, TasksOK, TaskType
<1>1. ASSUME Reoffer(s)
      PROVE  WakeInv'
  <2>1. CASE /\ box' = Offered(box, s, task[s].size)
             /\ Move(s, "idle")
             /\ HandlerDone(s, TRUE)
    <3>1. task'[s].pc = "idle" /\ \A r \in Streams \ {s} : task'[r] = task[r]
      BY <1>0, <2>1, MoveFacts
    <3>2. Unopened'
      BY <1>0, <1>1, <2>1, <3>1, DoneConn, UnopenedKept DEF Reoffer
    <3> QED
      BY <1>0, <2>1, <3>1, <3>2, OfferWakes
  <2>2. CASE /\ Delays(s, task[s].size, TRUE)
             /\ Move(s, "waiting")
             /\ UNCHANGED <<box, owned, stopped, conn, reserve, writer, named, owed>>
    BY <1>0, <1>1, <2>2, WaitWakes DEF Reoffer
  <2>3. task[s].pc # "none"
    BY <1>1 DEF Reoffer
  <2> QED
    BY <1>0, <1>1, <2>1, <2>2, <2>3, RejectedWakes DEF Reoffer
<1>2. ASSUME Wake(s)
      PROVE  WakeInv'
  <2>1. /\ task[s].pc = "waiting" /\ task'[s].pc = "confirm" /\ task'[s].size = task[s].size
        /\ \A r \in Streams \ {s} : task'[r] = task[r]
    BY <1>0, <1>2, MoveFacts, MoveSize DEF Wake, Holding
  <2>2. Unopened' /\ Sized'
    BY <1>2, <2>1, UnopenedKept DEF Wake, WakeInv, Sized
  <2>3. /\ box'.frames = box.frames /\ box'.bytes = box.bytes
        /\ box'.lanes = box.lanes /\ box'.pending = box.pending
        /\ box'.tickets = box.tickets /\ box'.fired = box.fired \ {s}
    BY <1>0, <1>2 DEF Wake, BoxType
  <2>4. Tracked'
    BY <2>1, <2>3, TicketFacts DEF Tracked, Holding
  <2>5. ASSUME NEW r \in Streams,
               IsHead(box', r), task'[r].pc = "waiting", r \notin box'.fired
        PROVE  ~Fits(box', r, task'[r].size)
    <3>1. r # s /\ task'[r] = task[r] /\ r \notin box.fired /\ IsHead(box, r)
      BY <2>1, <2>3, <2>5 DEF IsHead
    <3>2. ~Fits(box, r, task[r].size)
      BY <2>5, <3>1 DEF WakeInv, NoLostWakeup
    <3> QED
      BY <2>3, <3>1, <3>2 DEF Fits, OrdinaryAdmits
  <2> QED
    BY <1>0, <2>2, <2>4, <2>5 DEF WakeInv, NoLostWakeup
<1>3. ASSUME StopWaiting(s)
      PROVE  WakeInv'
  <2>1. /\ task'[s].pc = "gone" /\ task[s].pc # "none"
        /\ \A r \in Streams \ {s} : task'[r] = task[r]
    BY <1>0, <1>3, MoveFacts DEF StopWaiting
  <2>2. Unopened'
    BY <1>0, <1>3, <2>1, DoneConn, UnopenedKept DEF StopWaiting
  <2>3. box'.tickets = RemoveFirst(box.tickets, s)
        /\ (Roused(box') \/ (~IsHead(box, s) /\ box' = DropTicket(box, s)))
    BY <1>0, <1>3, CancelFields DEF StopWaiting
  <2> QED
    BY <1>0, <2>1, <2>2, <2>3, DropStep
<1>4. ASSUME LagTake(s) \/ LagPurge(s) \/ \E n \in ReplySizes : LagTell(s, n)
      PROVE  WakeInv'
  <2>1. /\ task[s].pc \in {"leaving", "purging", "telling"}
        /\ task'[s].pc \in {"purging", "telling", "gone"}
        /\ \A r \in Streams \ {s} : task'[r] = task[r]
    <3>1. CASE LagTake(s) \/ \E n \in ReplySizes : LagTell(s, n)
      BY <1>0, <3>1, MoveFacts DEF LagTake, LagTell
    <3>2. CASE LagPurge(s)
      BY <1>0, <3>2, SetFacts DEF LagPurge
    <3> QED
      BY <1>4, <3>1, <3>2
  <2>2. PlainTasks
    BY <2>1 DEF PlainTasks, Holding
  <2>3. Unopened'
    BY <1>4, <2>1, UnopenedKept DEF LagTake, LagPurge, LagTell
  <2>4. s \in Attachments
    BY <1>0, <2>1 DEF FramesInv, Owners
  <2>5. box'.tickets = box.tickets /\ (Roused(box') \/ Tighter(box, box'))
    <3>1. CASE LagTake(s)
      BY <3>1, SameIsTighter DEF LagTake
    <3>2. CASE LagPurge(s)
      BY <1>0, <2>4, <3>2, PurgeRouses DEF LagPurge, FramesInv
    <3>3. ASSUME NEW n \in ReplySizes, LagTell(s, n)
          PROVE  Tighter(box, box')
      <4>1. \/ box' = Push(box, Frame("overloaded", s, n))
            \/ box' = Push(box, Frame("reply", System, n))
            \/ box' = box
        BY <3>3 DEF LagTell
      <4>2. /\ "overloaded" \in Kinds /\ "reply" \in Kinds /\ n \in Nat
            /\ s \in Lanes \cup {Nobody} /\ System \in Lanes \cup {Nobody}
        BY LaneKinds, OutboxAssumption DEF Kinds
      <4>3. Frame("overloaded", s, n) \in FrameSet /\ Frame("reply", System, n) \in FrameSet
        BY <4>2, FrameType
      <4> QED
        BY <1>0, <4>1, <4>3, PushTightens, SameIsTighter
    <3> QED
      BY <1>4, <3>1, <3>2, <3>3 DEF Tighter
  <2> QED
    BY <1>0, <2>2, <2>3, <2>5, PlainStep
<1> QED
  BY <1>0, <1>1, <1>2, <1>3, <1>4, TakeWakes DEF Delivery

-----------------------------------------------------------------------------
(* The steps that hold no ticket: the connection task and the writer. *)
Calm ==
    /\ box'.tickets = box.tickets \/ box'.tickets = <<>>
    /\ Roused(box') \/ Tighter(box, box')

KeepsRequest ==
    \/ conn'.at \notin {"replace", "watch"}
    \/ conn'.at = conn.at /\ conn'.of = conn.of

(* The outbox did not change, *)
LEMMA SameIsCalm ==
  ASSUME WakeInv, box' = box
  PROVE  Calm
  BY SameIsTighter DEF Calm

(* took a plain reply, *)
LEMMA ReplyIsCalm ==
  ASSUME WakeInv, NEW kind \in {"error", "welcome", "reply"}, NEW n \in ReplySizes,
         box' = Push(box, Frame(kind, System, n))
  PROVE  Calm
<1>1. kind \in Kinds /\ System \in Lanes \cup {Nobody} /\ n \in Nat
  BY OutboxAssumption DEF Kinds, Lanes
<1>2. Frame(kind, System, n) \in FrameSet
  BY <1>1, FrameType
<1>3. Tighter(box, box')
  BY <1>2, PushTightens DEF WakeInv, FramesInv, TypeInv
<1> QED
  BY <1>3 DEF Calm, Tighter

(* or was closed. *)
LEMMA CloseIsCalm ==
  ASSUME WakeInv, box' = Close(box)
  PROVE  Calm
  BY TicketFacts, CloseRouses DEF Calm

(* A step that leaves every delivery where it is. *)
LEMMA StillStep ==
  ASSUME WakeInv, FramesInv', task' = task, Calm, KeepsRequest
  PROVE  WakeInv'
<1>1. Unopened'
  BY DEF KeepsRequest, WakeInv, Unopened
<1>2. PlainTasks
  BY DEF PlainTasks
<1> QED
  BY <1>1, <1>2, PlainStep DEF Calm

(* Leaving the select loop opens no watch. *)
LEMMA LeaveKeeps ==
  ASSUME ConnOK, NEW failed, Leave(failed)
  PROVE  KeepsRequest
  BY LeaveConn DEF KeepsRequest

(* A refused reply ends the connection and nothing else. *)
LEMMA OverflowWakes ==
  ASSUME WakeInv, FramesInv', NEW n, Overflows(n), task' = task
  PROVE  WakeInv'
<1>1. ConnOK
  BY DEF WakeInv, FramesInv, TypeInv
<1> QED
  BY <1>1, LeaveKeeps, SameIsCalm, StillStep DEF Overflows

(* The watch or attachment that a reply announces starts without a ticket. *)
LEMMA OpenedStep ==
  ASSUME WakeInv, FramesInv', NEW s \in Streams, task[s].pc = "none", Move(s, "idle"),
         Calm, conn'.at = "read"
  PROVE  WakeInv'
<1>1. TasksOK
  BY DEF WakeInv, FramesInv, TypeInv
<1>2. task'[s].pc = "idle" /\ \A r \in Streams \ {s} : task'[r] = task[r]
  BY <1>1, MoveFacts
<1>3. PlainTasks
  BY <1>2 DEF PlainTasks, Holding
<1>4. Unopened'
  BY DEF Unopened
<1> QED
  BY <1>3, <1>4, PlainStep DEF Calm

(* The requests of the client keep the invariant. *)
LEMMA RequestWakes ==
  ASSUME WakeInv, Requests
  PROVE  WakeInv'
<1>0. FramesInv' /\ TasksOK /\ ConnOK /\ box \in BoxType /\ box \in Good /\ conn \in ConnType
  BY RequestFrames DEF WakeInv, FramesInv, TypeInv, Good, ConnOK
<1>1. ASSUME NEW n \in ReplySizes,
             Hello(n) \/ HelloFails(n) \/ Request(n) \/ Retire(n) \/ Droppable(n)
      PROVE  WakeInv'
  <2>1. \/ \E kind \in {"error", "welcome", "reply"} : box' = Push(box, Frame(kind, System, n))
        \/ box' = box \/ box' = Close(box)
    BY <1>1 DEF Hello, HelloFails, Request, Retire, Droppable, Overflows
  <2>2. Calm
    BY <2>1, ReplyIsCalm, SameIsCalm, CloseIsCalm
  <2>3. KeepsRequest
    <3>1. CASE Hello(n)
      BY <1>0, <3>1 DEF Hello, ConnType, KeepsRequest
    <3>2. CASE conn' = Asked(conn)
      BY <1>0, <3>2 DEF Asked, ConnType, KeepsRequest
    <3>3. (\E failed \in BOOLEAN : Leave(failed)) \/ Hello(n) \/ conn' = Asked(conn)
      BY <1>1 DEF HelloFails, Request, Retire, Droppable, Overflows
    <3> QED
      BY <1>0, <3>1, <3>2, <3>3, LeaveKeeps
  <2>4. task' = task
    BY <1>1 DEF Hello, HelloFails, Request, Retire, Droppable
  <2> QED
    BY <1>0, <2>2, <2>3, <2>4, StillStep
<1>2. ASSUME NEW n \in ReplySizes, NEW a \in Attachments, Attach(a, n)
      PROVE  WakeInv'
  <2>1. CASE Answer(Frame("response", a, n)) /\ Move(a, "idle")
    <3>1. Frame("response", a, n) \in FrameSet
      <4>1. "response" \in Kinds /\ a \in Lanes \cup {Nobody} /\ n \in Nat
        BY LaneKinds, OutboxAssumption DEF Kinds
      <4> QED
        BY <4>1, FrameType
    <3>2. Tighter(box, box')
      BY <1>0, <2>1, <3>1, PushTightens DEF Answer
    <3>3. Calm
      BY <3>2 DEF Calm, Tighter
    <3>4. conn'.at = "read"
      BY <1>0, <2>1 DEF Answer, ConnType
    <3>5. a \in Streams /\ task[a].pc = "none"
      BY <1>2, LaneKinds DEF Attach
    <3> QED
      BY <1>0, <2>1, <3>3, <3>4, <3>5, OpenedStep
  <2> QED
    BY <1>0, <1>2, <2>1, OverflowWakes DEF Attach
<1>3. ASSUME NEW a \in Attachments, Detach(a)
      PROVE  WakeInv'
  <2>1. conn'.at = "detach"
    BY <1>0, <1>3 DEF Detach, ConnType
  <2>2. KeepsRequest /\ box' = box /\ task' = task
    BY <1>3, <2>1 DEF Detach, KeepsRequest
  <2> QED
    BY <1>0, <2>2, SameIsCalm, StillStep
<1>4. ASSUME NEW m \in Monitors, MonitorWatch(m)
      PROVE  WakeInv'
  <2>1. conn'.of = m /\ task[m].pc = "none" /\ box' = box /\ task' = task
    BY <1>0, <1>4 DEF MonitorWatch, ConnType
  <2>2. Unopened'
    BY <2>1 DEF Unopened
  <2>3. PlainTasks
    BY <2>1 DEF PlainTasks
  <2> QED
    BY <1>0, <2>1, <2>2, <2>3, SameIsTighter, PlainStep
<1>5. ASSUME NEW l \in Looms, NEW n \in EventSizes, LoomWatch(l, n)
      PROVE  WakeInv'
  <2>1. l \in Streams /\ n \in Nat /\ n > 0 /\ task[l].pc = "none" /\ conn.at = "read"
    BY <1>5, LaneKinds, OutboxAssumption DEF LoomWatch, Reading
  <2>2. CASE box' = Offered(box, l, n) /\ Move(l, "idle") /\ UNCHANGED conn
    <3>1. task'[l].pc = "idle" /\ \A r \in Streams \ {l} : task'[r] = task[r]
      BY <1>0, <2>1, <2>2, MoveFacts
    <3>2. Unopened'
      BY <2>1, <2>2 DEF Unopened
    <3> QED
      BY <1>0, <2>1, <2>2, <3>1, <3>2, OfferWakes
  <2>3. CASE /\ task' = [task EXCEPT ![l] = [pc |-> "busy", size |-> n]]
             /\ conn' = [conn EXCEPT !.at = "baseline", !.of = l]
             /\ UNCHANGED box
    <3>1. task'[l] = [pc |-> "busy", size |-> n] /\ \A r \in Streams \ {l} : task'[r] = task[r]
      BY <1>0, <2>1, <2>3 DEF TasksOK
    <3>2. PlainTasks
      BY <2>1, <3>1 DEF PlainTasks, Holding
    <3>3. conn'.at = "baseline"
      BY <1>0, <2>3 DEF ConnType
    <3>4. Unopened'
      BY <3>3 DEF Unopened
    <3> QED
      BY <1>0, <2>3, <3>2, <3>4, SameIsTighter, PlainStep
  <2>4. CASE box' = Close(box) /\ Leave(TRUE) /\ Move(l, "gone")
    <3>1. task'[l].pc = "gone" /\ \A r \in Streams \ {l} : task'[r] = task[r]
      BY <1>0, <2>1, <2>4, MoveFacts
    <3>2. PlainTasks
      BY <2>1, <3>1 DEF PlainTasks, Holding
    <3>3. Unopened'
      BY <1>0, <2>4, LeaveConn DEF Unopened
    <3> QED
      BY <1>0, <2>4, <3>2, <3>3, CloseRouses, PlainStep
  <2> QED
    BY <1>5, <2>2, <2>3, <2>4 DEF LoomWatch
<1>6. ASSUME Drain \/ PeerGone
      PROVE  WakeInv'
  <2>1. KeepsRequest /\ box' = box /\ task' = task
    BY <1>0, <1>6, LeaveKeeps DEF Drain, PeerGone
  <2> QED
    BY <1>0, <2>1, SameIsCalm, StillStep
<1> QED
  BY <1>1, <1>2, <1>3, <1>4, <1>5, <1>6 DEF Requests

(* The liveness tick keeps the invariant. *)
LEMMA BreachWakes ==
  ASSUME WakeInv, NEW n \in ReplySizes, Breach(n)
  PROVE  WakeInv'
  BY RequestWakes DEF Breach, Requests

(* The later steps of a request keep the invariant; the replacement of a   *)
(* watch purges its lane and rouses.                                       *)
LEMMA HandlingWakes ==
  ASSUME WakeInv, Handling
  PROVE  WakeInv'
<1>0. FramesInv' /\ TasksOK /\ ConnOK /\ box \in BoxType /\ box \in Good /\ conn \in ConnType
  BY HandlingFrames DEF WakeInv, FramesInv, TypeInv, Good, ConnOK
<1>1. ASSUME DetachPurge
      PROVE  WakeInv'
  <2>1. conn.of \in Attachments
    BY <1>0, <1>1 DEF DetachPurge, ConnOK, HandlerOK
  <2>2. Calm
    BY <1>0, <1>1, <2>1, PurgeRouses DEF DetachPurge, WakeInv, FramesInv, Calm
  <2>3. conn'.at = "answer"
    BY <1>0, <1>1 DEF DetachPurge, ConnType
  <2>4. KeepsRequest /\ task' = task
    BY <1>1, <2>3 DEF DetachPurge, KeepsRequest
  <2> QED
    BY <1>0, <2>2, <2>4, StillStep
<1>2. ASSUME NEW n \in ReplySizes, DetachAnswer(n)
      PROVE  WakeInv'
  <2>1. CASE Answer(Frame("reply", System, n))
    <3>1. Calm
      BY <2>1, ReplyIsCalm DEF Answer
    <3>2. conn'.at = "read"
      BY <1>0, <2>1 DEF Answer, ConnType
    <3>3. KeepsRequest /\ task' = task
      BY <1>2, <3>2 DEF DetachAnswer, KeepsRequest
    <3> QED
      BY <1>0, <3>1, <3>3, StillStep
  <2> QED
    BY <1>0, <1>2, <2>1, OverflowWakes DEF DetachAnswer
<1>3. ASSUME NEW n \in ReplySizes, OpenWatch(n)
      PROVE  WakeInv'
  <2>0. conn.of \in Monitors /\ conn.of \in Streams /\ task[conn.of].pc = "none"
    <3>1. conn.of \in Monitors /\ task[conn.of].pc = "none"
      BY <1>0, <1>3 DEF OpenWatch, ConnOK, HandlerOK, WakeInv, Unopened
    <3> QED
      BY <3>1, LaneKinds
  <2>1. CASE /\ box' = Push(box, Frame("watching", conn.of, n))
             /\ Move(conn.of, "idle")
             /\ conn' = [conn EXCEPT !.at = "read", !.of = Nobody, !.slot = conn.of]
    <3>1. Frame("watching", conn.of, n) \in FrameSet
      <4>1. "watching" \in Kinds /\ conn.of \in Lanes \cup {Nobody} /\ n \in Nat
        BY <2>0, LaneKinds, OutboxAssumption DEF Kinds
      <4> QED
        BY <2>0, <4>1, FrameType
    <3>2. Tighter(box, box')
      BY <1>0, <2>1, <3>1, PushTightens
    <3>3. Calm
      BY <3>2 DEF Calm, Tighter
    <3>4. conn'.at = "read"
      BY <1>0, <2>1 DEF ConnType
    <3> QED
      BY <1>0, <2>0, <2>1, <3>3, <3>4, OpenedStep
  <2> QED
    BY <1>0, <1>3, <2>1, OverflowWakes DEF OpenWatch
<1>4. ASSUME ReplaceWatch
      PROVE  WakeInv'
  <2>1. conn.at = "replace" /\ conn.slot \in Lanes
    BY <1>0, <1>4, LaneKinds DEF ReplaceWatch, ConnOK, HandlerOK
  <2>2. Calm
    <3>1. box'.tickets = box.tickets /\ (box' = box \/ Roused(box'))
      BY <1>0, <1>4, <2>1, PurgeOrderedRouses DEF ReplaceWatch
    <3> QED
      BY <3>1, SameIsCalm DEF Calm
  <2>3. conn'.of = conn.of /\ task' = task
    BY <1>0, <1>4 DEF ReplaceWatch, ConnType
  <2>4. Unopened'
    BY <2>1, <2>3 DEF Unopened, WakeInv
  <2>5. PlainTasks
    BY <2>3 DEF PlainTasks
  <2> QED
    BY <1>0, <2>2, <2>4, <2>5, PlainStep DEF Calm
<1> QED
  BY <1>1, <1>2, <1>3, <1>4 DEF Handling

(* The teardown keeps the invariant. *)
LEMMA TeardownWakes ==
  ASSUME WakeInv, Teardown
  PROVE  WakeInv'
<1>0. FramesInv' /\ ConnOK /\ box \in BoxType /\ conn \in ConnType
  BY TeardownFrames DEF WakeInv, FramesInv, TypeInv, Good, ConnOK
<1>1. conn.pc # "open" /\ task' = task
  BY DEF Teardown, HubClose, CloseLane
<1>2. conn'.at = conn.at /\ conn'.of = conn.of
  BY <1>0 DEF Teardown, HubClose, CloseLane, ConnType
<1>3. Calm
  <2>1. CASE HubClose
    <3>1. CASE conn.slot = Nobody
      BY <2>1, <3>1, SameIsCalm DEF HubClose
    <3>2. CASE conn.slot # Nobody
      <4>1. conn.slot \in Lanes
        BY <1>0, <3>2, LaneKinds DEF ConnType
      <4>2. box'.tickets = box.tickets /\ (box' = box \/ Roused(box'))
        BY <1>0, <2>1, <3>2, <4>1, PurgeOrderedRouses DEF HubClose
      <4> QED
        BY <4>2, SameIsCalm DEF Calm
    <3> QED
      BY <3>1, <3>2
  <2>2. CASE CloseLane
    BY <2>2, CloseIsCalm DEF CloseLane
  <2> QED
    BY <2>1, <2>2 DEF Teardown
<1> QED
  BY <1>0, <1>1, <1>2, <1>3, StillStep DEF KeepsRequest

(* recv, from the floor or from a lane, rouses. *)
LEMMA RecvCalms ==
  ASSUME WakeInv, Recv
  PROVE  Calm
<1>0. box \in BoxType /\ box \in Good
  BY DEF WakeInv, FramesInv, TypeInv, Good
<1>1. CASE FromFloor(box) /\ Popped([box EXCEPT !.floor = Tail(@)], Head(box.floor))
  <2> DEFINE c == [box EXCEPT !.floor = Tail(@)]
  <2>1. box.floor # <<>>
    BY <1>1 DEF FromFloor
  <2>2. c \in BoxType
    BY <1>0, <2>1, PopTypes
  <2>3. c.tickets = box.tickets
    BY <1>0 DEF BoxType
  <2>4. box' = FinishPop(c, Head(box.floor))
    BY <1>1 DEF Popped
  <2> HIDE DEF c
  <2> QED
    BY <2>2, <2>3, <2>4, PopRouses DEF Calm
<1>2. ASSUME NEW k \in Lanes, FromLane(box, k), Popped(PopLane(box, k), Head(box.lanes[k]))
      PROVE  Calm
  <2> DEFINE c == PopLane(box, k)
  <2>1. box.lanes[k] # <<>>
    BY <1>0, <1>2, FromLaneHasFrame
  <2>2. c \in BoxType
    BY <1>0, <2>1, PopTypes
  <2>3. c.tickets = box.tickets
    BY <1>0 DEF BoxType, PopLane
  <2>4. box' = FinishPop(c, Head(box.lanes[k]))
    BY <1>2 DEF Popped
  <2> HIDE DEF c
  <2> QED
    BY <2>2, <2>3, <2>4, PopRouses DEF Calm
<1> QED
  BY <1>1, <1>2 DEF Recv

(* The writer keeps the invariant. *)
LEMMA WriterWakes ==
  ASSUME WakeInv, Scheduling \/ Writing \/ WriteFails
  PROVE  WakeInv'
<1>0. FramesInv' /\ box \in BoxType /\ writer.frame \in FrameSet
  BY WriterFrames DEF WakeInv, FramesInv, TypeInv, Good, WritersOK, WriterType
<1>1. UNCHANGED <<task, conn>>
  BY DEF Scheduling, Writing, Look, FireNotice, SelectNotice, SelectClosed, AdoptNotice,
     Final, NoticeDone, Recv, Popped, RecvNone, WriteDone, WriteFails
<1>2. \/ box' = box \/ box' = [box EXCEPT !.closed = TRUE]
      \/ box' = Credit(box, writer.frame) \/ Recv
  BY DEF Scheduling, Writing, Look, FireNotice, SelectNotice, SelectClosed, AdoptNotice,
     Final, NoticeDone, RecvNone, WriteDone, WriteFails
<1>3. CASE box' = [box EXCEPT !.closed = TRUE]
  <2>1. /\ box'.tickets = box.tickets /\ box'.fired = box.fired
        /\ box'.frames = box.frames /\ box'.bytes = box.bytes
        /\ box'.pending = box.pending /\ box'.lanes = box.lanes
    BY <1>0, <1>3 DEF BoxType
  <2>2. box.frames \in Nat /\ box.bytes \in Nat
    BY <1>0, BoxFields
  <2>3. Calm
    BY <2>1, <2>2 DEF Calm, Tighter
  <2> QED
    BY <1>0, <1>1, <2>3, StillStep DEF KeepsRequest
<1>4. CASE box' = Credit(box, writer.frame)
  <2>1. Calm
    BY <1>0, <1>4, CreditRouses DEF Calm
  <2> QED
    BY <1>0, <1>1, <2>1, StillStep DEF KeepsRequest
<1>5. CASE box' = box \/ Recv
  BY <1>0, <1>1, <1>5, SameIsCalm, RecvCalms, StillStep DEF KeepsRequest
<1> QED
  BY <1>2, <1>3, <1>4, <1>5

(* A new connection satisfies the invariant. *)
LEMMA WakeInitially ==
  ASSUME Init
  PROVE  WakeInv
<1>1. FramesInv
  BY FramesInitially
<1>2. box.tickets = <<>>
  BY DEF Init, EmptyBox
<1>3. \A s \in Streams : task[s].pc = "none"
  BY DEF Init
<1>4. IsInjective(<<>>) /\ ToSet(<<>>) = {}
  BY DEF IsInjective, ToSet
<1>5. Tracked /\ Sized /\ NoLostWakeup
  BY <1>2, <1>3, <1>4 DEF Tracked, Sized, NoLostWakeup, IsHead
<1>6. Unopened
  BY DEF Init, Unopened
<1> QED
  BY <1>1, <1>5, <1>6 DEF WakeInv

(* The invariant WakeInv: the frames are as ConnectionOutboxFrames proves  *)
(* and the tickets as described above it.                                  *)
THEOREM WakeInvariant == Spec => []WakeInv
<1>1. Init => WakeInv
  BY WakeInitially
<1>2. WakeInv /\ [Next]_vars => WakeInv'
  <2> SUFFICES ASSUME WakeInv, [Next]_vars
               PROVE  WakeInv'
    OBVIOUS
  <2>1. CASE UNCHANGED vars
    <3>1. FramesInv'
      <4>1. TypeInv'
        BY TypeStep DEF WakeInv, FramesInv
      <4> QED
        BY <2>1, <4>1 DEF vars, WakeInv, FramesInv, Frames, Owners
    <3>2. task' = task /\ box' = box /\ conn' = conn
      BY <2>1 DEF vars
    <3> QED
      BY <3>1, <3>2, SameIsCalm, StillStep DEF KeepsRequest
  <2>2. CASE Next
    BY <2>1, <2>2, DeliveryWakes, StreamingWakes, RequestWakes, BreachWakes,
       HandlingWakes, TeardownWakes, WriterWakes DEF Next, Over
  <2> QED
    BY <2>1, <2>2
<1> QED
  BY <1>1, <1>2, PTL DEF Spec

(* NoLostWakeup: for any number of streams and any bounds, a delivery that *)
(* sleeps on the head ticket with no permit stored has a frame that does   *)
(* not fit; every pop, settled write, purge, cancelled ticket and admission *)
(* that leaves room has fired it.                                          *)
THEOREM NobodySleepsThroughRoom == Spec => []NoLostWakeup
<1>1. WakeInv => NoLostWakeup
  BY DEF WakeInv
<1> QED
  BY <1>1, WakeInvariant, PTL

(* TicketsAreHeld: whichever way a delivery ends (admitted, refused,       *)
(* cancelled, stuck, a closed outbox), its ticket ends with it.            *)
THEOREM TicketsEndWithDeliveries == Spec => []TicketsAreHeld
<1>1. WakeInv => TicketsAreHeld
  BY DEF WakeInv, Tracked, Holding, TicketsAreHeld
<1> QED
  BY <1>1, WakeInvariant, PTL

=============================================================================
