------------------------- MODULE SessionPipeProofs -------------------------
(***************************************************************************)
(* Theorems about SessionPipe, for any set of clients and any value of the *)
(* bounds: type correctness, then the inductive invariant and the safety   *)
(* theorems it gives.  The invariant is built in layers, each inductive on *)
(* top of the ones before it.                                              *)
(***************************************************************************)
EXTENDS SessionPipe, Integers, SequenceTheorems, Tally, TLAPS

-----------------------------------------------------------------------------
(* Type correctness. *)

(* The program counters that the steps name. *)
LEMMA PcLabels ==
    /\ "done" \in Pcs /\ "registered" \in Pcs /\ "owned" \in Pcs
    /\ "replay" \in Pcs /\ "page" \in Pcs /\ "buffered" \in Pcs
    /\ "buffered_deliver" \in Pcs /\ "live" \in Pcs /\ "live_deliver" \in Pcs
    /\ "reregister" \in Pcs /\ "final" \in Pcs /\ "final_replay" \in Pcs
    /\ "final_page" \in Pcs
  BY DEF Pcs, RunningPcs, StreamPcs, FinalPcs

(* The initial records are well typed. *)
LEMMA InitialRecords ==
    /\ NoReg \in RegType /\ NoChan \in ChanType
    /\ NoTask \in TaskType /\ NoWire \in WireType
<1>1. NoReg \in RegType
  BY DEF NoReg, RegType
<1>2. NoChan \in ChanType
  BY DEF NoChan, ChanType
<1>3. NoTask \in TaskType
  BY PcLabels DEF NoTask, TaskType, Outcomes
<1>4. NoWire \in WireType
  BY DEF NoWire, WireType
<1> QED
  BY <1>1, <1>2, <1>3, <1>4

(* The initial state is well typed. *)
LEMMA TypeInit ==
  ASSUME Init
  PROVE  TypeOK
<1>1. /\ reg \in [Clients -> RegType]   /\ chan \in [Clients -> ChanType]
      /\ task \in [Clients -> TaskType] /\ wire \in [Clients -> WireType]
  BY InitialRecords DEF Init
<1>2. /\ journal \in Seq(Kinds) /\ head \in Nat
      /\ actor \in {"idle", "publishing", "stopped"} /\ batchWeight \in Nat
  BY DEF Init
<1>3. /\ drain \in {"serving", "draining", "graceful", "forced"}
      /\ owned \subseteq Clients /\ connected \subseteq Clients
      /\ suffixFailed \in BOOLEAN /\ faults \in Nat
  BY DEF Init
<1> QED
  BY <1>1, <1>2, <1>3 DEF TypeOK

(* Of the frames a lane can hold.                                          *)
LEMMA FrameTypes ==
  ASSUME NEW s \in Nat
  PROVE  /\ Event(s) \in Frames /\ CaughtUp(s) \in Frames
         /\ Lagged(s) \in Frames /\ Response(s) \in Frames
         /\ Overloaded \in Frames
  BY DEF Event, CaughtUp, Lagged, Response, Overloaded, Frames

(* What the helpers that several actions share do to the types.            *)
LEMMA FinishType ==
  ASSUME NEW c \in Clients, NEW how \in Outcomes,
         task \in [Clients -> TaskType], Finish(c, how)
  PROVE  task' \in [Clients -> TaskType]
<1>1. [task[c] EXCEPT !.pc = "done", !.waiting = "no", !.outcome = how]
        \in TaskType
  BY PcLabels DEF TaskType
<1> QED
  BY <1>1, PcLabels DEF Finish, TaskType

(* Giving up ownership keeps the hub's maps well typed. *)
LEMMA DisownType ==
  ASSUME NEW c \in Clients, owned \subseteq Clients,
         reg \in [Clients -> RegType], Disown(c)
  PROVE  owned' \subseteq Clients /\ reg' \in [Clients -> RegType]
  BY DEF Disown, RegType

(* Replacing a lane keeps the wires well typed. *)
LEMMA LaneType ==
  ASSUME NEW c \in Clients, wire \in [Clients -> WireType],
         NEW lane \in Seq(Frames)
  PROVE  [wire EXCEPT ![c].lane = lane] \in [Clients -> WireType]
  BY DEF WireType

(* Lanes of at most one frame are lanes. *)
LEMMA ShortLanes ==
    << >> \in Seq(Frames) /\ \A f \in Frames : <<f>> \in Seq(Frames)
  OBVIOUS

(* Head and tail of a non-empty sequence. *)
LEMMA HeadAndTail ==
  ASSUME NEW S, NEW q \in Seq(S), q # << >>
  PROVE  Head(q) \in S /\ Tail(q) \in Seq(S)
  OBVIOUS

(* A function on an initial segment is a sequence. *)
LEMMA FunctionIsSequence ==
  ASSUME NEW S, NEW n \in Nat, NEW f \in [1..n -> S]
  PROVE  f \in Seq(S)
  OBVIOUS

(* A committed batch keeps the types. *)
LEMMA CommitType ==
  ASSUME TypeOK, NEW n \in 1..MaxBatch, NEW kinds \in [1..n -> Kinds],
         NEW w \in Weights, CommitBatch(kinds, w)
  PROVE  TypeOK'
<1>1. kinds \in Seq(Kinds)
  BY PipeAssumption
<1>2. w \in Nat
  BY PipeAssumption
<1> QED
  BY <1>1, <1>2 DEF CommitBatch, TypeOK, hubVars

(* What a publication leaves in a channel is a channel. *)
LEMMA FedType ==
  ASSUME TypeOK, NEW c \in Clients
  PROVE  Fed(c) \in ChanType
<1>1. Accepted(c) \in Int
  BY PipeAssumption DEF TypeOK, Accepted, BatchLen, Smaller, ChanType
<1>2. Queued(Accepted(c)) \in Seq([seq : Nat, weight : Nat])
  <2>1. CASE Accepted(c) <= 0
    <3>1. 1..Accepted(c) = {}
      BY <1>1, <2>1
    <3>2. Queued(Accepted(c)) = << >>
      BY <3>1 DEF Queued
    <3> QED
      BY <3>2
  <2>2. CASE Accepted(c) > 0
    <3>1. Accepted(c) \in Nat
      BY <1>1, <2>2
    <3>2. Queued(Accepted(c)) \in [1..Accepted(c) -> [seq : Nat, weight : Nat]]
      BY <3>1 DEF Queued, TypeOK
    <3> QED
      BY <3>1, <3>2, FunctionIsSequence
  <2> QED
    BY <1>1, <2>1, <2>2
<1>3. chan[c].queue \in Seq([seq : Nat, weight : Nat]) /\ chan[c].bytes \in Nat
      /\ chan[c].lagged \in BOOLEAN
  BY DEF TypeOK, ChanType
<1> QED
  BY <1>2, <1>3 DEF Fed, ChanType, TypeOK

(* A publication keeps the types, *)
LEMMA PublishType ==
  ASSUME TypeOK, Publish
  PROVE  TypeOK'
<1>1. ASSUME NEW c \in Clients
      PROVE  PublishedChan(c) \in ChanType
  BY FedType DEF PublishedChan, TypeOK
<1>2. ASSUME NEW c \in Clients
      PROVE  PublishedReg(c) \in RegType
  <2>1. Accepted(c) \in Int
    BY PipeAssumption DEF TypeOK, Accepted, BatchLen, Smaller, ChanType
  <2>2. (IF Accepted(c) > 0 THEN head + Accepted(c) ELSE reg[c].lastBuffered)
          \in Nat
    BY <2>1 DEF TypeOK, RegType
  <2>3. reg[c] \in RegType
    BY DEF TypeOK
  <2> QED
    BY <2>2, <2>3, InitialRecords DEF PublishedReg, RegType
<1> QED
  BY <1>1, <1>2 DEF Publish, TypeOK, hubVars

(* as does a detach in the actor, *)
LEMMA ActorDetachType ==
  ASSUME TypeOK, NEW c \in Clients, ActorDetach(c)
  PROVE  TypeOK'
  BY InitialRecords DEF ActorDetach, TypeOK, actorVars, hubVars

(* a registration, *)
LEMMA RegisterType ==
  ASSUME TypeOK, NEW c \in Clients, NEW after \in 0..head,
         NEW sealed \in BOOLEAN, Register(c, after, sealed)
  PROVE  TypeOK'
<1>1. head \in Nat /\ after \in Nat
  BY DEF TypeOK
<1>2. reg' \in [Clients -> RegType]
  BY <1>1 DEF Register, TypeOK, RegType
<1>3. task' \in [Clients -> TaskType]
  <2>1. [NoTask EXCEPT !.pc = "registered", !.lastSent = after,
                       !.highWater = head, !.sealing = sealed] \in TaskType
    BY <1>1, InitialRecords, PcLabels DEF TaskType
  <2> QED
    BY <2>1 DEF Register, TypeOK
<1>4. wire' \in [Clients -> WireType]
  <2>1. [NoWire EXCEPT !.seen = after, !.initialHigh = head] \in WireType
    BY <1>1, InitialRecords DEF WireType
  <2> QED
    BY <2>1 DEF Register, TypeOK
<1> QED
  BY <1>2, <1>3, <1>4, InitialRecords DEF Register, TypeOK, actorVars, hubVars

(* the later steps of an attach, *)
LEMMA AttachType ==
  ASSUME TypeOK, NEW c \in Clients,
         InsertOwner(c) \/ StageAndSpawn(c) \/ StageRefused(c) \/ AttachFailed(c)
  PROVE  TypeOK'
<1>1. CASE InsertOwner(c)
  BY <1>1, PcLabels DEF InsertOwner, TypeOK, TaskType, actorVars
<1>2. "detached" \in Outcomes
  BY DEF Outcomes
<1>3. CASE StageAndSpawn(c)
  <2>1. Response(task[c].highWater) \in Frames
    BY FrameTypes DEF TypeOK, TaskType
  <2>2. wire' \in [Clients -> WireType]
    BY <1>3, <2>1, LaneType, ShortLanes DEF StageAndSpawn, TypeOK
  <2>3. task' \in [Clients -> TaskType]
    <3>1. CASE c \in owned
      <4>1. task' = [task EXCEPT ![c].pc = "replay"]
        BY <1>3, <3>1 DEF StageAndSpawn
      <4> QED
        BY <4>1, PcLabels DEF TypeOK, TaskType
    <3>2. CASE c \notin owned
      BY <1>2, <1>3, <3>2, FinishType DEF StageAndSpawn, TypeOK
    <3> QED
      BY <3>1, <3>2
  <2>4. suffixFailed' \in BOOLEAN
    BY <1>3 DEF StageAndSpawn, TypeOK
  <2>5. UNCHANGED <<actorVars, drain, owned, connected, faults, reg, chan>>
    BY <1>3 DEF StageAndSpawn
  <2> QED
    BY <2>2, <2>3, <2>4, <2>5 DEF TypeOK, actorVars
<1>4. ASSUME FatalToConnection(c)
      PROVE  connected' \subseteq Clients /\ wire' \in [Clients -> WireType]
  BY <1>4, LaneType, ShortLanes DEF FatalToConnection, TypeOK
<1>5. CASE StageRefused(c)
  <2>1. owned' \subseteq Clients /\ reg' \in [Clients -> RegType]
    BY <1>5, DisownType DEF StageRefused, TypeOK
  <2>2. task' \in [Clients -> TaskType]
    BY <1>2, <1>5, FinishType DEF StageRefused, TypeOK
  <2>3. faults' \in Nat
    BY <1>5 DEF StageRefused, TypeOK
  <2>4. UNCHANGED <<actorVars, drain, suffixFailed, chan>> /\ FatalToConnection(c)
    BY <1>5 DEF StageRefused
  <2> QED
    BY <1>4, <2>1, <2>2, <2>3, <2>4 DEF TypeOK, actorVars
<1>6. CASE AttachFailed(c)
  <2>1. task' \in [Clients -> TaskType]
    BY <1>2, <1>6, FinishType DEF AttachFailed, TypeOK
  <2>2. faults' \in Nat
    BY <1>6 DEF AttachFailed, TypeOK
  <2>3. /\ UNCHANGED <<actorVars, drain, owned, suffixFailed, reg, chan>>
        /\ FatalToConnection(c)
    BY <1>6 DEF AttachFailed
  <2> QED
    BY <1>4, <2>1, <2>2, <2>3 DEF TypeOK, actorVars
<1> QED
  BY <1>1, <1>3, <1>5, <1>6

(* and lag_and_detach. *)
LEMMA LagAndDetachType ==
  ASSUME TypeOK, NEW c \in Clients, NEW cost \in Nat, LagAndDetach(c, cost)
  PROVE  TypeOK'
<1>1. owned' \subseteq Clients /\ reg' \in [Clients -> RegType]
  BY DisownType DEF LagAndDetach, TypeOK
<1>2. task' \in [Clients -> TaskType]
  BY FinishType DEF LagAndDetach, TypeOK, Outcomes
<1>3. wire' \in [Clients -> WireType]
  <2>1. task[c].lastSent \in Nat
    BY DEF TypeOK, TaskType
  <2> DEFINE notice == IF ResponseStaged(c) THEN Overloaded
                       ELSE Lagged(task[c].lastSent)
  <2>2. notice \in Frames
    BY <2>1, FrameTypes
  <2>3. \/ wire' = [wire EXCEPT ![c].lane = <<notice>>]
        \/ wire' = [wire EXCEPT ![c].lane = << >>]
    BY DEF LagAndDetach
  <2> HIDE DEF notice
  <2>4. <<notice>> \in Seq(Frames)
    BY <2>2, ShortLanes
  <2>5. wire \in [Clients -> WireType]
    BY DEF TypeOK
  <2>6. CASE wire' = [wire EXCEPT ![c].lane = <<notice>>]
    BY <2>4, <2>5, <2>6, LaneType
  <2>7. CASE wire' = [wire EXCEPT ![c].lane = << >>]
    BY <2>5, <2>7, LaneType, ShortLanes
  <2> QED
    BY <2>3, <2>6, <2>7
<1>4. faults' \in Nat
  BY DEF LagAndDetach, TypeOK
<1>5. UNCHANGED <<actorVars, drain, connected, suffixFailed, chan>>
  BY DEF LagAndDetach
<1> QED
  BY <1>1, <1>2, <1>3, <1>4, <1>5 DEF TypeOK, actorVars

(* Advancing the cursor keeps the tasks well typed. *)
LEMMA AdvanceType ==
  ASSUME NEW c \in Clients, task \in [Clients -> TaskType], AdvanceInPage(c)
  PROVE  task' \in [Clients -> TaskType]
<1> DEFINE next == IF task[c].lastSent + 1 < task[c].pageEnd THEN task[c].pc
                   ELSE IF task[c].pc = "page" THEN "replay"
                   ELSE "final_replay"
<1>1. next \in Pcs
  BY PcLabels DEF TaskType
<1>2. task' = [task EXCEPT ![c] = [task[c] EXCEPT
                 !.lastSent = task[c].lastSent + 1, !.waiting = "no",
                 !.pc = next]]
  BY DEF AdvanceInPage
<1>3. task[c].lastSent + 1 \in Nat
  BY DEF TaskType
<1> HIDE DEF next
<1>4. [task[c] EXCEPT !.lastSent = task[c].lastSent + 1, !.waiting = "no",
                      !.pc = next] \in TaskType
  BY <1>1, <1>3 DEF TaskType
<1> QED
  BY <1>2, <1>4

(* An AttachCaughtUp keeps the wires well typed. *)
LEMMA AnnounceType ==
  ASSUME TypeOK, NEW c \in Clients, Announce(c)
  PROVE  wire' \in [Clients -> WireType]
<1>1. task[c].highWater \in Nat
  BY DEF TypeOK, TaskType
<1>2. CaughtUp(task[c].highWater) \in Frames
  BY <1>1, FrameTypes
<1>3. Append(wire[c].lane, CaughtUp(task[c].highWater)) \in Seq(Frames)
  BY <1>2 DEF TypeOK, WireType
<1> QED
  BY <1>1, <1>3 DEF Announce, TypeOK, WireType

(* The store replay keeps the types, *)
LEMMA ReplayType ==
  ASSUME TypeOK, NEW c \in Clients,
         \/ ReadPage(c) \/ ReplayLagged(c) \/ ReplayReadFailed(c)
         \/ ReplaySkip(c) \/ ReplayEvent(c) \/ ReplayCaughtUp(c)
  PROVE  TypeOK'
<1>1. CASE ReadPage(c)
  <2>1. PICK n \in 1..PageSize :
          task' = [task EXCEPT ![c].pageEnd = task[c].lastSent + n,
                               ![c].pc = IF @ = "replay" THEN "page"
                                         ELSE "final_page"]
    BY <1>1 DEF ReadPage
  <2>2. task[c].lastSent + n \in Nat
    BY PipeAssumption DEF TypeOK, TaskType
  <2>3. [task[c] EXCEPT !.pageEnd = task[c].lastSent + n,
                        !.pc = IF @ = "replay" THEN "page" ELSE "final_page"]
          \in TaskType
    BY <2>2, PcLabels DEF TypeOK, TaskType
  <2>4. task' \in [Clients -> TaskType]
    BY <2>1, <2>3 DEF TypeOK
  <2> QED
    BY <1>1, <2>4 DEF ReadPage, TypeOK, actorVars, hubVars
<1>2. CASE ReplayLagged(c)
  <2>1. [task[c] EXCEPT !.pc = "reregister", !.inReplay = TRUE] \in TaskType
    BY PcLabels DEF TypeOK, TaskType
  <2> QED
    BY <1>2, <2>1 DEF ReplayLagged, TypeOK, actorVars, hubVars
<1>3. CASE ReplayReadFailed(c)
  <2>1. owned' \subseteq Clients /\ reg' \in [Clients -> RegType]
    BY <1>3, DisownType DEF ReplayReadFailed, TypeOK
  <2>2. task' \in [Clients -> TaskType]
    BY <1>3, FinishType DEF ReplayReadFailed, TypeOK, Outcomes
  <2> QED
    BY <1>3, <2>1, <2>2 DEF ReplayReadFailed, TypeOK, actorVars
<1>4. CASE ReplaySkip(c)
  <2>1. task' \in [Clients -> TaskType]
    BY <1>4, AdvanceType DEF ReplaySkip, TypeOK
  <2>2. task[c].lastSent + 1 \in Nat
    BY DEF TypeOK, TaskType
  <2>3. wire' \in [Clients -> WireType]
    BY <1>4, <2>2 DEF ReplaySkip, TypeOK, WireType
  <2> QED
    BY <1>4, <2>1, <2>3 DEF ReplaySkip, TypeOK, actorVars, hubVars
<1>5. CASE ReplayEvent(c)
  <2>1. task' \in [Clients -> TaskType]
    BY <1>5, AdvanceType DEF ReplayEvent, TypeOK
  <2>2. Event(task[c].lastSent + 1) \in Frames
    BY FrameTypes DEF TypeOK, TaskType
  <2>3. Append(wire[c].lane, Event(task[c].lastSent + 1)) \in Seq(Frames)
    BY <2>2 DEF TypeOK, WireType
  <2>4. wire' \in [Clients -> WireType]
    BY <1>5, <2>3, LaneType DEF ReplayEvent, TypeOK
  <2> QED
    BY <1>5, <2>1, <2>4 DEF ReplayEvent, TypeOK, actorVars, hubVars
<1>6. CASE ReplayCaughtUp(c)
  <2>1. task' \in [Clients -> TaskType]
    <3>1. [task[c] EXCEPT !.pc = "buffered", !.sealing = FALSE,
                          !.waiting = "no"] \in TaskType
      BY PcLabels DEF TypeOK, TaskType
    <3> QED
      BY <1>6, <3>1 DEF ReplayCaughtUp, TypeOK
  <2>2. wire' \in [Clients -> WireType]
    BY <1>6, AnnounceType DEF ReplayCaughtUp
  <2> QED
    BY <1>6, <2>1, <2>2 DEF ReplayCaughtUp, TypeOK, actorVars, hubVars
<1> QED
  BY <1>1, <1>2, <1>3, <1>4, <1>5, <1>6

(* as do the steps on the catch-up channel, *)
LEMMA ChannelType ==
  ASSUME TypeOK, NEW c \in Clients,
         \/ Receive(c) \/ ChannelEvent(c) \/ GoLive(c) \/ LiveLagged(c)
         \/ ChannelClosed(c) \/ Reregister(c) \/ ReregisterRefused(c)
  PROVE  TypeOK'
<1>1. task[c] \in TaskType /\ chan[c] \in ChanType /\ wire[c] \in WireType
  BY DEF TypeOK
<1>2. CASE Receive(c)
  <2> DEFINE entry == Head(chan[c].queue)
  <2>1. chan[c].queue # << >>
    BY <1>2 DEF Receive
  <2>2. entry \in [seq : Nat, weight : Nat]
        /\ Tail(chan[c].queue) \in Seq([seq : Nat, weight : Nat])
    <3>1. chan[c].queue \in Seq([seq : Nat, weight : Nat])
      BY <1>1 DEF ChanType
    <3> QED
      BY <2>1, <3>1, HeadAndTail
  <2>3. Credit(chan[c].bytes, entry.weight) \in Nat
    BY <1>1, <2>2 DEF Credit, ChanType
  <2>4. chan' = [chan EXCEPT ![c] = [chan[c] EXCEPT
                   !.queue = Tail(chan[c].queue),
                   !.bytes = Credit(chan[c].bytes, entry.weight)]]
    BY <1>2 DEF Receive
  <2>5. \/ task' = task
        \/ task' = [task EXCEPT ![c] = [task[c] EXCEPT
                      !.pending = entry.seq,
                      !.pc = IF @ = "buffered" THEN "buffered_deliver"
                                               ELSE "live_deliver"]]
    BY <1>2 DEF Receive
  <2> HIDE DEF entry
  <2>6. [chan[c] EXCEPT !.queue = Tail(chan[c].queue),
                        !.bytes = Credit(chan[c].bytes, entry.weight)] \in ChanType
    BY <1>1, <2>2, <2>3 DEF ChanType
  <2>7. [task[c] EXCEPT !.pending = entry.seq,
                        !.pc = IF @ = "buffered" THEN "buffered_deliver"
                                                 ELSE "live_deliver"] \in TaskType
    BY <1>1, <2>2, PcLabels DEF TaskType
  <2>8. chan' \in [Clients -> ChanType] /\ task' \in [Clients -> TaskType]
    BY <2>4, <2>5, <2>6, <2>7 DEF TypeOK
  <2> QED
    BY <1>2, <2>8 DEF Receive, TypeOK, actorVars, hubVars
<1>3. CASE ChannelEvent(c)
  <2>1. Event(task[c].pending) \in Frames
    BY <1>1, FrameTypes DEF TaskType
  <2>2. Append(wire[c].lane, Event(task[c].pending)) \in Seq(Frames)
    BY <1>1, <2>1 DEF WireType
  <2>3. wire' \in [Clients -> WireType]
    BY <1>3, <2>2, LaneType DEF ChannelEvent, TypeOK
  <2>4. [task[c] EXCEPT !.lastSent = task[c].pending, !.waiting = "no",
                        !.pc = IF @ = "buffered_deliver" THEN "buffered"
                                                         ELSE "live"] \in TaskType
    BY <1>1, PcLabels DEF TaskType
  <2>5. task' \in [Clients -> TaskType]
    BY <1>3, <2>4 DEF ChannelEvent, TypeOK
  <2> QED
    BY <1>3, <2>3, <2>5 DEF ChannelEvent, TypeOK, actorVars, hubVars
<1>4. CASE GoLive(c)
  <2>1. [task[c] EXCEPT !.pc = IF task[c].highWater > task[c].lastSent
                               THEN "replay" ELSE "live"] \in TaskType
    BY <1>1, PcLabels DEF TaskType
  <2> QED
    BY <1>4, <2>1 DEF GoLive, TypeOK, actorVars, hubVars
<1>5. CASE LiveLagged(c)
  <2>1. [task[c] EXCEPT !.pc = "reregister", !.inReplay = FALSE] \in TaskType
    BY <1>1, PcLabels DEF TaskType
  <2> QED
    BY <1>5, <2>1 DEF LiveLagged, TypeOK, actorVars, hubVars
<1>6. CASE ChannelClosed(c)
  <2>1. [task[c] EXCEPT !.pc = "final", !.inReplay = FALSE] \in TaskType
    BY <1>1, PcLabels DEF TaskType
  <2>2. "complete" \in Outcomes
    BY DEF Outcomes
  <2>3. task' \in [Clients -> TaskType]
    <3>1. CASE chan[c].lagged
      BY <1>6, <2>1, <3>1 DEF ChannelClosed, TypeOK
    <3>2. CASE ~chan[c].lagged
      BY <1>6, <2>2, <3>2, FinishType DEF ChannelClosed, TypeOK
    <3> QED
      BY <3>1, <3>2
  <2> QED
    BY <1>6, <2>3 DEF ChannelClosed, TypeOK, actorVars, hubVars
<1>7. CASE Reregister(c)
  <2>1. reg' \in [Clients -> RegType]
    <3>1. [reg[c] EXCEPT !.lastBuffered = head, !.active = TRUE] \in RegType
      BY DEF TypeOK, RegType
    <3> QED
      BY <1>7, <3>1 DEF Reregister, TypeOK
  <2>2. task' \in [Clients -> TaskType]
    <3>1. [task[c] EXCEPT !.pc = "replay", !.highWater = head] \in TaskType
      BY <1>1, PcLabels DEF TypeOK, TaskType
    <3> QED
      BY <1>7, <3>1 DEF Reregister, TypeOK
  <2>3. chan' \in [Clients -> ChanType]
    BY <1>7, InitialRecords DEF Reregister, TypeOK
  <2> QED
    BY <1>7, <2>1, <2>2, <2>3 DEF Reregister, TypeOK, actorVars, hubVars
<1>8. CASE ReregisterRefused(c)
  <2>1. [task[c] EXCEPT !.pc = "final"] \in TaskType
    BY <1>1, PcLabels DEF TaskType
  <2> QED
    BY <1>8, <2>1 DEF ReregisterRefused, TypeOK, actorVars, hubVars
<1> QED
  BY <1>2, <1>3, <1>4, <1>5, <1>6, <1>7, <1>8

(* and the end of the stream. *)
LEMMA FinalType ==
  ASSUME TypeOK, NEW c \in Clients,
         FinalHead(c) \/ FinalCaughtUp(c) \/ FinalSuffixFailed(c) \/ Cancelled(c)
  PROVE  TypeOK'
<1>1. task[c] \in TaskType
  BY DEF TypeOK
<1>2. ASSUME FinishFinal(c)
      PROVE  /\ owned' \subseteq Clients /\ reg' \in [Clients -> RegType]
             /\ task' \in [Clients -> TaskType]
  <2>1. owned' \subseteq Clients /\ reg' \in [Clients -> RegType]
    <3>1. CASE task[c].inReplay
      BY <1>2, <3>1, DisownType DEF FinishFinal, TypeOK
    <3>2. CASE ~task[c].inReplay
      BY <1>2, <3>2 DEF FinishFinal, TypeOK
    <3> QED
      BY <3>1, <3>2
  <2>2. (IF c \in owned THEN "complete" ELSE "detached") \in Outcomes
    BY DEF Outcomes
  <2>3. task' \in [Clients -> TaskType]
    BY <1>2, <2>2, FinishType DEF FinishFinal, TypeOK
  <2> QED
    BY <2>1, <2>3
<1>3. CASE FinalHead(c)
  <2>1. [task[c] EXCEPT !.pc = "final_replay", !.highWater = Len(journal)]
          \in TaskType
    <3>1. Len(journal) \in Nat
      BY DEF TypeOK
    <3> QED
      BY <1>1, <3>1, PcLabels DEF TaskType
  <2>2. /\ owned' \subseteq Clients /\ reg' \in [Clients -> RegType]
        /\ task' \in [Clients -> TaskType]
    <3>1. CASE Len(journal) <= task[c].lastSent
      BY <1>2, <1>3, <3>1 DEF FinalHead
    <3>2. CASE ~(Len(journal) <= task[c].lastSent)
      BY <1>3, <2>1, <3>2 DEF FinalHead, TypeOK
    <3> QED
      BY <3>1, <3>2
  <2> QED
    BY <1>3, <2>2 DEF FinalHead, TypeOK, actorVars
<1>4. CASE FinalCaughtUp(c)
  <2>1. wire' \in [Clients -> WireType]
    BY <1>4, AnnounceType DEF FinalCaughtUp
  <2> QED
    BY <1>2, <1>4, <2>1 DEF FinalCaughtUp, TypeOK, actorVars
<1>5. CASE FinalSuffixFailed(c)
  <2>1. task' \in [Clients -> TaskType]
    BY <1>5, FinishType DEF FinalSuffixFailed, TypeOK, Outcomes
  <2>2. faults' \in Nat /\ suffixFailed' \in BOOLEAN
    BY <1>5 DEF FinalSuffixFailed, TypeOK
  <2>3. UNCHANGED <<actorVars, drain, owned, connected, reg, chan, wire>>
    BY <1>5 DEF FinalSuffixFailed
  <2> QED
    BY <2>1, <2>2, <2>3 DEF TypeOK, actorVars
<1>6. CASE Cancelled(c)
  <2>1. task' \in [Clients -> TaskType]
    BY <1>6, FinishType DEF Cancelled, TypeOK, Outcomes
  <2> QED
    BY <1>6, <2>1 DEF Cancelled, TypeOK, actorVars, hubVars
<1> QED
  BY <1>3, <1>4, <1>5, <1>6

(* Every step of a replay task keeps the types, *)
LEMMA TaskStepType ==
  ASSUME TypeOK, NEW c \in Clients, TaskStep(c)
  PROVE  TypeOK'
<1>1. CASE Busy(c)
  <2>1. PICK w \in {"lag_open", "lag_closed"} :
          task' = [task EXCEPT ![c].waiting = w]
    BY <1>1 DEF Busy
  <2>2. task' \in [Clients -> TaskType]
    BY <2>1 DEF TypeOK, TaskType
  <2> QED
    BY <1>1, <2>2 DEF Busy, TypeOK, actorVars, hubVars
<1>2. CASE Stuck(c) \/ Refused(c)
  BY <1>2, LagAndDetachType DEF Stuck, Refused
<1> QED
  BY <1>1, <1>2, AttachType, ReplayType, ChannelType, FinalType DEF TaskStep

(* every step of a client, *)
LEMMA ClientStepType ==
  ASSUME TypeOK, NEW c \in Clients, ClientStep(c)
  PROVE  TypeOK'
<1>1. CASE \E after \in 0..head, sealed \in BOOLEAN : Register(c, after, sealed)
  BY <1>1, RegisterType
<1>2. CASE Deliver(c)
  <2> DEFINE frame == Head(wire[c].lane)
             received == [wire[c] EXCEPT
                !.lane = Tail(wire[c].lane),
                !.named = @ \/ frame.kind = "response",
                !.seen = IF frame.kind = "event" THEN frame.seq ELSE @]
  <2>1. wire[c].lane \in Seq(Frames) /\ wire[c].lane # << >>
    BY <1>2 DEF Deliver, TypeOK, WireType
  <2>2. frame \in Frames /\ Tail(wire[c].lane) \in Seq(Frames)
    BY <2>1
  <2>3. frame.seq \in Nat
    BY <2>2 DEF Frames
  <2>4. wire' = [wire EXCEPT ![c] = received]
    BY <1>2 DEF Deliver
  <2>5. received \in WireType
    <3> HIDE DEF frame
    <3> QED
      BY <2>2, <2>3 DEF TypeOK, WireType
  <2> HIDE DEF received
  <2>6. wire' \in [Clients -> WireType]
    BY <2>4, <2>5 DEF TypeOK
  <2>7. UNCHANGED <<actorVars, hubVars, reg, chan, task>>
    BY <1>2 DEF Deliver
  <2> QED
    BY <2>6, <2>7 DEF TypeOK, actorVars, hubVars
<1>3. CASE ClientDetach(c)
  <2>1. owned' \subseteq Clients /\ reg' \in [Clients -> RegType]
    BY <1>3, DisownType DEF ClientDetach, TypeOK
  <2>2. wire' \in [Clients -> WireType]
    BY <1>3, LaneType, ShortLanes DEF ClientDetach, TypeOK
  <2> QED
    BY <1>3, <2>1, <2>2 DEF ClientDetach, TypeOK, actorVars
<1>4. CASE Disconnect(c)
  <2>1. wire' \in [Clients -> WireType]
    BY <1>4, LaneType, ShortLanes DEF Disconnect, TypeOK
  <2> QED
    BY <1>4, <2>1 DEF Disconnect, TypeOK, actorVars
<1>5. CASE CloseConnection(c)
  <2>1. owned' \subseteq Clients /\ reg' \in [Clients -> RegType]
    BY <1>5, DisownType DEF CloseConnection, TypeOK
  <2> QED
    BY <1>5, <2>1 DEF CloseConnection, TypeOK, actorVars
<1>6. CASE Reconnect(c)
  BY <1>6 DEF Reconnect, TypeOK, actorVars
<1> QED
  BY <1>1, <1>2, <1>3, <1>4, <1>5, <1>6 DEF ClientStep

(* every step of the hub, *)
LEMMA HubStepType ==
  ASSUME TypeOK, HubStep
  PROVE  TypeOK'
<1>1. CASE BeginDraining
  BY <1>1 DEF BeginDraining, TypeOK, actorVars
<1>2. CASE StopActor
  BY <1>2, InitialRecords DEF StopActor, TypeOK, hubVars
<1>3. CASE JoinReplays
  BY <1>3 DEF JoinReplays, TypeOK, actorVars
<1>4. CASE ForceStop
  <2>1. ASSUME NEW c \in Clients
        PROVE  [task[c] EXCEPT !.pc = "done", !.waiting = "no",
                               !.outcome = "aborted"] \in TaskType
    BY PcLabels DEF TypeOK, TaskType, Outcomes
  <2>2. task' \in [Clients -> TaskType]
    BY <1>4, <2>1 DEF ForceStop, TypeOK
  <2>3. reg' \in [Clients -> RegType]
    BY <1>4, InitialRecords DEF ForceStop
  <2>4. /\ drain' = "forced" /\ actor' = "stopped" /\ owned' = {}
        /\ faults' = faults + 1
        /\ UNCHANGED <<journal, head, batchWeight, connected, suffixFailed,
                       chan, wire>>
    BY <1>4 DEF ForceStop
  <2> QED
    BY <2>2, <2>3, <2>4 DEF TypeOK
<1>5. CASE Restart
  <2>1. ASSUME NEW c \in Clients
        PROVE  [wire[c] EXCEPT !.lane = << >>] \in WireType
    BY ShortLanes DEF TypeOK, WireType
  <2>2. wire' \in [Clients -> WireType] /\ task' \in [Clients -> TaskType]
    BY <1>5, <2>1, InitialRecords DEF Restart
  <2>3. /\ drain' = "serving" /\ actor' = "idle" /\ head' = Len(journal)
        /\ connected' = {} /\ owned' = {} /\ suffixFailed' = FALSE
        /\ UNCHANGED <<journal, batchWeight, faults, reg, chan>>
    BY <1>5 DEF Restart
  <2>4. Len(journal) \in Nat
    BY DEF TypeOK
  <2> QED
    BY <2>2, <2>3, <2>4 DEF TypeOK
<1> QED
  BY <1>1, <1>2, <1>3, <1>4, <1>5 DEF HubStep

(* hence every step. *)
LEMMA TypeStep ==
  ASSUME TypeOK, [Next]_vars
  PROVE  TypeOK'
<1>1. CASE UNCHANGED vars
  BY <1>1 DEF vars, actorVars, hubVars, TypeOK
<1>2. CASE ActorStep
  BY <1>2, CommitType, PublishType, ActorDetachType DEF ActorStep
<1>3. CASE HubStep
  BY <1>3, HubStepType
<1>4. ASSUME NEW c \in Clients, TaskStep(c) \/ ClientStep(c)
      PROVE  TypeOK'
  BY <1>4, TaskStepType, ClientStepType
<1> QED
  BY <1>1, <1>2, <1>3, <1>4 DEF Next

(* Every reachable state is well typed: the daemon's queues hold frames,   *)
(* its cursors are natural numbers and every task is at a known position.  *)
THEOREM TypeCorrect == Spec => []TypeOK
<1>1. Init => TypeOK
  BY TypeInit
<1>2. TypeOK /\ [Next]_vars => TypeOK'
  BY TypeStep
<1> QED
  BY <1>1, <1>2, PTL DEF Spec

-----------------------------------------------------------------------------
(* The layers. *)

(* Of a drain: what an outcome implies about tasks and reports.            *)
DrainInv ==
    /\ drain \in {"graceful", "forced"} => actor = "stopped"
    /\ actor = "stopped" => drain # "serving"
    /\ drain = "graceful" => ~suffixFailed
    /\ drain = "graceful" => \A c \in Clients : task[c].pc \notin RunningPcs
    /\ \A c \in Clients : task[c].outcome = "final_suffix_failed" =>
          drain # "serving" /\ (drain # "forced" => suffixFailed)

(* Of a lane: a staged response is alone in it, and a streaming client has *)
(* got the response or will get it before any other frame.                 *)
Named(c) ==
    /\ \A i \in 1..Len(wire[c].lane) :
          wire[c].lane[i].kind = "response" => Len(wire[c].lane) = 1
    /\ \A i \in 1..Len(wire[c].lane) :
          wire[c].lane[i].kind \in {"event", "caught_up", "lagged"}
            => wire[c].named
    /\ task[c].pc \in RunningPcs /\ c \in owned /\ c \in connected
          => wire[c].named \/ ResponseStaged(c)

NamedInv == \A c \in Clients : Named(c)

(* Of the actor: its head is the durable head but for the batch in hand.   *)
HeadInv ==
    /\ head <= Len(journal)
    /\ actor = "idle" => head = Len(journal)
    /\ actor = "stopped" /\ drain # "forced" => head = Len(journal)

(* The request or the task still owns its registration.                    *)
Attached(c) ==
    task[c].pc # "done" /\ (task[c].pc = "registered" \/ c \in owned)

(* Of the actor's map: an attachment is in it until the actor stops, and   *)
(* a channel never holds more than its capacity.                           *)
Mapped(c) ==
    /\ actor = "stopped" => ~reg[c].present
    /\ Attached(c) /\ actor # "stopped" => reg[c].present /\ ~reg[c].detaching
    /\ Len(chan[c].queue) <= CatchUpCapacity

MapInv == \A c \in Clients : Mapped(c)

StorePcs   == {"registered", "owned", "replay", "page"}
DeliverPcs == {"buffered_deliver", "live_deliver"}
ChannelPcs == {"buffered", "live"} \cup DeliverPcs

(* The last envelope that does not have to come from the channel.          *)
Cursor(c) ==
    IF task[c].pc \in StorePcs THEN task[c].highWater
    ELSE IF task[c].pc \in DeliverPcs THEN task[c].pending
    ELSE task[c].lastSent

Tip(c) == Cursor(c) + Len(chan[c].queue)

(* The channel is still the continuation of the stream.                    *)
Fresh(c) ==
    /\ task[c].pc \in StorePcs \cup ChannelPcs
    /\ reg[c].present \/ c \in owned \/ task[c].pc = "registered"

(* Of the cursor and the channel: the queue continues the cursor without a *)
(* gap, ends at the head unless the receiver lagged, and a lag is exactly  *)
(* a queue that ends short of the head.                                    *)
ChannelInv(c) ==
    Fresh(c) =>
      /\ \A i \in 1..Len(chan[c].queue) : chan[c].queue[i].seq = Cursor(c) + i
      /\ Tip(c) <= head
      /\ chan[c].lagged <=> Tip(c) < head
      /\ reg[c].present => /\ reg[c].lastBuffered = Tip(c)
                           /\ reg[c].active <=> ~chan[c].lagged

(* Of the cursor alone.                                                    *)
CursorInv(c) ==
    /\ task[c].pc # "done" => task[c].outcome = "none"
    /\ task[c].pc \in StorePcs =>
          task[c].lastSent <= task[c].highWater /\ task[c].highWater <= head
    /\ task[c].pc = "page" => task[c].lastSent < task[c].pageEnd
                              /\ task[c].pageEnd <= task[c].highWater
    /\ task[c].pc \in ChannelPcs =>
          task[c].highWater <= task[c].lastSent /\ task[c].lastSent <= head
    /\ task[c].pc \in DeliverPcs =>
          task[c].pending = task[c].lastSent + 1 /\ task[c].pending <= head
    /\ task[c].pc = "reregister" => task[c].lastSent < head
    /\ task[c].pc \in FinalPcs => task[c].lastSent <= Len(journal)
    /\ task[c].pc \in FinalPcs /\ c \in owned => actor = "stopped"
    /\ task[c].pc \in {"final_replay", "final_page"} =>
          /\ task[c].lastSent <= task[c].highWater
          /\ task[c].highWater <= Len(journal)
          /\ c \in owned => task[c].highWater = Len(journal)
    /\ task[c].pc = "final_page" => task[c].lastSent < task[c].pageEnd
                                    /\ task[c].pageEnd <= task[c].highWater
    /\ task[c].outcome = "complete" =>
          /\ actor = "stopped"
          /\ drain # "forced" => task[c].lastSent = Len(journal)

StreamInv == \A c \in Clients : ChannelInv(c) /\ CursorInv(c)

(* Of the marks announced: they trail the cursor and the replay target.    *)
Marked(c) ==
    /\ task[c].pc # "done" => /\ wire[c].announced <= task[c].lastSent
                             /\ wire[c].omitted <= task[c].lastSent
    /\ task[c].pc \in StorePcs \cup {"final_replay", "final_page"} =>
          wire[c].announced < task[c].highWater
    /\ wire[c].omitted <= Len(journal)

MarkInv == \A c \in Clients : Marked(c)

-----------------------------------------------------------------------------
(* What a step of one client leaves alone. *)

SameClient(d) ==
    /\ task'[d] = task[d] /\ reg'[d] = reg[d]
    /\ chan'[d] = chan[d] /\ wire'[d] = wire[d]
    /\ (d \in owned') <=> (d \in owned)
    /\ (d \in connected') <=> (d \in connected)

(* A replay task changes only its own attachment. *)
LEMMA TaskFrame ==
  ASSUME TypeOK, NEW c \in Clients, TaskStep(c)
  PROVE  /\ UNCHANGED <<journal, head, actor, batchWeight, drain>>
         /\ \A d \in Clients \ {c} : SameClient(d)
<1> DEFINE Framed == /\ UNCHANGED <<journal, head, actor, batchWeight, drain>>
                     /\ \A d \in Clients \ {c} : SameClient(d)
<1> USE DEF TypeOK, actorVars, hubVars, SameClient
<1>1. CASE InsertOwner(c) \/ StageAndSpawn(c)
  BY <1>1 DEF InsertOwner, StageAndSpawn, Finish
<1>2. CASE StageRefused(c) \/ AttachFailed(c)
  BY <1>2 DEF StageRefused, AttachFailed, Finish, Disown, FatalToConnection
<1>3. CASE Busy(c)
  BY <1>3 DEF Busy
<1>4. CASE Stuck(c) \/ Refused(c)
  BY <1>4 DEF Stuck, Refused, LagAndDetach, Disown, Finish
<1>5. CASE ReadPage(c) \/ ReplayLagged(c) \/ ReplayReadFailed(c)
  BY <1>5 DEF ReadPage, ReplayLagged, ReplayReadFailed, Disown, Finish
<1>6. CASE ReplaySkip(c) \/ ReplayEvent(c) \/ ReplayCaughtUp(c)
  BY <1>6 DEF ReplaySkip, ReplayEvent, ReplayCaughtUp, AdvanceInPage, Announce
<1>7. CASE Receive(c)
  BY <1>7 DEF Receive
<1>8. CASE ChannelEvent(c) \/ GoLive(c) \/ LiveLagged(c) \/ ChannelClosed(c)
  BY <1>8 DEF ChannelEvent, GoLive, LiveLagged, ChannelClosed, Finish
<1>9. CASE Reregister(c) \/ ReregisterRefused(c)
  BY <1>9 DEF Reregister, ReregisterRefused
<1>10. CASE FinalHead(c) \/ FinalCaughtUp(c)
  BY <1>10 DEF FinalHead, FinalCaughtUp, FinishFinal, Finish, Disown, Announce
<1>11. CASE FinalSuffixFailed(c) \/ Cancelled(c)
  BY <1>11 DEF FinalSuffixFailed, Cancelled, Finish
<1> QED
  BY <1>1, <1>2, <1>3, <1>4, <1>5, <1>6, <1>7, <1>8, <1>9, <1>10, <1>11
  DEF TaskStep

(* So does a client. *)
LEMMA ClientFrame ==
  ASSUME TypeOK, NEW c \in Clients, ClientStep(c)
  PROVE  /\ UNCHANGED <<journal, head, actor, batchWeight, drain, suffixFailed>>
         /\ \A d \in Clients \ {c} : SameClient(d)
<1> USE DEF TypeOK, actorVars, hubVars, SameClient
<1>1. CASE \E after \in 0..head, sealed \in BOOLEAN : Register(c, after, sealed)
  BY <1>1 DEF Register
<1>2. CASE Deliver(c)
  BY <1>2 DEF Deliver
<1>3. CASE ClientDetach(c) \/ CloseConnection(c)
  BY <1>3 DEF ClientDetach, CloseConnection, Disown
<1>4. CASE Disconnect(c) \/ Reconnect(c)
  BY <1>4 DEF Disconnect, Reconnect
<1> QED
  BY <1>1, <1>2, <1>3, <1>4 DEF ClientStep

-----------------------------------------------------------------------------
(* Drain. *)

(* A replay task keeps the drain invariant: a failed suffix is reported. *)
LEMMA DrainTaskStep ==
  ASSUME TypeOK, DrainInv, NEW c \in Clients, TaskStep(c)
  PROVE  DrainInv'
<1>1. UNCHANGED <<actor, drain>> /\ \A d \in Clients \ {c} : SameClient(d)
  BY TaskFrame
<1>2. task[c] \in TaskType /\ task'[c] \in TaskType
  BY TypeStep DEF TypeOK, Next
<1> DEFINE Quiet == /\ suffixFailed' = suffixFailed
                    /\ task'[c].pc \in RunningPcs => task[c].pc \in RunningPcs
                    /\ task'[c].outcome = "final_suffix_failed"
                         => task[c].outcome = "final_suffix_failed"
<1>3. SUFFICES ASSUME ~Quiet
               PROVE  DrainInv'
  BY <1>1 DEF DrainInv, SameClient
<1> USE DEF TypeOK, hubVars, TaskType, RunningPcs, StreamPcs, FinalPcs
<1>4. CASE StageAndSpawn(c)
  <2>1. /\ drain = "serving"
        /\ task'[c].outcome \in {task[c].outcome, "detached"}
    BY <1>4 DEF StageAndSpawn, Finish
  <2>2. task[c].outcome # "final_suffix_failed"
    BY <2>1 DEF DrainInv
  <2> QED
    BY <1>1, <2>1, <2>2 DEF DrainInv, SameClient
<1>5. CASE FinalSuffixFailed(c)
  <2>1. /\ suffixFailed' = TRUE /\ task[c].pc \in RunningPcs
        /\ task'[c].pc = "done"
        /\ drain = "serving" => task'[c].outcome = "detached"
    BY <1>5 DEF FinalSuffixFailed, Finish
  <2> QED
    BY <1>1, <2>1 DEF DrainInv, SameClient
<1>6. CASE InsertOwner(c) \/ StageRefused(c) \/ AttachFailed(c)
  BY <1>3, <1>6 DEF InsertOwner, StageRefused, AttachFailed, Finish
<1>7. CASE Busy(c) \/ Cancelled(c)
  BY <1>3, <1>7 DEF Busy, Cancelled, Finish
<1>8. CASE Stuck(c) \/ Refused(c)
  BY <1>3, <1>8 DEF Stuck, Refused, LagAndDetach, Finish
<1>9. CASE ReadPage(c) \/ ReplayLagged(c) \/ ReplayReadFailed(c)
  <2>1. CASE ReadPage(c)
    BY <1>3, <2>1 DEF ReadPage, ReplayBehind
  <2>2. CASE ReplayLagged(c)
    BY <1>3, <2>2 DEF ReplayLagged, ReplayBehind
  <2>3. CASE ReplayReadFailed(c)
    BY <1>3, <2>3 DEF ReplayReadFailed, Finish
  <2> QED
    BY <1>9, <2>1, <2>2, <2>3
<1>10. CASE ReplaySkip(c) \/ ReplayEvent(c) \/ ReplayCaughtUp(c)
  BY <1>3, <1>10 DEF ReplaySkip, ReplayEvent, ReplayCaughtUp, AdvanceInPage
<1>11. CASE Receive(c)
  BY <1>3, <1>11 DEF Receive
<1>12. CASE ChannelEvent(c) \/ GoLive(c) \/ LiveLagged(c) \/ ChannelClosed(c)
  BY <1>3, <1>12 DEF ChannelEvent, GoLive, LiveLagged, ChannelClosed, Drained,
     Finish
<1>13. CASE Reregister(c) \/ ReregisterRefused(c)
  BY <1>3, <1>13 DEF Reregister, ReregisterRefused
<1>14. CASE FinalHead(c) \/ FinalCaughtUp(c)
  BY <1>3, <1>14 DEF FinalHead, FinalCaughtUp, FinishFinal, Finish
<1> QED
  BY <1>4, <1>5, <1>6, <1>7, <1>8, <1>9, <1>10, <1>11, <1>12, <1>13, <1>14
  DEF TaskStep

(* Every step keeps the drain invariant. *)
LEMMA DrainStep ==
  ASSUME TypeOK, DrainInv, [Next]_vars
  PROVE  DrainInv'
<1>1. CASE UNCHANGED vars
  BY <1>1 DEF vars, actorVars, hubVars, DrainInv
<1>2. CASE ActorStep
  <2>1. /\ UNCHANGED <<task, drain, suffixFailed>> 
        /\ actor' # "stopped" /\ actor # "stopped"
    BY <1>2 DEF ActorStep, CommitBatch, Publish, ActorDetach, hubVars, actorVars
  <2> QED
    BY <2>1 DEF DrainInv
<1>3. ASSUME NEW c \in Clients, TaskStep(c)
      PROVE  DrainInv'
  BY <1>3, DrainTaskStep
<1>4. ASSUME NEW c \in Clients, ClientStep(c)
      PROVE  DrainInv'
  <2>1. /\ UNCHANGED <<actor, drain, suffixFailed>>
        /\ \A d \in Clients \ {c} : SameClient(d)
    BY <1>4, ClientFrame
  <2>2. task'[c] = task[c] \/ (task'[c].pc = "registered"
                               /\ task'[c].outcome = "none")
    <3>1. CASE \E after \in 0..head, sealed \in BOOLEAN :
                 Register(c, after, sealed)
      BY <3>1 DEF Register, NoTask, TypeOK
    <3>2. CASE Deliver(c) \/ ClientDetach(c) \/ Disconnect(c)
               \/ CloseConnection(c) \/ Reconnect(c)
      BY <3>2 DEF Deliver, ClientDetach, Disconnect, CloseConnection, Reconnect
    <3> QED
      BY <1>4, <3>1, <3>2 DEF ClientStep
  <2> QED
    BY <2>1, <2>2 DEF DrainInv, SameClient, RunningPcs, StreamPcs, FinalPcs
<1>5. CASE BeginDraining \/ StopActor
  BY <1>5 DEF BeginDraining, StopActor, DrainInv, hubVars, actorVars
<1>6. CASE JoinReplays
  BY <1>6 DEF JoinReplays, DrainInv, hubVars, actorVars
<1>7. CASE ForceStop
  BY <1>7 DEF ForceStop, DrainInv, TypeOK, TaskType
<1>8. CASE Restart
  BY <1>8 DEF Restart, DrainInv, NoTask
<1> QED
  BY <1>1, <1>2, <1>3, <1>4, <1>5, <1>6, <1>7, <1>8 DEF Next, HubStep

(* A failed final suffix forces the outcome of the shutdown that joins it, *)
(* for any number of attachments and any interleaving of attaches with the *)
(* drain.                                                                  *)
THEOREM SuffixFailureIsReported == Spec => []SuffixFailureForces
<1>1. Init => DrainInv
  BY DEF Init, DrainInv, NoTask
<1>2. TypeOK /\ DrainInv /\ [Next]_vars => DrainInv'
  BY DrainStep
<1>3. DrainInv => SuffixFailureForces
  BY DEF DrainInv, SuffixFailureForces
<1> QED
  BY <1>1, <1>2, <1>3, TypeCorrect, PTL DEF Spec

-----------------------------------------------------------------------------
(* The response before everything else. *)

(* The client streams: its task runs, owned, on an open connection.        *)
Engaged(c) == task[c].pc \in RunningPcs /\ c \in owned /\ c \in connected

(* Named depends on the lane and its response only. *)
LEMMA SameLaneNamed ==
  ASSUME NEW c \in Clients, Named(c), Engaged(c)' => Engaged(c),
         wire'[c].lane = wire[c].lane, wire'[c].named = wire[c].named
  PROVE  Named(c)'
  BY DEF Named, ResponseStaged, Engaged

(* An empty lane of an idle attachment is named. *)
LEMMA EmptyLaneNamed ==
  ASSUME NEW c \in Clients, wire'[c].lane = << >>, ~Engaged(c)'
  PROVE  Named(c)'
  BY DEF Named, Engaged

(* A running task appends only behind its response. *)
LEMMA AppendNamed ==
  ASSUME TypeOK, NEW c \in Clients, Named(c), Admits(c),
         task[c].pc \in RunningPcs,
         NEW f \in Frames, f.kind \in {"event", "caught_up"},
         wire'[c].lane = Append(wire[c].lane, f), wire'[c].named = wire[c].named
  PROVE  Named(c)'
<1> DEFINE lane == wire[c].lane
<1>1. lane \in Seq(Frames)
  BY DEF TypeOK, WireType
<1>2. wire[c].named
  BY DEF Named, Admits
<1>3. \A i \in 1..Len(lane) : lane[i].kind # "response"
  <2>1. SUFFICES ASSUME NEW i \in 1..Len(lane), lane[i].kind = "response"
                 PROVE  FALSE
    OBVIOUS
  <2>2. Len(lane) = 1 /\ i = 1
    BY <1>1, <2>1 DEF Named
  <2>3. lane # << >> /\ Head(lane) = lane[1]
    BY <1>1, <2>2
  <2> QED
    BY <2>1, <2>2, <2>3 DEF Admits, ResponseStaged
<1>4. /\ Len(wire'[c].lane) = Len(lane) + 1
      /\ \A i \in 1..Len(lane) : wire'[c].lane[i] = lane[i]
      /\ wire'[c].lane[Len(lane) + 1] = f
  BY <1>1
<1>5. \A i \in 1..Len(wire'[c].lane) : wire'[c].lane[i].kind # "response"
  BY <1>1, <1>3, <1>4
<1> QED
  BY <1>2, <1>5 DEF Named

(* The replay task keeps Named, *)
LEMMA NamedTaskStep ==
  ASSUME TypeOK, NEW c \in Clients, Named(c), TaskStep(c)
  PROVE  Named(c)'
<1> DEFINE Quiet == /\ Engaged(c)' => Engaged(c)
                    /\ wire'[c].lane = wire[c].lane
                    /\ wire'[c].named = wire[c].named
<1>1. task[c] \in TaskType /\ wire[c] \in WireType
  BY DEF TypeOK
<1>2. SUFFICES ASSUME ~Quiet
               PROVE  Named(c)'
  BY SameLaneNamed
<1> USE DEF TypeOK, hubVars, Engaged, RunningPcs, StreamPcs, FinalPcs
<1>3. CASE StageAndSpawn(c)
  <2>1. wire'[c].lane = <<Response(task[c].highWater)>>
    BY <1>3 DEF StageAndSpawn, WireType
  <2>2. Response(task[c].highWater).kind = "response"
    BY DEF Response
  <2>3. /\ wire'[c].lane # << >> /\ Len(wire'[c].lane) = 1
        /\ wire'[c].lane[1] = Response(task[c].highWater)
        /\ Head(wire'[c].lane) = Response(task[c].highWater)
    BY <2>1
  <2> QED
    BY <2>2, <2>3 DEF Named, ResponseStaged
<1>4. CASE StageRefused(c) \/ AttachFailed(c)
  <2>1. wire'[c].lane = << >> /\ c \notin connected'
    BY <1>4 DEF StageRefused, AttachFailed, FatalToConnection, WireType
  <2> QED
    BY <2>1, EmptyLaneNamed
<1>5. CASE Stuck(c) \/ Refused(c)
  <2>1. LagAndDetach(c, 0) \/ LagAndDetach(c, 1)
    BY <1>5 DEF Stuck, Refused
  <2>2. c \in owned /\ task[c].pc \in RunningPcs
    BY <1>5 DEF Stuck, Refused, Offering
  <2>3. c \notin owned'
    BY <2>1 DEF LagAndDetach, Disown
  <2>4. CASE wire'[c].lane = << >>
    BY <2>3, <2>4, EmptyLaneNamed
  <2>5. CASE /\ c \in connected
             /\ wire' = [wire EXCEPT ![c].lane =
                   <<IF ResponseStaged(c) THEN Overloaded
                                          ELSE Lagged(task[c].lastSent)>>]
    <3> DEFINE f == IF ResponseStaged(c) THEN Overloaded
                    ELSE Lagged(task[c].lastSent)
    <3>1. wire'[c].lane = <<f>> /\ wire'[c].named = wire[c].named
      BY <1>1, <2>5 DEF WireType
    <3>2. f.kind # "response" /\ (f.kind = "lagged" => ~ResponseStaged(c))
          /\ f.kind \in {"overloaded", "lagged"}
      BY DEF Overloaded, Lagged
    <3>3. ~ResponseStaged(c) => wire[c].named
      BY <2>2, <2>5 DEF Named
    <3> HIDE DEF f
    <3>4. Len(wire'[c].lane) = 1 /\ wire'[c].lane[1] = f
      BY <3>1
    <3> QED
      BY <2>3, <3>1, <3>2, <3>3, <3>4 DEF Named
  <2>6. wire'[c].lane = << >> \/
        (/\ c \in connected
         /\ wire' = [wire EXCEPT ![c].lane =
                   <<IF ResponseStaged(c) THEN Overloaded
                                          ELSE Lagged(task[c].lastSent)>>])
    BY <1>1, <2>1 DEF LagAndDetach, WireType
  <2> QED
    BY <2>4, <2>5, <2>6
<1>6. CASE ReplayEvent(c) \/ ChannelEvent(c)
  <2>1. PICK s \in Nat : wire' = [wire EXCEPT ![c].lane = Append(@, Event(s))]
    <3>1. task[c].lastSent + 1 \in Nat /\ task[c].pending \in Nat
      BY <1>1 DEF TaskType
    <3> QED
      BY <1>6, <3>1 DEF ReplayEvent, ChannelEvent
  <2>2. /\ wire'[c].lane = Append(wire[c].lane, Event(s))
        /\ wire'[c].named = wire[c].named
    BY <1>1, <2>1 DEF WireType
  <2>3. Admits(c) /\ task[c].pc \in RunningPcs
    BY <1>6 DEF ReplayEvent, ChannelEvent
  <2>4. Event(s) \in Frames /\ Event(s).kind = "event"
    BY DEF Event, Frames
  <2> QED
    BY <2>2, <2>3, <2>4, AppendNamed
<1>7. CASE ReplayCaughtUp(c) \/ FinalCaughtUp(c)
  <2>1. Announce(c) /\ task[c].pc \in RunningPcs
    BY <1>7 DEF ReplayCaughtUp, FinalCaughtUp
  <2> DEFINE f == CaughtUp(task[c].highWater)
  <2>2. f \in Frames /\ f.kind = "caught_up"
    BY <1>1 DEF CaughtUp, Frames, TaskType
  <2> HIDE DEF f
  <2>3. /\ wire'[c].lane = Append(wire[c].lane, f)
        /\ wire'[c].named = wire[c].named
    BY <1>1, <2>1 DEF Announce, WireType, f
  <2> QED
    BY <2>1, <2>2, <2>3, AppendNamed DEF Announce
<1>8. CASE ReplaySkip(c)
  BY <1>1, <1>2, <1>8 DEF ReplaySkip, WireType
<1>9. CASE InsertOwner(c) \/ Busy(c) \/ Cancelled(c)
  BY <1>1, <1>2, <1>9 DEF InsertOwner, Busy, Cancelled, Finish, Offering, TaskType
<1>10. CASE ReadPage(c) \/ ReplayLagged(c)
  BY <1>2, <1>10 DEF ReadPage, ReplayBehind, ReplayLagged
<1>11. CASE ReplayReadFailed(c) \/ FinalSuffixFailed(c)
  BY <1>1, <1>2, <1>11 DEF ReplayReadFailed, FinalSuffixFailed, Finish, Disown,
     TaskType
<1>12. CASE Receive(c)
  BY <1>2, <1>12 DEF Receive
<1>13. CASE GoLive(c) \/ LiveLagged(c) \/ ChannelClosed(c)
  BY <1>2, <1>13 DEF GoLive, LiveLagged, ChannelClosed, Drained
<1>14. CASE Reregister(c) \/ ReregisterRefused(c)
  BY <1>2, <1>14 DEF Reregister, ReregisterRefused
<1>15. CASE FinalHead(c)
  BY <1>1, <1>2, <1>15 DEF FinalHead, FinishFinal, Finish, Disown, TaskType
<1> QED
  BY <1>3, <1>4, <1>5, <1>6, <1>7, <1>8, <1>9, <1>10, <1>11, <1>12, <1>13,
     <1>14, <1>15
  DEF TaskStep

(* as does the client's next frame, *)
LEMMA NamedDeliver ==
  ASSUME TypeOK, NEW c \in Clients, Named(c), Deliver(c)
  PROVE  Named(c)'
<1> DEFINE lane == wire[c].lane
<1>1. lane \in Seq(Frames) /\ lane # << >> /\ wire[c] \in WireType
  BY DEF TypeOK, WireType, Deliver
<1>2. /\ wire'[c].lane = Tail(lane)
      /\ wire'[c].named = (wire[c].named \/ Head(lane).kind = "response")
      /\ UNCHANGED <<task, owned, connected>>
  BY <1>1 DEF Deliver, TypeOK, WireType, hubVars
<1>3. /\ Len(Tail(lane)) = Len(lane) - 1 /\ Head(lane) = lane[1]
      /\ \A i \in 1..Len(Tail(lane)) : Tail(lane)[i] = lane[i + 1]
      /\ Len(lane) \in Nat /\ Len(lane) > 0
  BY <1>1
<1>4. \A i \in 1..Len(Tail(lane)) : i + 1 \in 1..Len(lane) /\ Len(lane) # 1
  BY <1>3
<1>5. \A i \in 1..Len(Tail(lane)) : Tail(lane)[i].kind # "response"
  BY <1>3, <1>4 DEF Named
<1>6. ResponseStaged(c) => wire'[c].named
  BY <1>2 DEF ResponseStaged
<1> QED
  BY <1>2, <1>3, <1>4, <1>5, <1>6 DEF Named

(* hence every step. *)
LEMMA NamedStep ==
  ASSUME TypeOK, NamedInv, [Next]_vars
  PROVE  NamedInv'
<1> USE DEF Engaged
<1>1. CASE UNCHANGED vars
  BY <1>1 DEF vars, actorVars, hubVars, NamedInv, Named, ResponseStaged
<1>2. CASE ActorStep \/ BeginDraining \/ StopActor
  <2>1. UNCHANGED <<task, owned, connected, wire>>
    BY <1>2 DEF ActorStep, CommitBatch, Publish, ActorDetach, BeginDraining,
       StopActor, hubVars
  <2> QED
    BY <2>1 DEF NamedInv, Named, ResponseStaged
<1>3. ASSUME NEW c \in Clients, TaskStep(c) \/ ClientStep(c)
      PROVE  NamedInv'
  <2>1. \A d \in Clients \ {c} : SameClient(d)
    BY <1>3, TaskFrame, ClientFrame
  <2>2. ASSUME NEW d \in Clients \ {c}
        PROVE  Named(d)'
    <3>1. SameClient(d) /\ Named(d)
      BY <2>1 DEF NamedInv
    <3> QED
      BY <3>1, SameLaneNamed DEF SameClient
  <2>3. Named(c) /\ wire[c] \in WireType
    BY DEF NamedInv, TypeOK
  <2>4. CASE TaskStep(c)
    BY <2>2, <2>3, <2>4, NamedTaskStep DEF NamedInv
  <2>5. CASE \E after \in 0..head, sealed \in BOOLEAN : Register(c, after, sealed)
    <3>1. wire'[c].lane = << >> /\ task'[c].pc = "registered"
      BY <2>5 DEF Register, NoWire, NoTask, TypeOK
    <3>2. Named(c)'
      BY <3>1, EmptyLaneNamed DEF RunningPcs, StreamPcs, FinalPcs
    <3> QED
      BY <2>2, <3>2 DEF NamedInv
  <2>6. CASE Deliver(c)
    BY <2>2, <2>3, <2>6, NamedDeliver DEF NamedInv
  <2>7. CASE ClientDetach(c) \/ Disconnect(c)
    <3>1. wire'[c].lane = << >> /\ ~(c \in owned' /\ c \in connected')
      BY <2>3, <2>7 DEF ClientDetach, Disconnect, Disown, TypeOK, WireType
    <3>2. Named(c)'
      BY <3>1, EmptyLaneNamed
    <3> QED
      BY <2>2, <3>2 DEF NamedInv
  <2>8. CASE CloseConnection(c) \/ Reconnect(c)
    <3>1. UNCHANGED <<task, wire>> /\ (c \in owned' => c \in owned)
          /\ (c \in owned' => c \notin connected')
      BY <2>8 DEF CloseConnection, Reconnect, Disown
    <3>2. Named(c)'
      BY <2>3, <3>1, SameLaneNamed
    <3> QED
      BY <2>2, <3>2 DEF NamedInv
  <2> QED
    BY <1>3, <2>4, <2>5, <2>6, <2>7, <2>8 DEF ClientStep
<1>4. CASE JoinReplays
  BY <1>4, SameLaneNamed DEF JoinReplays, NamedInv
<1>5. CASE ForceStop
  <2>1. UNCHANGED wire /\ owned' = {}
    BY <1>5 DEF ForceStop
  <2> QED
    BY <2>1, SameLaneNamed DEF NamedInv
<1>6. CASE Restart
  <2>1. \A c \in Clients : wire'[c].lane = << >> /\ owned' = {}
    BY <1>6 DEF Restart, TypeOK, WireType
  <2> QED
    BY <2>1, EmptyLaneNamed DEF NamedInv
<1> QED
  BY <1>1, <1>2, <1>3, <1>4, <1>5, <1>6 DEF Next, HubStep

(* No event, marker or Lagged notice of an attachment is ever queued for a *)
(* client that has not been given the response which names the attachment, *)
(* for any number of clients and any lane capacity.                        *)
THEOREM UnknownIdRuleHolds == Spec => []UnknownIdRule
<1>1. Init => NamedInv
  <2>1. Init => owned = {} /\ \A c \in Clients : wire[c].lane = << >>
    BY DEF Init, NoWire
  <2>2. Len(<< >>) = 0 /\ 1..0 = {}
    OBVIOUS
  <2> QED
    BY <2>1, <2>2 DEF NamedInv, Named
<1>2. TypeOK /\ NamedInv /\ [Next]_vars => NamedInv'
  BY NamedStep
<1>3. NamedInv => UnknownIdRule
  BY DEF NamedInv, Named, UnknownIdRule
<1> QED
  BY <1>1, <1>2, <1>3, TypeCorrect, PTL DEF Spec

-----------------------------------------------------------------------------
(* The head and the actor's map. *)

(* Every step keeps the head within the journal. *)
LEMMA HeadStep ==
  ASSUME TypeOK, HeadInv, [Next]_vars
  PROVE  HeadInv'
<1>1. Len(journal) \in Nat /\ head \in Nat
  BY DEF TypeOK
<1>2. CASE UNCHANGED vars
  BY <1>2 DEF vars, actorVars, hubVars, HeadInv
<1>3. ASSUME NEW c \in Clients, TaskStep(c) \/ ClientStep(c)
      PROVE  HeadInv'
  <2>1. UNCHANGED <<journal, head, actor, drain>>
    BY <1>3, TaskFrame, ClientFrame
  <2> QED
    BY <2>1 DEF HeadInv
<1>4. ASSUME NEW n \in 1..MaxBatch, NEW kinds \in [1..n -> Kinds],
             NEW w \in Weights, CommitBatch(kinds, w)
      PROVE  HeadInv'
  <2>1. kinds \in Seq(Kinds) /\ journal \in Seq(Kinds)
    BY PipeAssumption DEF TypeOK
  <2>2. /\ journal' = journal \o kinds /\ head' = head
        /\ actor = "idle" /\ actor' = "publishing"
    BY <1>4 DEF CommitBatch
  <2>3. Len(kinds) \in Nat /\ Len(journal') = Len(journal) + Len(kinds)
    BY <2>1, <2>2
  <2> QED
    BY <1>1, <2>2, <2>3 DEF HeadInv
<1>5. CASE Publish
  BY <1>1, <1>5 DEF Publish, HeadInv, hubVars
<1>6. ASSUME NEW c \in Clients, ActorDetach(c)
      PROVE  HeadInv'
  BY <1>6 DEF ActorDetach, HeadInv, actorVars, hubVars
<1>7. CASE BeginDraining \/ StopActor \/ JoinReplays
  BY <1>7 DEF BeginDraining, StopActor, JoinReplays, HeadInv, actorVars, hubVars
<1>8. CASE ForceStop
  <2>1. UNCHANGED <<journal, head>> /\ actor' = "stopped" /\ drain' = "forced"
    BY <1>8 DEF ForceStop
  <2> QED
    BY <2>1 DEF HeadInv
<1>9. CASE Restart
  <2>1. journal' = journal /\ head' = Len(journal)
    BY <1>9 DEF Restart
  <2> QED
    BY <1>1, <2>1 DEF HeadInv
<1> QED
  BY <1>2, <1>3, <1>4, <1>5, <1>6, <1>7, <1>8, <1>9 DEF Next, HubStep, ActorStep

(* Mapped depends on the registration, the queue and the actor only. *)
LEMMA SameMapped ==
  ASSUME NEW c \in Clients, Mapped(c), Attached(c)' => Attached(c),
         reg'[c].present = reg[c].present,
         Attached(c)' => reg'[c].detaching = reg[c].detaching,
         chan'[c].queue = chan[c].queue, actor' = actor
  PROVE  Mapped(c)'
<1>1. Len(chan'[c].queue) <= CatchUpCapacity
  BY DEF Mapped
<1>2. actor' = "stopped" => ~reg'[c].present
  BY DEF Mapped
<1>3. Attached(c)' /\ actor' # "stopped" => reg'[c].present /\ ~reg'[c].detaching
  BY DEF Mapped
<1> QED
  BY <1>1, <1>2, <1>3 DEF Mapped

(* The replay task keeps Mapped, *)
LEMMA MappedTaskStep ==
  ASSUME TypeOK, NEW c \in Clients, Mapped(c), TaskStep(c)
  PROVE  Mapped(c)'
<1>1. /\ task[c] \in TaskType /\ reg[c] \in RegType /\ chan[c] \in ChanType
      /\ actor' = actor
  BY TaskFrame DEF TypeOK
<1> DEFINE Quiet == /\ Attached(c)' => Attached(c)
                    /\ reg'[c].present = reg[c].present
                    /\ Attached(c)' => reg'[c].detaching = reg[c].detaching
                    /\ chan'[c].queue = chan[c].queue
<1>2. SUFFICES ASSUME ~Quiet
               PROVE  Mapped(c)'
  BY <1>1, SameMapped
<1> USE DEF TypeOK, hubVars, Attached
<1>3. CASE InsertOwner(c) \/ StageAndSpawn(c) \/ AttachFailed(c)
  BY <1>1, <1>2, <1>3 DEF InsertOwner, StageAndSpawn, AttachFailed, Finish,
     TaskType
<1>4. CASE StageRefused(c) \/ ReplayReadFailed(c)
  BY <1>1, <1>2, <1>4 DEF StageRefused, ReplayReadFailed, Disown, Finish,
     RegType, TaskType
<1>5. CASE Stuck(c) \/ Refused(c)
  <2>1. LagAndDetach(c, 0) \/ LagAndDetach(c, 1)
    BY <1>5 DEF Stuck, Refused
  <2>2. task'[c].pc = "done"
    BY <1>1, <2>1 DEF LagAndDetach, Finish, TaskType
  <2> QED
    BY <1>1, <1>2, <2>1, <2>2 DEF LagAndDetach, Disown, RegType
<1>6. CASE ReadPage(c) \/ ReplayLagged(c) \/ Busy(c)
  BY <1>1, <1>2, <1>6 DEF ReadPage, ReplayBehind, ReplayLagged, Busy, TaskType
<1>7. CASE ReplaySkip(c) \/ ReplayEvent(c) \/ ReplayCaughtUp(c)
  BY <1>1, <1>2, <1>7 DEF ReplaySkip, ReplayEvent, ReplayCaughtUp,
     AdvanceInPage, TaskType
<1>8. CASE Receive(c)
  <2>1. /\ chan[c].queue \in Seq([seq : Nat, weight : Nat])
        /\ chan[c].queue # << >> /\ Len(chan[c].queue) \in Nat
    BY <1>1, <1>8 DEF Receive, ChanType
  <2>2. chan'[c].queue = Tail(chan[c].queue)
    BY <1>1, <1>8 DEF Receive, ChanType
  <2>3. Len(chan'[c].queue) <= CatchUpCapacity
    BY <2>1, <2>2, PipeAssumption DEF Mapped
  <2>4. c \in owned /\ task[c].pc \in {"buffered", "live"}
        /\ UNCHANGED <<owned, reg>>
    BY <1>8 DEF Receive
  <2> QED
    BY <1>1, <2>3, <2>4 DEF Mapped
<1>9. CASE ChannelEvent(c) \/ GoLive(c) \/ LiveLagged(c) \/ ChannelClosed(c)
  BY <1>1, <1>2, <1>9 DEF ChannelEvent, GoLive, LiveLagged, ChannelClosed,
     Drained, Finish, TaskType
<1>10. CASE Reregister(c)
  <2>1. reg'[c].present = reg[c].present /\ reg'[c].detaching = reg[c].detaching
    BY <1>1, <1>10 DEF Reregister, RegType
  <2>2. Len(chan'[c].queue) <= CatchUpCapacity
    BY <1>10, PipeAssumption DEF Reregister, NoChan
  <2>3. Attached(c)' => Attached(c)
    BY <1>1, <1>10 DEF Reregister, TaskType
  <2>4. actor = "idle"
    BY <1>10 DEF Reregister
  <2> HIDE DEF Attached
  <2> QED
    BY <1>1, <2>1, <2>2, <2>3, <2>4 DEF Mapped
<1>11. CASE ReregisterRefused(c) \/ FinalSuffixFailed(c) \/ Cancelled(c)
  BY <1>1, <1>2, <1>11 DEF ReregisterRefused, FinalSuffixFailed, Cancelled,
     Finish, TaskType
<1>12. CASE FinalHead(c) \/ FinalCaughtUp(c)
  BY <1>1, <1>2, <1>12 DEF FinalHead, FinalCaughtUp, FinishFinal, Finish, Disown,
     TaskType, RegType
<1> QED
  BY <1>3, <1>4, <1>5, <1>6, <1>7, <1>8, <1>9, <1>10, <1>11, <1>12 DEF TaskStep

(* as does the client, *)
LEMMA MappedClientStep ==
  ASSUME TypeOK, NEW c \in Clients, Mapped(c), ClientStep(c)
  PROVE  Mapped(c)'
<1>1. reg[c] \in RegType /\ actor' = actor
  BY ClientFrame DEF TypeOK
<1>2. CASE \E after \in 0..head, sealed \in BOOLEAN : Register(c, after, sealed)
  <2>1. /\ reg'[c].present /\ ~reg'[c].detaching /\ actor = "idle"
        /\ chan'[c].queue = << >>
    BY <1>2 DEF Register, NoChan, TypeOK
  <2>2. Len(chan'[c].queue) <= CatchUpCapacity
    BY <2>1, PipeAssumption
  <2> QED
    BY <1>1, <2>1, <2>2 DEF Mapped
<1>3. CASE Deliver(c) \/ Disconnect(c) \/ Reconnect(c)
  BY <1>1, <1>3, SameMapped
  DEF Deliver, Disconnect, Reconnect, Attached, hubVars
<1>4. CASE ClientDetach(c) \/ CloseConnection(c)
  <2>1. /\ reg'[c].present = reg[c].present /\ ~Attached(c)'
        /\ UNCHANGED chan
    BY <1>1, <1>4 DEF ClientDetach, CloseConnection, Disown, Attached, RegType,
       TypeOK
  <2> QED
    BY <1>1, <2>1, SameMapped
<1> QED
  BY <1>2, <1>3, <1>4 DEF ClientStep

(* A function on an initial segment is a sequence of that length. *)
LEMMA FunctionSequence ==
  ASSUME NEW S, NEW n \in Nat, NEW f \in [1..n -> S]
  PROVE  f \in Seq(S) /\ Len(f) = n
  OBVIOUS

(* What one receiver's share of a publication looks like: the accepted     *)
(* prefix of the batch, appended, within the capacity of the channel.      *)
LEMMA FedShape ==
  ASSUME TypeOK, HeadInv, NEW c \in Clients, Mapped(c)
  PROVE  /\ Accepted(c) \in Nat /\ BatchLen \in Nat /\ Accepted(c) <= BatchLen
         /\ head + BatchLen = Len(journal)
         /\ Len(Fed(c).queue) = Len(chan[c].queue) + Accepted(c)
         /\ Len(Fed(c).queue) <= CatchUpCapacity
         /\ \A i \in 1..Len(chan[c].queue) : Fed(c).queue[i] = chan[c].queue[i]
         /\ \A i \in 1..Accepted(c) :
               Fed(c).queue[Len(chan[c].queue) + i].seq = head + i
         /\ Fed(c).lagged <=> chan[c].lagged \/ Accepted(c) < BatchLen
<1> DEFINE q == chan[c].queue
           n == Accepted(c)
<1>1. q \in Seq([seq : Nat, weight : Nat]) /\ Len(q) \in Nat
      /\ chan[c].bytes \in Nat /\ chan[c].lagged \in BOOLEAN
  BY DEF TypeOK, ChanType
<1>2. Len(journal) \in Nat /\ head \in Nat /\ batchWeight \in Nat
  BY DEF TypeOK
<1>3. BatchLen \in Nat /\ head + BatchLen = Len(journal)
  BY <1>2 DEF BatchLen, HeadInv
<1>4. CatchUpCapacity \in Nat /\ ByteBudget \in Nat
      /\ Len(q) <= CatchUpCapacity
  BY PipeAssumption DEF Mapped
<1>5. n \in Nat /\ n <= BatchLen /\ Len(q) + n <= CatchUpCapacity
  <2>1. n = 0 \/ n = Smaller(BatchLen, CatchUpCapacity - Len(q))
    BY DEF Accepted
  <2> HIDE DEF n, q
  <2>2. CatchUpCapacity - Len(q) \in Nat
    BY <1>1, <1>4
  <2> QED
    BY <1>1, <1>3, <1>4, <2>1, <2>2 DEF Smaller
<1> HIDE DEF n
<1>6. /\ Queued(n) \in [1..n -> [seq : Nat, weight : Nat]]
      /\ \A i \in 1..n : Queued(n)[i].seq = head + i
  BY <1>2, <1>5 DEF Queued
<1>7. Queued(n) \in Seq([seq : Nat, weight : Nat]) /\ Len(Queued(n)) = n
  BY <1>5, <1>6, FunctionSequence
<1>8. Fed(c).queue = q \o Queued(n)
  BY DEF Fed, n
<1>9. /\ Len(Fed(c).queue) = Len(q) + n
      /\ \A i \in 1..Len(q) : Fed(c).queue[i] = q[i]
      /\ \A i \in 1..n : Fed(c).queue[Len(q) + i] = Queued(n)[i]
  <2> DEFINE b == Queued(n)
             E == [seq : Nat, weight : Nat]
  <2>0. Len(b) = n /\ Fed(c).queue = q \o b
    BY <1>7, <1>8
  <2>1. q \in Seq(E) /\ b \in Seq(E)
    BY <1>1, <1>7
  <2> HIDE DEF q, b, E
  <2>2. /\ Len(q \o b) = Len(q) + Len(b)
        /\ \A i \in 1..Len(q) : (q \o b)[i] = q[i]
        /\ \A i \in 1..Len(b) : (q \o b)[Len(q) + i] = b[i]
    BY <2>1
  <2>3. /\ Len(Fed(c).queue) = Len(q) + n
        /\ \A i \in 1..Len(q) : Fed(c).queue[i] = q[i]
        /\ \A i \in 1..n : Fed(c).queue[Len(q) + i] = b[i]
    BY <2>0, <2>2, Zenon
  <2> QED
    BY <2>3 DEF b
<1>10. Fed(c).lagged <=> chan[c].lagged \/ n < BatchLen
  BY <1>1, <1>3, <1>5 DEF Fed, n
<1> QED
  BY <1>3, <1>5, <1>6, <1>9, <1>10 DEF n

(* Every step keeps the registration invariant. *)
LEMMA MapStep ==
  ASSUME TypeOK, HeadInv, MapInv, [Next]_vars
  PROVE  MapInv'
<1>1. CASE UNCHANGED vars
  BY <1>1 DEF vars, actorVars, hubVars, MapInv, Mapped, Attached
<1>2. ASSUME NEW c \in Clients, TaskStep(c) \/ ClientStep(c)
      PROVE  MapInv'
  <2>1. Mapped(c)'
    BY <1>2, MappedTaskStep, MappedClientStep DEF MapInv
  <2>2. actor' = actor /\ \A d \in Clients \ {c} : SameClient(d)
    BY <1>2, TaskFrame, ClientFrame
  <2>3. \A d \in Clients \ {c} : Mapped(d)'
    BY <2>2, SameMapped DEF SameClient, MapInv, Attached
  <2> QED
    BY <2>1, <2>3 DEF MapInv
<1>3. ASSUME NEW n \in 1..MaxBatch, NEW kinds \in [1..n -> Kinds],
             NEW w \in Weights, CommitBatch(kinds, w)
      PROVE  MapInv'
  BY <1>3 DEF CommitBatch, hubVars, MapInv, Mapped, Attached
<1>4. CASE Publish
  <2>1. SUFFICES ASSUME NEW c \in Clients
                 PROVE  Mapped(c)'
    BY DEF MapInv
  <2>2. /\ chan'[c] = PublishedChan(c) /\ reg'[c] = PublishedReg(c)
        /\ UNCHANGED <<task, owned>>
        /\ actor = "publishing" /\ actor' = "idle"
    BY <1>4 DEF Publish, hubVars
  <2>3. Mapped(c) /\ Len(chan'[c].queue) <= CatchUpCapacity
    BY <2>2, FedShape DEF MapInv, Mapped, PublishedChan
  <2>4. Attached(c)' <=> Attached(c)
    BY <2>2 DEF Attached
  <2>5. Attached(c) => reg'[c].present /\ ~reg'[c].detaching
    <3>1. SUFFICES ASSUME Attached(c)
                   PROVE  reg'[c].present /\ ~reg'[c].detaching
      OBVIOUS
    <3>2. reg[c].present /\ ~reg[c].detaching /\ ~ReceiverGone(c)
      BY <2>2, <2>3, <3>1 DEF Mapped, Attached, ReceiverGone
    <3>3. reg[c] \in RegType
      BY DEF TypeOK
    <3> QED
      BY <2>2, <3>2, <3>3 DEF PublishedReg, RegType
  <2> QED
    BY <2>2, <2>3, <2>4, <2>5 DEF Mapped
<1>5. ASSUME NEW c \in Clients, ActorDetach(c)
      PROVE  MapInv'
  <2>1. /\ actor = "idle" /\ reg[c].detaching /\ reg' = [reg EXCEPT ![c] = NoReg]
        /\ UNCHANGED <<actor, chan, task, owned>>
    BY <1>5 DEF ActorDetach, actorVars, hubVars
  <2>2. ~Attached(c) /\ \A d \in Clients : Attached(d)' <=> Attached(d)
    BY <2>1 DEF MapInv, Mapped, Attached
  <2> QED
    BY <2>1, <2>2 DEF MapInv, Mapped, TypeOK
<1>6. CASE BeginDraining \/ JoinReplays
  BY <1>6 DEF BeginDraining, JoinReplays, MapInv, Mapped, Attached, actorVars
<1>7. CASE StopActor \/ ForceStop
  <2>1. /\ actor' = "stopped" /\ chan' = chan
        /\ reg' = [c \in Clients |-> NoReg]
    BY <1>7 DEF StopActor, ForceStop
  <2>2. \A c \in Clients : ~reg'[c].present
    BY <2>1 DEF NoReg
  <2> QED
    BY <2>1, <2>2 DEF MapInv, Mapped
<1>8. CASE Restart
  <2>1. /\ UNCHANGED <<chan, reg>> /\ actor' = "idle"
        /\ \A c \in Clients : task'[c].pc = "done"
    BY <1>8 DEF Restart, NoTask
  <2> QED
    BY <2>1 DEF MapInv, Mapped, Attached
<1> QED
  BY <1>1, <1>2, <1>3, <1>4, <1>5, <1>6, <1>7, <1>8
  DEF Next, HubStep, ActorStep

-----------------------------------------------------------------------------
(* The cursor and the channel. *)

(* The types of a task's cursor and channel. *)
LEMMA CursorTypes ==
  ASSUME TypeOK, NEW c \in Clients
  PROVE  /\ task[c].lastSent \in Nat /\ task[c].highWater \in Nat
         /\ task[c].pageEnd \in Nat /\ task[c].pending \in Nat
         /\ Cursor(c) \in Nat /\ Len(chan[c].queue) \in Nat
         /\ Tip(c) \in Nat /\ head \in Nat /\ Len(journal) \in Nat
         /\ chan[c].queue \in Seq([seq : Nat, weight : Nat])
         /\ chan[c].lagged \in BOOLEAN /\ reg[c].active \in BOOLEAN
         /\ reg[c].present \in BOOLEAN
<1>1. task[c] \in TaskType /\ chan[c] \in ChanType /\ reg[c] \in RegType
  BY DEF TypeOK
<1>2. /\ task[c].lastSent \in Nat /\ task[c].highWater \in Nat
      /\ task[c].pageEnd \in Nat /\ task[c].pending \in Nat
  BY <1>1 DEF TaskType
<1>3. /\ chan[c].queue \in Seq([seq : Nat, weight : Nat])
      /\ Len(chan[c].queue) \in Nat /\ chan[c].lagged \in BOOLEAN
  BY <1>1 DEF ChanType
<1>4. head \in Nat /\ Len(journal) \in Nat
  BY DEF TypeOK
<1>5. Cursor(c) \in Nat
  BY <1>2 DEF Cursor
<1>6. reg[c].active \in BOOLEAN /\ reg[c].present \in BOOLEAN
  BY <1>1 DEF RegType
<1> QED
  BY <1>2, <1>3, <1>4, <1>5, <1>6 DEF Tip

(* A step that leaves channel and cursor alone keeps ChannelInv. *)
LEMMA SameChannel ==
  ASSUME NEW c \in Clients, ChannelInv(c), Fresh(c)' => Fresh(c),
         Fresh(c)' => Cursor(c)' = Cursor(c),
         chan'[c] = chan[c], head' = head,
         reg'[c].present => reg[c].present
            /\ reg'[c].active = reg[c].active
            /\ reg'[c].lastBuffered = reg[c].lastBuffered
  PROVE  ChannelInv(c)'
<1>1. SUFFICES ASSUME Fresh(c)'
               PROVE  ChannelInv(c)'
  BY DEF ChannelInv
<1>2. Cursor(c)' = Cursor(c) /\ Tip(c)' = Tip(c)
  BY <1>1 DEF Tip
<1>3. \A i \in 1..Len(chan'[c].queue) : chan'[c].queue[i].seq = Cursor(c)' + i
  BY <1>1, <1>2 DEF ChannelInv
<1>4. Tip(c)' <= head' /\ (chan'[c].lagged <=> Tip(c)' < head')
  BY <1>1, <1>2 DEF ChannelInv
<1>5. reg'[c].present => /\ reg'[c].lastBuffered = Tip(c)'
                         /\ reg'[c].active <=> ~chan'[c].lagged
  BY <1>1, <1>2 DEF ChannelInv
<1> QED
  BY <1>3, <1>4, <1>5 DEF ChannelInv

(* A channel that starts empty at the head, as (re-)registration makes it. *)
LEMMA NewChannel ==
  ASSUME TypeOK, TypeOK', NEW c \in Clients, chan'[c] = NoChan, head' = head,
         Cursor(c)' = head,
         reg'[c].active, reg'[c].lastBuffered = head
  PROVE  ChannelInv(c)'
<1>1. chan'[c].queue = << >> /\ chan'[c].lagged = FALSE
  BY DEF NoChan
<1>2. Len(chan'[c].queue) = 0 /\ 1..0 = {}
  BY <1>1
<1>3. head \in Nat
  BY DEF TypeOK
<1>4. Tip(c)' = head
  BY <1>2, <1>3 DEF Tip
<1> QED
  BY <1>1, <1>2, <1>3, <1>4 DEF ChannelInv

(* The entry a task receives is the next one after its cursor. *)
LEMMA ChannelReceive ==
  ASSUME TypeOK, NEW c \in Clients, ChannelInv(c), CursorInv(c), Receive(c)
  PROVE  /\ ChannelInv(c)'
         /\ Head(chan[c].queue).seq = task[c].lastSent + 1
         /\ task[c].lastSent + 1 <= head
         /\ task' = [task EXCEPT
                ![c].pending = task[c].lastSent + 1,
                ![c].pc = IF @ = "buffered" THEN "buffered_deliver"
                                            ELSE "live_deliver"]
<1> DEFINE q == chan[c].queue
           last == task[c].lastSent
<1>1. /\ q \in Seq([seq : Nat, weight : Nat]) /\ q # << >> /\ Len(q) \in Nat
      /\ last \in Nat /\ task[c].highWater \in Nat /\ head \in Nat
  BY CursorTypes DEF Receive
<1>2. /\ task[c].pc \in {"buffered", "live"} /\ c \in owned
      /\ chan' = [chan EXCEPT ![c].queue = Tail(@),
                              ![c].bytes = Credit(@, Head(q).weight)]
      /\ UNCHANGED <<head, owned, reg>>
  BY DEF Receive, actorVars, hubVars
<1>3. Fresh(c) /\ Cursor(c) = last
  BY <1>2 DEF Fresh, Cursor, ChannelPcs, StorePcs, DeliverPcs
<1>4. 1 \in 1..Len(q) /\ Head(q) = q[1]
  BY <1>1
<1>5. Head(q).seq = last + 1
  BY <1>3, <1>4 DEF ChannelInv
<1>6. last + Len(q) <= head
  BY <1>3 DEF ChannelInv, Tip
<1>7. last + 1 <= head
  BY <1>1, <1>4, <1>6
<1>8. task[c].highWater <= last
  BY <1>2 DEF CursorInv, ChannelPcs
<1>9. ~(Head(q).seq <= last) /\ ~(Head(q).seq <= task[c].highWater)
  BY <1>1, <1>5, <1>8
<1>10. task' = [task EXCEPT
                ![c].pending = task[c].lastSent + 1,
                ![c].pc = IF @ = "buffered" THEN "buffered_deliver"
                                            ELSE "live_deliver"]
  BY <1>5, <1>9 DEF Receive
<1>11. Cursor(c)' = last + 1
  <2>1. task[c] \in TaskType /\ task \in [Clients -> TaskType]
    BY DEF TypeOK
  <2>2. task'[c].pc \in DeliverPcs /\ task'[c].pending = last + 1
    BY <1>10, <2>1 DEF TaskType, DeliverPcs
  <2> QED
    BY <2>2 DEF Cursor, StorePcs, DeliverPcs
<1>12. /\ chan'[c].queue = Tail(q) /\ chan'[c].lagged = chan[c].lagged
  BY <1>2 DEF TypeOK, ChanType
<1>13. /\ Len(Tail(q)) = Len(q) - 1
       /\ \A i \in 1..Len(Tail(q)) : i + 1 \in 1..Len(q) /\ Tail(q)[i] = q[i + 1]
  BY <1>1
<1>14. Tip(c)' = Tip(c)
  BY <1>1, <1>3, <1>11, <1>12, <1>13 DEF Tip
<1>15. \A i \in 1..Len(Tail(q)) : Tail(q)[i].seq = (last + 1) + i
  <2>1. SUFFICES ASSUME NEW i \in 1..Len(Tail(q))
                 PROVE  Tail(q)[i].seq = (last + 1) + i
    OBVIOUS
  <2>2. i + 1 \in 1..Len(q) /\ Tail(q)[i] = q[i + 1]
    BY <1>13
  <2>3. q[i + 1].seq = last + (i + 1)
    BY <1>3, <2>2 DEF ChannelInv
  <2>4. i \in Nat /\ last \in Nat
    BY <1>1
  <2>5. last + (i + 1) = (last + 1) + i
    BY <2>4
  <2> QED
    BY <2>2, <2>3, <2>5
<1>16. ChannelInv(c)'
  BY <1>2, <1>3, <1>11, <1>12, <1>14, <1>15 DEF ChannelInv
<1> QED
  BY <1>5, <1>7, <1>10, <1>16

(* The replay task keeps ChannelInv, *)
LEMMA ChannelTaskStep ==
  ASSUME TypeOK, TypeOK', NEW c \in Clients, ChannelInv(c), CursorInv(c),
         TaskStep(c)
  PROVE  ChannelInv(c)'
<1>1. /\ task[c] \in TaskType /\ reg[c] \in RegType /\ chan[c] \in ChanType
      /\ head' = head
      /\ task[c].lastSent \in Nat /\ task[c].highWater \in Nat
  BY TaskFrame, CursorTypes DEF TypeOK
<1> DEFINE Quiet == /\ Fresh(c)' => Fresh(c) /\ Cursor(c)' = Cursor(c)
                    /\ chan'[c] = chan[c]
                    /\ reg'[c].present => reg[c].present
                         /\ reg'[c].active = reg[c].active
                         /\ reg'[c].lastBuffered = reg[c].lastBuffered
<1>2. SUFFICES ASSUME ~Quiet
               PROVE  ChannelInv(c)'
  BY <1>1, SameChannel
<1> USE DEF TypeOK, hubVars, Fresh, Cursor, StorePcs, ChannelPcs, DeliverPcs
<1>3. CASE InsertOwner(c) \/ StageAndSpawn(c)
  <2>1. CASE InsertOwner(c)
    BY <1>1, <1>2, <2>1 DEF InsertOwner, TaskType
  <2>2. CASE StageAndSpawn(c)
    BY <1>1, <1>2, <2>2 DEF StageAndSpawn, Finish, TaskType
  <2> QED
    BY <1>3, <2>1, <2>2
<1>4. CASE StageRefused(c) \/ AttachFailed(c) \/ ReplayReadFailed(c)
  <2>1. task'[c].pc = "done"
    BY <1>1, <1>4 DEF StageRefused, AttachFailed, ReplayReadFailed, Finish,
       TaskType
  <2>2. ~Fresh(c)'
    BY <2>1
  <2> QED
    BY <2>2 DEF ChannelInv
<1>5. CASE Stuck(c) \/ Refused(c)
  <2>1. LagAndDetach(c, 0) \/ LagAndDetach(c, 1)
    BY <1>5 DEF Stuck, Refused
  <2>2. task'[c].pc = "done"
    BY <1>1, <2>1 DEF LagAndDetach, Finish, TaskType
  <2>3. ~Fresh(c)'
    BY <2>2
  <2> QED
    BY <2>3 DEF ChannelInv
<1>6. CASE ReadPage(c) \/ ReplayLagged(c) \/ Busy(c)
  <2>1. CASE ReadPage(c)
    BY <1>1, <1>2, <2>1 DEF ReadPage, ReplayBehind, TaskType
  <2>2. CASE ReplayLagged(c)
    BY <1>1, <1>2, <2>2 DEF ReplayLagged, TaskType
  <2>3. CASE Busy(c)
    BY <1>1, <1>2, <2>3 DEF Busy, TaskType
  <2> QED
    BY <1>6, <2>1, <2>2, <2>3
<1>7. CASE ReplaySkip(c) \/ ReplayEvent(c)
  BY <1>1, <1>2, <1>7 DEF ReplaySkip, ReplayEvent, AdvanceInPage, TaskType
<1>8. CASE ReplayCaughtUp(c)
  <2>1. /\ task[c].lastSent >= task[c].highWater /\ task[c].pc = "replay"
        /\ c \in owned
    BY <1>8 DEF ReplayCaughtUp, Announce, Offering, Admits
  <2>2. task[c].lastSent = task[c].highWater
    BY <1>1, <2>1 DEF CursorInv
  <2>3. /\ task'[c].pc = "buffered" /\ task'[c].lastSent = task[c].lastSent
        /\ UNCHANGED <<owned, reg, chan>>
    BY <1>1, <1>8 DEF ReplayCaughtUp, TaskType
  <2> QED
    BY <1>2, <2>1, <2>2, <2>3
<1>9. CASE Receive(c)
  BY <1>9, ChannelReceive
<1>10. CASE ChannelEvent(c)
  BY <1>1, <1>2, <1>10 DEF ChannelEvent, Admits, TaskType
<1>11. CASE GoLive(c)
  <2>1. task[c].pc = "buffered" /\ c \in owned
    BY <1>11 DEF GoLive, Drained
  <2>2. ~(task[c].highWater > task[c].lastSent)
    BY <1>1, <2>1 DEF CursorInv
  <2>3. /\ task'[c].pc = "live" /\ task'[c].lastSent = task[c].lastSent
        /\ UNCHANGED <<owned, reg, chan>>
    BY <1>1, <1>11, <2>2 DEF GoLive, TaskType
  <2> QED
    BY <1>2, <2>1, <2>3
<1>12. CASE LiveLagged(c) \/ ChannelClosed(c)
  BY <1>1, <1>2, <1>12 DEF LiveLagged, ChannelClosed, Finish, TaskType
<1>13. CASE Reregister(c)
  <2>1. /\ chan'[c] = NoChan /\ reg'[c].active /\ reg'[c].lastBuffered = head
        /\ task'[c].pc = "replay" /\ task'[c].highWater = head
    BY <1>1, <1>13 DEF Reregister, RegType, TaskType
  <2>2. Cursor(c)' = head
    BY <2>1
  <2> QED
    BY <1>1, <2>1, <2>2, NewChannel
<1>14. CASE ReregisterRefused(c) \/ FinalSuffixFailed(c) \/ Cancelled(c)
  BY <1>1, <1>2, <1>14 DEF ReregisterRefused, FinalSuffixFailed, Cancelled,
     Finish, TaskType
<1>15. CASE FinalHead(c) \/ FinalCaughtUp(c)
  <2>1. ~Fresh(c)'
    BY <1>1, <1>15 DEF FinalHead, FinalCaughtUp, FinishFinal, Finish, TaskType
  <2> QED
    BY <2>1 DEF ChannelInv
<1> QED
  BY <1>3, <1>4, <1>5, <1>6, <1>7, <1>8, <1>9, <1>10, <1>11, <1>12, <1>13,
     <1>14, <1>15
  DEF TaskStep

(* as does the client. *)
LEMMA ChannelClientStep ==
  ASSUME TypeOK, TypeOK', NEW c \in Clients, ChannelInv(c), ClientStep(c)
  PROVE  ChannelInv(c)'
<1>1. reg[c] \in RegType /\ task[c] \in TaskType /\ head' = head
  BY ClientFrame DEF TypeOK
<1>2. CASE \E after \in 0..head, sealed \in BOOLEAN : Register(c, after, sealed)
  <2>1. /\ chan'[c] = NoChan /\ reg'[c].active /\ reg'[c].lastBuffered = head
        /\ task'[c].pc = "registered" /\ task'[c].highWater = head
    BY <1>2 DEF Register, NoTask, TypeOK
  <2>2. Cursor(c)' = head
    BY <2>1 DEF Cursor, StorePcs
  <2> QED
    BY <1>1, <2>1, <2>2, NewChannel
<1>3. CASE Deliver(c) \/ Disconnect(c) \/ Reconnect(c)
  <2>1. UNCHANGED <<task, reg, chan, owned>>
    BY <1>3 DEF Deliver, Disconnect, Reconnect, hubVars
  <2>2. (Fresh(c)' <=> Fresh(c)) /\ Cursor(c)' = Cursor(c)
    BY <2>1 DEF Fresh, Cursor
  <2> QED
    BY <1>1, <2>1, <2>2, SameChannel
<1>4. CASE ClientDetach(c) \/ CloseConnection(c)
  <2>1. /\ reg'[c].present = reg[c].present /\ reg'[c].active = reg[c].active
        /\ reg'[c].lastBuffered = reg[c].lastBuffered
        /\ c \in owned /\ UNCHANGED <<task, chan>>
    BY <1>1, <1>4 DEF ClientDetach, CloseConnection, Disown, RegType, TypeOK
  <2>2. (Fresh(c)' => Fresh(c)) /\ Cursor(c)' = Cursor(c)
    BY <2>1 DEF Fresh, Cursor
  <2> QED
    BY <1>1, <2>1, <2>2, SameChannel
<1> QED
  BY <1>2, <1>3, <1>4 DEF ClientStep

(* A step that leaves the cursor alone keeps CursorInv. *)
LEMMA SameCursor ==
  ASSUME NEW c \in Clients, CursorInv(c), UNCHANGED <<journal, head, actor, drain>>,
         c \in owned' => c \in owned,
         task'[c].pc = task[c].pc, task'[c].lastSent = task[c].lastSent,
         task'[c].highWater = task[c].highWater,
         task'[c].pageEnd = task[c].pageEnd,
         task'[c].pending = task[c].pending, task'[c].outcome = task[c].outcome
  PROVE  CursorInv(c)'
  BY DEF CursorInv

(* A task that ended with a complete outcome has sent the whole journal. *)
LEMMA DoneCursor ==
  ASSUME NEW c \in Clients, task'[c].pc = "done",
         task'[c].outcome = "complete" =>
            /\ actor' = "stopped"
            /\ drain' # "forced" => task'[c].lastSent = Len(journal')
  PROVE  CursorInv(c)'
  BY DEF CursorInv, StorePcs, ChannelPcs, DeliverPcs, FinalPcs

(* The replay task keeps CursorInv, *)
LEMMA CursorTaskStep ==
  ASSUME TypeOK, TypeOK', HeadInv, NEW c \in Clients, Mapped(c), ChannelInv(c),
         CursorInv(c), TaskStep(c)
  PROVE  CursorInv(c)'
<1>1. /\ task[c] \in TaskType /\ task \in [Clients -> TaskType]
      /\ UNCHANGED <<journal, head, actor, drain>>
  BY TaskFrame DEF TypeOK
<1>2. /\ task[c].lastSent \in Nat /\ task[c].highWater \in Nat
      /\ task[c].pageEnd \in Nat /\ task[c].pending \in Nat
      /\ head \in Nat /\ Len(journal) \in Nat /\ head <= Len(journal)
  BY CursorTypes DEF HeadInv
<1> DEFINE Labels == /\ StorePcs = {"registered", "owned", "replay", "page"}
                     /\ ChannelPcs = {"buffered", "live", "buffered_deliver",
                                      "live_deliver"}
                     /\ DeliverPcs = {"buffered_deliver", "live_deliver"}
                     /\ FinalPcs = {"final", "final_replay", "final_page"}
<1>3. Labels
  BY DEF StorePcs, ChannelPcs, DeliverPcs, FinalPcs
<1>4. CASE InsertOwner(c)
  <2>1. /\ task[c].pc = "registered" /\ task'[c].pc = "owned"
        /\ task'[c].lastSent = task[c].lastSent
        /\ task'[c].highWater = task[c].highWater
        /\ task'[c].outcome = task[c].outcome
    BY <1>1, <1>4 DEF InsertOwner, TaskType
  <2> QED
    BY <1>1, <1>3, <2>1 DEF CursorInv
<1>5. CASE StageAndSpawn(c)
  <2>1. task[c].pc = "owned"
    BY <1>5 DEF StageAndSpawn
  <2>2. CASE c \in owned
    <3>1. /\ task'[c].pc = "replay" /\ task'[c].lastSent = task[c].lastSent
          /\ task'[c].highWater = task[c].highWater
          /\ task'[c].outcome = task[c].outcome
      BY <1>1, <1>5, <2>2 DEF StageAndSpawn, TaskType
    <3> QED
      BY <1>1, <1>3, <2>1, <3>1 DEF CursorInv
  <2>3. CASE c \notin owned
    <3>1. task'[c].pc = "done" /\ task'[c].outcome = "detached"
      BY <1>1, <1>5, <2>3 DEF StageAndSpawn, Finish, TaskType
    <3> QED
      BY <3>1, DoneCursor
  <2> QED
    BY <2>2, <2>3
<1>6. CASE StageRefused(c) \/ AttachFailed(c) \/ ReplayReadFailed(c)
           \/ FinalSuffixFailed(c) \/ Cancelled(c)
  <2>1. task'[c].pc = "done" /\ task'[c].outcome # "complete"
    BY <1>1, <1>6 DEF StageRefused, AttachFailed, ReplayReadFailed,
       FinalSuffixFailed, Cancelled, Finish, TaskType
  <2> QED
    BY <2>1, DoneCursor
<1>7. CASE Stuck(c) \/ Refused(c)
  <2>1. LagAndDetach(c, 0) \/ LagAndDetach(c, 1)
    BY <1>7 DEF Stuck, Refused
  <2>2. task'[c].pc = "done" /\ task'[c].outcome # "complete"
    BY <1>1, <2>1 DEF LagAndDetach, Finish, TaskType
  <2> QED
    BY <2>2, DoneCursor
<1>8. CASE Busy(c)
  <2>1. /\ task'[c].pc = task[c].pc /\ task'[c].lastSent = task[c].lastSent
        /\ task'[c].highWater = task[c].highWater
        /\ task'[c].pageEnd = task[c].pageEnd
        /\ task'[c].pending = task[c].pending
        /\ task'[c].outcome = task[c].outcome /\ owned' = owned
    BY <1>1, <1>8 DEF Busy, TaskType, hubVars
  <2> QED
    BY <1>1, <2>1, SameCursor
<1>9. CASE ReadPage(c)
  <2>1. PICK n \in 1..PageSize :
          /\ task[c].lastSent + n <= task[c].highWater
          /\ task' = [task EXCEPT
                ![c].pageEnd = task[c].lastSent + n,
                ![c].pc = IF @ = "replay" THEN "page" ELSE "final_page"]
    BY <1>9 DEF ReadPage
  <2>2. /\ task'[c].pageEnd = task[c].lastSent + n
        /\ task'[c].pc = IF task[c].pc = "replay" THEN "page" ELSE "final_page"
        /\ task'[c].lastSent = task[c].lastSent
        /\ task'[c].highWater = task[c].highWater
        /\ task'[c].outcome = task[c].outcome
    BY <1>1, <2>1 DEF TaskType
  <2>3. /\ task[c].pc \in {"replay", "final_replay"} /\ owned' = owned
        /\ n \in Nat /\ n > 0
    BY <1>9, PipeAssumption DEF ReadPage, ReplayBehind, hubVars
  <2>4. task[c].lastSent < task[c].lastSent + n
    BY <1>2, <2>3
  <2> QED
    BY <1>1, <1>2, <1>3, <2>1, <2>2, <2>3, <2>4 DEF CursorInv
<1>10. CASE ReplayLagged(c)
  <2>1. /\ task[c].pc = "replay" /\ task[c].lastSent < task[c].highWater
        /\ task'[c].pc = "reregister" /\ task'[c].lastSent = task[c].lastSent
        /\ task'[c].outcome = task[c].outcome
    BY <1>1, <1>10 DEF ReplayLagged, ReplayBehind, TaskType
  <2> QED
    BY <1>1, <1>2, <1>3, <2>1 DEF CursorInv
<1>11. CASE ReplaySkip(c) \/ ReplayEvent(c)
  <2>1. /\ task[c].pc \in {"page", "final_page"} /\ AdvanceInPage(c)
        /\ owned' = owned
    BY <1>11 DEF ReplaySkip, ReplayEvent, hubVars
  <2>2. /\ task'[c].lastSent = task[c].lastSent + 1
        /\ task'[c].highWater = task[c].highWater
        /\ task'[c].pageEnd = task[c].pageEnd
        /\ task'[c].outcome = task[c].outcome
        /\ task'[c].pc = IF task[c].lastSent + 1 < task[c].pageEnd THEN task[c].pc
                         ELSE IF task[c].pc = "page" THEN "replay"
                         ELSE "final_replay"
    BY <1>1, <2>1 DEF AdvanceInPage, TaskType
  <2>3. CASE task[c].pc = "page"
    BY <1>1, <1>2, <1>3, <2>2, <2>3 DEF CursorInv
  <2>4. CASE task[c].pc = "final_page"
    BY <1>1, <1>2, <1>3, <2>1, <2>2, <2>4 DEF CursorInv
  <2> QED
    BY <2>1, <2>3, <2>4
<1>12. CASE ReplayCaughtUp(c)
  <2>1. /\ task[c].pc = "replay" /\ task[c].lastSent >= task[c].highWater
        /\ task'[c].pc = "buffered" /\ task'[c].lastSent = task[c].lastSent
        /\ task'[c].highWater = task[c].highWater
        /\ task'[c].outcome = task[c].outcome
    BY <1>1, <1>12 DEF ReplayCaughtUp, Announce, Offering, TaskType
  <2> QED
    BY <1>1, <1>2, <1>3, <2>1 DEF CursorInv
<1>13. CASE Receive(c)
  <2>1. /\ task[c].lastSent + 1 <= head
        /\ task[c].pc \in {"buffered", "live"}
        /\ task' = [task EXCEPT
                ![c].pending = task[c].lastSent + 1,
                ![c].pc = IF @ = "buffered" THEN "buffered_deliver"
                                            ELSE "live_deliver"]
    BY <1>13, ChannelReceive DEF Receive
  <2>2. /\ task'[c].pending = task[c].lastSent + 1
        /\ task'[c].pc \in {"buffered_deliver", "live_deliver"}
        /\ task'[c].lastSent = task[c].lastSent
        /\ task'[c].highWater = task[c].highWater
        /\ task'[c].outcome = task[c].outcome
    BY <1>1, <2>1 DEF TaskType
  <2> QED
    BY <1>1, <1>2, <1>3, <2>1, <2>2 DEF CursorInv
<1>14. CASE ChannelEvent(c)
  <2>1. /\ task[c].pc \in {"buffered_deliver", "live_deliver"}
        /\ task'[c].pc \in {"buffered", "live"}
        /\ task'[c].lastSent = task[c].pending
        /\ task'[c].highWater = task[c].highWater
        /\ task'[c].outcome = task[c].outcome
    BY <1>1, <1>14 DEF ChannelEvent, TaskType
  <2> QED
    BY <1>1, <1>2, <1>3, <2>1 DEF CursorInv
<1>15. CASE GoLive(c)
  <2>1. task[c].pc = "buffered"
    BY <1>15 DEF GoLive
  <2>2. ~(task[c].highWater > task[c].lastSent)
    BY <1>2, <1>3, <2>1 DEF CursorInv
  <2>3. /\ task'[c].pc = "live" /\ task'[c].lastSent = task[c].lastSent
        /\ task'[c].highWater = task[c].highWater
        /\ task'[c].outcome = task[c].outcome
    BY <1>1, <1>15, <2>2 DEF GoLive, TaskType
  <2> QED
    BY <1>1, <1>3, <2>1, <2>3 DEF CursorInv
<1>16. CASE LiveLagged(c)
  <2>1. /\ task[c].pc = "live" /\ c \in owned
        /\ chan[c].lagged /\ reg[c].present
        /\ task'[c].pc = "reregister" /\ task'[c].lastSent = task[c].lastSent
        /\ task'[c].outcome = task[c].outcome
    BY <1>1, <1>16 DEF LiveLagged, LagPending, TaskType
  <2>2. Tip(c) < head /\ Cursor(c) = task[c].lastSent
    BY <2>1 DEF ChannelInv, Fresh, ChannelPcs, StorePcs, DeliverPcs, Cursor
  <2>3. task[c].lastSent < head
    BY <1>2, <2>2, CursorTypes DEF Tip
  <2> QED
    BY <1>1, <1>3, <2>1, <2>3 DEF CursorInv
<1>17. CASE ChannelClosed(c)
  <2>1. /\ task[c].pc \in {"buffered", "live"} /\ c \in owned
        /\ chan[c].queue = << >> /\ ~reg[c].present
    BY <1>17 DEF ChannelClosed, Drained
  <2>2. actor = "stopped"
    BY <2>1 DEF Mapped, Attached
  <2>3. /\ Tip(c) <= head /\ Cursor(c) = task[c].lastSent
        /\ chan[c].lagged <=> Tip(c) < head
    BY <2>1 DEF ChannelInv, Fresh, ChannelPcs, StorePcs, DeliverPcs, Cursor
  <2>4. Tip(c) = task[c].lastSent
    BY <1>2, <2>1, <2>3 DEF Tip
  <2>5. CASE chan[c].lagged
    <3>1. /\ task'[c].pc = "final" /\ task'[c].lastSent = task[c].lastSent
          /\ task'[c].outcome = task[c].outcome
      BY <1>1, <1>17, <2>5 DEF ChannelClosed, TaskType
    <3> QED
      BY <1>1, <1>2, <1>3, <2>1, <2>2, <2>3, <2>4, <3>1 DEF CursorInv
  <2>6. CASE ~chan[c].lagged
    <3>1. task'[c].pc = "done" /\ task'[c].lastSent = task[c].lastSent
      BY <1>1, <1>17, <2>6 DEF ChannelClosed, Finish, TaskType
    <3>2. task[c].lastSent = head
      BY <1>2, <2>3, <2>4, <2>6
    <3>3. drain # "forced" => head = Len(journal)
      BY <2>2 DEF HeadInv
    <3> QED
      BY <1>1, <2>2, <3>1, <3>2, <3>3, DoneCursor
  <2> QED
    BY <2>5, <2>6
<1>18. CASE Reregister(c)
  <2>1. /\ task[c].pc = "reregister" /\ task'[c].pc = "replay"
        /\ task'[c].highWater = head /\ task'[c].lastSent = task[c].lastSent
        /\ task'[c].outcome = task[c].outcome
    BY <1>1, <1>18 DEF Reregister, TaskType
  <2> QED
    BY <1>1, <1>2, <1>3, <2>1 DEF CursorInv
<1>19. CASE ReregisterRefused(c)
  <2>1. /\ task[c].pc = "reregister" /\ task'[c].pc = "final"
        /\ task'[c].lastSent = task[c].lastSent
        /\ task'[c].outcome = task[c].outcome
        /\ ~reg[c].present /\ owned' = owned
    BY <1>1, <1>19 DEF ReregisterRefused, TaskType, hubVars
  <2>2. c \in owned => actor = "stopped"
    BY <2>1 DEF Mapped, Attached
  <2> QED
    BY <1>1, <1>2, <1>3, <2>1, <2>2 DEF CursorInv
<1>20. CASE FinalHead(c)
  <2>1. task[c].pc = "final"
    BY <1>20 DEF FinalHead
  <2>2. /\ task[c].lastSent <= Len(journal)
        /\ c \in owned => actor = "stopped"
    BY <1>3, <2>1 DEF CursorInv
  <2>3. CASE Len(journal) <= task[c].lastSent
    <3>1. /\ task'[c].pc = "done" /\ task'[c].lastSent = task[c].lastSent
          /\ task'[c].outcome = "complete" => c \in owned
      BY <1>1, <1>20, <2>3 DEF FinalHead, FinishFinal, Finish, TaskType
    <3> QED
      BY <1>1, <1>2, <2>2, <2>3, <3>1, DoneCursor
  <2>4. CASE ~(Len(journal) <= task[c].lastSent)
    <3>1. /\ task'[c].pc = "final_replay" /\ task'[c].highWater = Len(journal)
          /\ task'[c].lastSent = task[c].lastSent
          /\ task'[c].outcome = task[c].outcome /\ owned' = owned
      BY <1>1, <1>20, <2>4 DEF FinalHead, TaskType
    <3> QED
      BY <1>1, <1>2, <1>3, <2>1, <2>2, <3>1 DEF CursorInv
  <2> QED
    BY <2>3, <2>4
<1>21. CASE FinalCaughtUp(c)
  <2>1. /\ task[c].pc = "final_replay" /\ c \in owned
        /\ task[c].lastSent >= task[c].highWater
        /\ task'[c].pc = "done" /\ task'[c].lastSent = task[c].lastSent
    BY <1>1, <1>21 DEF FinalCaughtUp, Announce, Offering, Admits, FinishFinal,
       Finish, TaskType
  <2>2. actor = "stopped" /\ task[c].lastSent = Len(journal)
    BY <1>2, <1>3, <2>1 DEF CursorInv
  <2> QED
    BY <1>1, <2>1, <2>2, DoneCursor
<1> QED
  BY <1>4, <1>5, <1>6, <1>7, <1>8, <1>9, <1>10, <1>11, <1>12, <1>13, <1>14,
     <1>15, <1>16, <1>17, <1>18, <1>19, <1>20, <1>21
  DEF TaskStep

(* as does the client, *)
LEMMA CursorClientStep ==
  ASSUME TypeOK, HeadInv, NEW c \in Clients, CursorInv(c), ClientStep(c)
  PROVE  CursorInv(c)'
<1>1. UNCHANGED <<journal, head, actor, drain>>
  BY ClientFrame
<1>2. CASE \E after \in 0..head, sealed \in BOOLEAN : Register(c, after, sealed)
  <2>1. PICK after \in 0..head, sealed \in BOOLEAN : Register(c, after, sealed)
    BY <1>2
  <2>2. /\ task'[c].pc = "registered" /\ task'[c].lastSent = after
        /\ task'[c].highWater = head /\ task'[c].outcome = "none"
        /\ after <= head
    BY <2>1 DEF Register, NoTask, TypeOK
  <2>3. head \in Nat
    BY DEF TypeOK
  <2> QED
    BY <1>1, <2>2, <2>3
    DEF CursorInv, StorePcs, ChannelPcs, DeliverPcs, FinalPcs
<1>3. CASE Deliver(c) \/ Disconnect(c) \/ Reconnect(c)
  <2>1. UNCHANGED <<task, owned>>
    BY <1>3 DEF Deliver, Disconnect, Reconnect, hubVars
  <2> QED
    BY <1>1, <2>1, SameCursor
<1>4. CASE ClientDetach(c) \/ CloseConnection(c)
  <2>1. UNCHANGED task /\ owned' = owned \ {c}
    BY <1>4 DEF ClientDetach, CloseConnection, Disown
  <2> QED
    BY <1>1, <2>1, SameCursor
<1> QED
  BY <1>2, <1>3, <1>4 DEF ClientStep

(* A publication extends every channel that has not lagged, and marks the  *)
(* ones it cannot extend to the new head.                                  *)
LEMMA ChannelPublish ==
  ASSUME TypeOK, HeadInv, NEW c \in Clients, Mapped(c), ChannelInv(c), Publish
  PROVE  ChannelInv(c)'
<1> DEFINE q == chan[c].queue
           n == Accepted(c)
<1>1. /\ chan'[c] = PublishedChan(c) /\ reg'[c] = PublishedReg(c)
      /\ UNCHANGED <<task, owned>> /\ head' = Len(journal)
      /\ actor = "publishing"
  BY DEF Publish, hubVars
<1>2. SUFFICES ASSUME Fresh(c)'
               PROVE  ChannelInv(c)'
  BY DEF ChannelInv
<1>3. Cursor(c)' = Cursor(c)
  BY <1>1 DEF Cursor
<1>4. ~ReceiverGone(c)
  BY <1>1, <1>2 DEF Fresh, ReceiverGone, StorePcs, ChannelPcs, DeliverPcs
<1>5. reg[c].present /\ Fresh(c)
  <2>1. reg'[c].present => reg[c].present
    BY <1>1, <1>4 DEF PublishedReg
  <2>2. (c \in owned \/ task[c].pc = "registered") => reg[c].present
    BY <1>1, <1>4 DEF Mapped, Attached, ReceiverGone
  <2> QED
    BY <1>1, <1>2, <2>1, <2>2 DEF Fresh
<1>6. /\ Cursor(c) \in Nat /\ Len(q) \in Nat /\ head \in Nat
      /\ Tip(c) \in Nat /\ Tip(c) = Cursor(c) + Len(q)
      /\ Len(journal) \in Nat /\ head <= Len(journal)
      /\ chan[c].lagged \in BOOLEAN
  BY CursorTypes DEF Tip, HeadInv
<1>7. CASE ~reg[c].active
  <2>1. chan'[c] = chan[c] /\ reg'[c] = reg[c]
    BY <1>1, <1>7 DEF PublishedChan, PublishedReg
  <2>2. Tip(c)' = Tip(c)
    BY <1>3, <2>1 DEF Tip
  <2>3. Tip(c) < head /\ chan[c].lagged
    BY <1>5, <1>7 DEF ChannelInv
  <2>4. Tip(c)' <= head' /\ Tip(c)' < head'
    BY <1>1, <1>6, <2>2, <2>3
  <2>5. \A i \in 1..Len(chan'[c].queue) : chan'[c].queue[i].seq = Cursor(c)' + i
    BY <1>3, <1>5, <2>1 DEF ChannelInv
  <2>6. /\ reg'[c].lastBuffered = Tip(c)'
        /\ reg'[c].active <=> ~chan'[c].lagged
    BY <1>5, <2>1, <2>2 DEF ChannelInv
  <2>7. chan'[c].lagged
    BY <2>1, <2>3
  <2>8. chan'[c].lagged <=> Tip(c)' < head'
    BY <2>4, <2>7
  <2> QED
    BY <2>4, <2>5, <2>6, <2>8 DEF ChannelInv
<1>8. CASE reg[c].active
  <2>1. chan'[c] = Fed(c)
    BY <1>1, <1>4, <1>5, <1>8 DEF PublishedChan
  <2>2. /\ n \in Nat /\ BatchLen \in Nat /\ n <= BatchLen
        /\ head + BatchLen = Len(journal)
        /\ Len(Fed(c).queue) = Len(q) + n
        /\ \A i \in 1..Len(q) : Fed(c).queue[i] = q[i]
        /\ \A i \in 1..n : Fed(c).queue[Len(q) + i].seq = head + i
        /\ Fed(c).lagged <=> chan[c].lagged \/ n < BatchLen
    BY FedShape
  <2>3. ~chan[c].lagged /\ Tip(c) = head /\ reg[c].lastBuffered = Tip(c)
    BY <1>5, <1>6, <1>8 DEF ChannelInv
  <2>4. /\ reg'[c].active = (n = BatchLen)
        /\ reg'[c].lastBuffered = IF n > 0 THEN head + n ELSE reg[c].lastBuffered
    <3>1. reg[c] \in RegType
      BY DEF TypeOK
    <3> QED
      BY <1>1, <1>4, <1>5, <1>8, <3>1 DEF PublishedReg, RegType
  <2> HIDE DEF n
  <2>5. Tip(c)' = head + n
    <3>1. Tip(c)' = Cursor(c) + (Len(q) + n)
      BY <1>3, <2>1, <2>2 DEF Tip
    <3> QED
      BY <1>6, <2>2, <2>3, <3>1
  <2>6. reg'[c].lastBuffered = Tip(c)'
    BY <1>6, <2>2, <2>3, <2>4, <2>5
  <2>7. Tip(c)' <= head' /\ (chan'[c].lagged <=> Tip(c)' < head')
    BY <1>1, <1>6, <2>1, <2>2, <2>3, <2>5
  <2>8. reg'[c].active <=> ~chan'[c].lagged
    <3>1. n < BatchLen <=> n # BatchLen
      BY <2>2
    <3>2. chan'[c].lagged <=> n # BatchLen
      BY <2>1, <2>2, <2>3, <3>1
    <3> QED
      BY <2>4, <3>2, Zenon
  <2>9. ASSUME NEW i \in 1..Len(chan'[c].queue)
        PROVE  chan'[c].queue[i].seq = Cursor(c)' + i
    <3>1. i \in Nat /\ i >= 1 /\ i <= Len(q) + n
      BY <1>6, <2>1, <2>2
    <3>2. CASE i <= Len(q)
      <4>1. i \in 1..Len(q)
        BY <1>6, <3>1, <3>2
      <4>2. chan'[c].queue[i] = q[i]
        BY <2>1, <2>2, <4>1
      <4>3. q[i].seq = Cursor(c) + i
        BY <1>5, <4>1 DEF ChannelInv
      <4> QED
        BY <1>3, <4>2, <4>3
    <3>3. CASE i > Len(q)
      <4> DEFINE j == i - Len(q)
      <4>1. j \in 1..n /\ Len(q) + j = i
        BY <1>6, <2>2, <3>1, <3>3
      <4> HIDE DEF j
      <4>2. Fed(c).queue[Len(q) + j].seq = head + j
        BY <2>2, <4>1
      <4>3. chan'[c].queue[i].seq = head + j
        BY <2>1, <4>1, <4>2
      <4>4. head + j = Cursor(c) + i
        <5> DEFINE u == Cursor(c)
                   l == Len(q)
        <5>1. u \in Nat /\ l \in Nat /\ head = u + l
          BY <1>6, <2>3
        <5>2. j \in Nat /\ l + j = i
          BY <2>2, <4>1
        <5> HIDE DEF u, l
        <5>3. head + j = u + i
          BY <5>1, <5>2
        <5> QED
          BY <5>3 DEF u
      <4> QED
        BY <1>3, <4>3, <4>4
    <3> QED
      BY <1>6, <3>1, <3>2, <3>3
  <2> QED
    BY <2>6, <2>7, <2>8, <2>9 DEF ChannelInv
<1> QED
  BY <1>7, <1>8

(* hence every step keeps the stream invariant. *)
LEMMA StreamStep ==
  ASSUME TypeOK, TypeOK', HeadInv, HeadInv', MapInv, StreamInv, [Next]_vars
  PROVE  StreamInv'
<1>1. CASE UNCHANGED vars
  BY <1>1 DEF vars, actorVars, hubVars, StreamInv, ChannelInv, CursorInv, Fresh,
     Tip, Cursor
<1>2. ASSUME NEW c \in Clients, TaskStep(c) \/ ClientStep(c)
      PROVE  StreamInv'
  <2>1. ChannelInv(c)' /\ CursorInv(c)'
    BY <1>2, ChannelTaskStep, ChannelClientStep, CursorTaskStep, CursorClientStep
    DEF StreamInv, MapInv
  <2>2. /\ UNCHANGED <<journal, head, actor, drain>>
        /\ \A d \in Clients \ {c} : SameClient(d)
    BY <1>2, TaskFrame, ClientFrame
  <2>3. ASSUME NEW d \in Clients \ {c}
        PROVE  ChannelInv(d)' /\ CursorInv(d)'
    <3>1. SameClient(d) /\ ChannelInv(d) /\ CursorInv(d)
      BY <2>2 DEF StreamInv
    <3>2. (Fresh(d)' <=> Fresh(d)) /\ Cursor(d)' = Cursor(d)
      BY <3>1 DEF SameClient, Fresh, Cursor
    <3>3. ChannelInv(d)'
      BY <2>2, <3>1, <3>2, SameChannel DEF SameClient
    <3>4. CursorInv(d)'
      BY <2>2, <3>1, SameCursor DEF SameClient
    <3> QED
      BY <3>3, <3>4
  <2> QED
    BY <2>1, <2>3 DEF StreamInv
<1>3. SUFFICES ASSUME NEW c \in Clients, ActorStep \/ HubStep
               PROVE  ChannelInv(c)' /\ CursorInv(c)'
  BY <1>1, <1>2 DEF Next, StreamInv
<1>4. /\ ChannelInv(c) /\ CursorInv(c) /\ Mapped(c) /\ task[c] \in TaskType
      /\ Len(journal) \in Nat /\ head \in Nat /\ head <= Len(journal)
      /\ task[c].lastSent \in Nat /\ task[c].highWater \in Nat
      /\ task[c].pending \in Nat
  BY CursorTypes DEF StreamInv, MapInv, TypeOK, HeadInv
<1>5. ASSUME NEW n \in 1..MaxBatch, NEW kinds \in [1..n -> Kinds],
             NEW w \in Weights, CommitBatch(kinds, w)
      PROVE  ChannelInv(c)' /\ CursorInv(c)'
  <2>1. kinds \in Seq(Kinds) /\ journal \in Seq(Kinds)
    BY PipeAssumption DEF TypeOK
  <2>2. /\ journal' = journal \o kinds /\ actor = "idle"
        /\ UNCHANGED <<head, reg, chan, task, owned>>
    BY <1>5 DEF CommitBatch, hubVars
  <2>3. Len(kinds) \in Nat /\ Len(journal') = Len(journal) + Len(kinds)
    BY <2>1, <2>2
  <2>4. Len(journal') \in Nat /\ Len(journal) <= Len(journal')
    BY <1>4, <2>3
  <2>5. ChannelInv(c)'
    BY <1>4, <2>2, SameChannel DEF Fresh, Cursor
  <2>6. CursorInv(c)'
    BY <1>4, <2>2, <2>4 DEF CursorInv, FinalPcs
  <2> QED
    BY <2>5, <2>6
<1>6. CASE Publish
  <2>1. /\ UNCHANGED <<journal, task, owned, drain>> /\ head' = Len(journal)
        /\ actor = "publishing"
    BY <1>6 DEF Publish, hubVars
  <2>2. ChannelInv(c)'
    BY <1>4, <1>6, ChannelPublish
  <2>3. CursorInv(c)'
    BY <1>4, <2>1 DEF CursorInv
  <2> QED
    BY <2>2, <2>3
<1>7. ASSUME NEW d \in Clients, ActorDetach(d)
      PROVE  ChannelInv(c)' /\ CursorInv(c)'
  <2>1. /\ actor = "idle" /\ reg[d].detaching /\ reg' = [reg EXCEPT ![d] = NoReg]
        /\ UNCHANGED <<journal, head, actor, drain, chan, task, owned>>
    BY <1>7 DEF ActorDetach, actorVars, hubVars
  <2>2. CursorInv(c)'
    BY <1>4, <2>1, SameCursor
  <2>3. CASE c = d
    <3>1. ~reg'[c].present /\ ~Attached(c)
      BY <1>4, <2>1, <2>3 DEF Mapped, NoReg, TypeOK
    <3>2. ~Fresh(c)'
      BY <2>1, <3>1 DEF Fresh, Attached, StorePcs, ChannelPcs, DeliverPcs
    <3> QED
      BY <2>2, <3>2 DEF ChannelInv
  <2>4. CASE c # d
    <3>1. reg'[c] = reg[c]
      BY <2>1, <2>4
    <3>2. (Fresh(c)' <=> Fresh(c)) /\ Cursor(c)' = Cursor(c)
      BY <2>1, <3>1 DEF Fresh, Cursor
    <3> QED
      BY <1>4, <2>1, <2>2, <3>1, <3>2, SameChannel
  <2> QED
    BY <2>3, <2>4
<1>8. CASE BeginDraining
  <2>1. /\ drain = "serving" /\ drain' = "draining"
        /\ UNCHANGED <<journal, head, actor, reg, chan, task, owned>>
    BY <1>8 DEF BeginDraining, actorVars
  <2>2. ChannelInv(c)'
    BY <1>4, <2>1, SameChannel DEF Fresh, Cursor
  <2>3. CursorInv(c)'
    BY <1>4, <2>1 DEF CursorInv
  <2> QED
    BY <2>2, <2>3
<1>9. CASE StopActor
  <2>1. /\ actor' = "stopped" /\ reg' = [d \in Clients |-> NoReg]
        /\ UNCHANGED <<journal, head, drain, chan, task, owned>>
    BY <1>9 DEF StopActor, hubVars
  <2>2. ~reg'[c].present
    BY <2>1 DEF NoReg
  <2>3. (Fresh(c)' => Fresh(c)) /\ Cursor(c)' = Cursor(c)
    BY <2>1, <2>2 DEF Fresh, Cursor
  <2>4. ChannelInv(c)'
    BY <1>4, <2>1, <2>2, <2>3, SameChannel
  <2>5. CursorInv(c)'
    BY <1>4, <2>1 DEF CursorInv
  <2> QED
    BY <2>4, <2>5
<1>10. CASE JoinReplays
  <2>1. /\ drain = "draining" /\ owned' = {}
        /\ UNCHANGED <<journal, head, actor, reg, chan, task>>
    BY <1>10 DEF JoinReplays, actorVars
  <2>2. ChannelInv(c)'
    BY <1>4, <2>1, SameChannel DEF Fresh, Cursor
  <2>3. CursorInv(c)'
    BY <1>4, <2>1 DEF CursorInv
  <2> QED
    BY <2>2, <2>3
<1>11. CASE ForceStop
  <2>1. /\ task'[c].pc = "done" /\ drain' = "forced" /\ actor' = "stopped"
    BY <1>4, <1>11 DEF ForceStop, TaskType
  <2>2. ~Fresh(c)'
    BY <2>1 DEF Fresh, StorePcs, ChannelPcs, DeliverPcs
  <2> QED
    BY <2>1, <2>2, DoneCursor DEF ChannelInv
<1>12. CASE Restart
  <2>1. task'[c].pc = "done" /\ task'[c].outcome = "none"
    BY <1>12 DEF Restart, NoTask
  <2>2. ~Fresh(c)'
    BY <2>1 DEF Fresh, StorePcs, ChannelPcs, DeliverPcs
  <2> QED
    BY <2>1, <2>2, DoneCursor DEF ChannelInv
<1> QED
  BY <1>3, <1>5, <1>6, <1>7, <1>8, <1>9, <1>10, <1>11, <1>12
  DEF ActorStep, HubStep

(* The initial state satisfies the stream invariant. *)
LEMMA StreamInit ==
  ASSUME Init
  PROVE  HeadInv /\ MapInv /\ StreamInv
<1>1. /\ Len(journal) = 0 /\ head = 0 /\ actor = "idle"
      /\ \A c \in Clients : /\ task[c].pc = "done" /\ task[c].outcome = "none"
                            /\ ~reg[c].present /\ chan[c].queue = << >>
  BY DEF Init, NoTask, NoReg, NoChan
<1>2. HeadInv
  BY <1>1 DEF HeadInv
<1>3. MapInv
  <2>0. Len(<< >>) = 0
    OBVIOUS
  <2>1. \A c \in Clients : Len(chan[c].queue) = 0
    BY <1>1, <2>0, Zenon
  <2>2. 0 <= CatchUpCapacity
    BY PipeAssumption
  <2> QED
    BY <1>1, <2>1, <2>2 DEF MapInv, Mapped, Attached
<1>4. StreamInv
  BY <1>1 DEF StreamInv, ChannelInv, CursorInv, Fresh, StorePcs, ChannelPcs,
     DeliverPcs, FinalPcs
<1> QED
  BY <1>2, <1>3, <1>4

(* The first three layers together, as an invariant of the specification.  *)
LEMMA StreamInvariant == Spec => [](TypeOK /\ HeadInv /\ MapInv /\ StreamInv)
<1> DEFINE Inv == TypeOK /\ HeadInv /\ MapInv /\ StreamInv
<1>1. Init => Inv
  BY TypeInit, StreamInit
<1>2. Inv /\ [Next]_vars => Inv'
  BY TypeStep, HeadStep, MapStep, StreamStep
<1> QED
  BY <1>1, <1>2, PTL DEF Spec

(* After a graceful shutdown every attachment whose replay task completed  *)
(* has the whole journal in its outbox: what the actor published and what  *)
(* overflowed, for any capacity, page size and number of clients.          *)
THEOREM GracefulDelivers == Spec => []GracefulIsComplete
<1>1. StreamInv => GracefulIsComplete
  BY DEF StreamInv, CursorInv, GracefulIsComplete
<1> QED
  BY <1>1, StreamInvariant, PTL

(* Between the store replay and the catch-up channel no published envelope *)
(* is stranded, whatever batches overflow and however often the receiver   *)
(* re-registers.                                                           *)
THEOREM NoCommitStranded == Spec => []NothingStranded
<1>1. TypeOK /\ StreamInv => NothingStranded
  <2>1. SUFFICES ASSUME TypeOK, StreamInv, NEW c \in Clients,
                        task[c].pc \in StreamPcs, reg[c].present,
                        ~chan[c].lagged,
                        NEW s \in (task[c].lastSent + 1)..head,
                        ~(s <= task[c].highWater), s # task[c].pending
                 PROVE  \E i \in 1..Len(chan[c].queue) : chan[c].queue[i].seq = s
    BY DEF NothingStranded
  <2>2. ChannelInv(c) /\ CursorInv(c) /\ Fresh(c)
    BY <2>1 DEF StreamInv, Fresh, StreamPcs, StorePcs, ChannelPcs, DeliverPcs
  <2>3. /\ task[c].lastSent \in Nat /\ task[c].highWater \in Nat
        /\ task[c].pending \in Nat /\ Cursor(c) \in Nat
        /\ Len(chan[c].queue) \in Nat /\ head \in Nat
    BY <2>1, CursorTypes
  <2>4. Tip(c) = head
    BY <2>1, <2>2, CursorTypes DEF ChannelInv
  <2>5. s > Cursor(c)
    <3>1. CASE task[c].pc \in StorePcs
      BY <2>1, <2>3, <3>1 DEF Cursor
    <3>2. CASE task[c].pc \in DeliverPcs
      <4>1. Cursor(c) = task[c].pending /\ task[c].pending = task[c].lastSent + 1
        BY <2>2, <3>2 DEF Cursor, CursorInv, DeliverPcs, StorePcs
      <4> QED
        BY <2>1, <2>3, <4>1
    <3>3. CASE task[c].pc \notin StorePcs \cup DeliverPcs
      BY <2>1, <2>3, <3>3 DEF Cursor
    <3> QED
      BY <3>1, <3>2, <3>3
  <2> DEFINE k == s - Cursor(c)
  <2>6. k \in 1..Len(chan[c].queue) /\ Cursor(c) + k = s
    BY <2>1, <2>3, <2>4, <2>5 DEF Tip
  <2> HIDE DEF k
  <2>7. chan[c].queue[k].seq = Cursor(c) + k
    BY <2>2, <2>6 DEF ChannelInv
  <2> QED
    BY <2>6, <2>7
<1> QED
  BY <1>1, StreamInvariant, PTL

-----------------------------------------------------------------------------
(* The marks. *)

(* The types of a wire. *)
LEMMA MarkTypes ==
  ASSUME TypeOK, NEW c \in Clients
  PROVE  /\ wire[c] \in WireType /\ wire[c].lane \in Seq(Frames)
         /\ wire[c].seen \in Nat /\ wire[c].announced \in Nat
         /\ wire[c].omitted \in Nat /\ Len(wire[c].lane) \in Nat
<1>1. wire[c] \in WireType
  BY DEF TypeOK
<1> QED
  BY <1>1 DEF WireType

(* A step that leaves marks and cursor alone keeps Marked. *)
LEMMA SameMarked ==
  ASSUME TypeOK, NEW c \in Clients, Marked(c), journal' = journal,
         wire'[c].announced = wire[c].announced,
         wire'[c].omitted = wire[c].omitted,
         task'[c].lastSent = task[c].lastSent,
         task'[c].highWater = task[c].highWater,
         \/ task'[c].pc = "done"
         \/ task'[c].pc \in {"buffered", "live", "buffered_deliver", "live_deliver",
                             "reregister", "final"} /\ task[c].pc # "done"
         \/ task'[c].pc \in StorePcs /\ task[c].pc \in StorePcs
         \/ /\ task'[c].pc \in {"final_replay", "final_page"}
            /\ task[c].pc \in {"final_replay", "final_page"}
  PROVE  Marked(c)'
  BY DEF Marked, StorePcs

(* The replay task keeps Marked, *)
LEMMA MarkedTaskStep ==
  ASSUME TypeOK, HeadInv, NEW c \in Clients, CursorInv(c), Marked(c), TaskStep(c)
  PROVE  Marked(c)'
<1>1. /\ task[c] \in TaskType /\ wire[c] \in WireType
      /\ journal' = journal
  BY TaskFrame DEF TypeOK
<1>2. /\ task[c].lastSent \in Nat /\ task[c].highWater \in Nat
      /\ task[c].pending \in Nat /\ task[c].pageEnd \in Nat
      /\ wire[c].announced \in Nat /\ wire[c].omitted \in Nat
      /\ head \in Nat /\ Len(journal) \in Nat /\ head <= Len(journal)
  BY CursorTypes, MarkTypes DEF HeadInv
<1>3. CASE ReplaySkip(c) \/ ReplayEvent(c)
  <2>1. task[c].pc \in {"page", "final_page"} /\ AdvanceInPage(c)
    BY <1>3 DEF ReplaySkip, ReplayEvent
  <2>2. /\ task'[c].lastSent = task[c].lastSent + 1
        /\ task'[c].highWater = task[c].highWater
        /\ task'[c].pc \in {"page", "replay", "final_page", "final_replay"}
    BY <1>1, <2>1 DEF AdvanceInPage, TypeOK, TaskType
  <2>3. /\ wire'[c].announced = wire[c].announced
        /\ wire'[c].omitted \in {wire[c].omitted, task[c].lastSent + 1}
    BY <1>1, <1>3 DEF ReplaySkip, ReplayEvent, TypeOK, WireType
  <2>4. task[c].lastSent + 1 <= Len(journal)
    <3>1. /\ task[c].lastSent < task[c].pageEnd
          /\ task[c].pageEnd <= task[c].highWater
          /\ task[c].highWater <= head \/ task[c].highWater <= Len(journal)
      BY <2>1 DEF CursorInv, StorePcs
    <3> QED
      BY <1>2, <3>1
  <2> QED
    BY <1>1, <1>2, <2>1, <2>2, <2>3, <2>4 DEF Marked, StorePcs
<1>4. CASE ReplayCaughtUp(c)
  <2>1. /\ task[c].pc = "replay" /\ task[c].lastSent >= task[c].highWater
        /\ task'[c].pc = "buffered" /\ task'[c].lastSent = task[c].lastSent
        /\ wire'[c].announced = task[c].highWater
        /\ wire'[c].omitted = wire[c].omitted
    BY <1>1, <1>4 DEF ReplayCaughtUp, Announce, Offering, TypeOK, TaskType,
       WireType
  <2> QED
    BY <1>1, <1>2, <2>1 DEF Marked, StorePcs
<1>5. CASE ChannelEvent(c)
  <2>1. /\ task[c].pc \in {"buffered_deliver", "live_deliver"}
        /\ task'[c].pc \in {"buffered", "live"}
        /\ task'[c].lastSent = task[c].pending
    BY <1>1, <1>5 DEF ChannelEvent, TypeOK, TaskType
  <2>2. /\ wire'[c].announced = wire[c].announced
        /\ wire'[c].omitted = wire[c].omitted
    BY <1>1, <1>5 DEF ChannelEvent, TypeOK, WireType
  <2>3. task[c].pending = task[c].lastSent + 1
    BY <2>1 DEF CursorInv, DeliverPcs
  <2> QED
    BY <1>1, <1>2, <2>1, <2>2, <2>3 DEF Marked, StorePcs
<1>6. CASE Reregister(c)
  <2>1. /\ task[c].pc = "reregister" /\ task'[c].pc = "replay"
        /\ task'[c].highWater = head /\ task'[c].lastSent = task[c].lastSent
        /\ wire' = wire
    BY <1>1, <1>6 DEF Reregister, TypeOK, TaskType
  <2>2. task[c].lastSent < head
    BY <2>1 DEF CursorInv
  <2> QED
    BY <1>1, <1>2, <2>1, <2>2 DEF Marked, StorePcs
<1>7. CASE FinalHead(c)
  <2>1. task[c].pc = "final" /\ wire' = wire
    BY <1>7 DEF FinalHead
  <2>2. CASE Len(journal) <= task[c].lastSent
    <3>1. task'[c].pc = "done" /\ task'[c].lastSent = task[c].lastSent
      BY <1>1, <1>7, <2>2 DEF FinalHead, FinishFinal, Finish, TypeOK, TaskType
    <3> QED
      BY <1>1, <2>1, <3>1 DEF Marked, StorePcs
  <2>3. CASE ~(Len(journal) <= task[c].lastSent)
    <3>1. /\ task'[c].pc = "final_replay" /\ task'[c].highWater = Len(journal)
          /\ task'[c].lastSent = task[c].lastSent
      BY <1>1, <1>7, <2>3 DEF FinalHead, TypeOK, TaskType
    <3> QED
      BY <1>1, <1>2, <2>1, <2>3, <3>1 DEF Marked, StorePcs
  <2> QED
    BY <2>2, <2>3
<1>8. CASE FinalCaughtUp(c)
  <2>1. task'[c].pc = "done" /\ wire'[c].omitted = wire[c].omitted
    BY <1>1, <1>8 DEF FinalCaughtUp, Announce, FinishFinal, Finish, TypeOK,
       TaskType, WireType
  <2> QED
    BY <1>1, <2>1 DEF Marked, StorePcs
<1>9. CASE StageRefused(c) \/ AttachFailed(c) \/ ReplayReadFailed(c)
           \/ FinalSuffixFailed(c) \/ Cancelled(c)
  <2>1. task'[c].pc = "done"
    BY <1>1, <1>9 DEF StageRefused, AttachFailed, ReplayReadFailed,
       FinalSuffixFailed, Cancelled, Finish, TypeOK, TaskType
  <2>2. wire'[c].omitted = wire[c].omitted
    BY <1>1, <1>9 DEF StageRefused, AttachFailed, ReplayReadFailed,
       FinalSuffixFailed, Cancelled, FatalToConnection, TypeOK, WireType
  <2> QED
    BY <1>1, <2>1, <2>2 DEF Marked, StorePcs
<1>10. CASE Stuck(c) \/ Refused(c)
  <2>1. LagAndDetach(c, 0) \/ LagAndDetach(c, 1)
    BY <1>10 DEF Stuck, Refused
  <2>2. task'[c].pc = "done" /\ wire'[c].omitted = wire[c].omitted
    BY <1>1, <2>1 DEF LagAndDetach, Finish, TypeOK, TaskType, WireType
  <2> QED
    BY <1>1, <2>2 DEF Marked, StorePcs
<1> USE DEF StorePcs
<1>11. CASE InsertOwner(c)
  <2>1. /\ task[c].pc = "registered" /\ task'[c].pc = "owned"
        /\ task'[c].lastSent = task[c].lastSent
        /\ task'[c].highWater = task[c].highWater /\ wire' = wire
    BY <1>1, <1>11 DEF InsertOwner, TypeOK, TaskType
  <2> QED
    BY <1>1, <2>1, SameMarked
<1>12. CASE StageAndSpawn(c)
  <2>1. /\ task[c].pc = "owned" /\ task'[c].pc \in {"replay", "done"}
        /\ task'[c].lastSent = task[c].lastSent
        /\ task'[c].highWater = task[c].highWater
    BY <1>1, <1>12 DEF StageAndSpawn, Finish, TypeOK, TaskType
  <2>2. /\ wire'[c].announced = wire[c].announced
        /\ wire'[c].omitted = wire[c].omitted
    BY <1>1, <1>12 DEF StageAndSpawn, TypeOK, WireType
  <2> QED
    BY <1>1, <2>1, <2>2, SameMarked
<1>13. CASE Busy(c)
  <2>1. /\ task[c].pc \in {"page", "buffered_deliver", "live_deliver",
                           "final_page", "replay", "final_replay"}
        /\ task'[c].pc = task[c].pc
        /\ task'[c].lastSent = task[c].lastSent
        /\ task'[c].highWater = task[c].highWater /\ wire' = wire
    BY <1>1, <1>13 DEF Busy, Offering, TypeOK, TaskType
  <2> QED
    BY <1>1, <2>1, SameMarked
<1>14. CASE ReadPage(c)
  <2>1. /\ task[c].pc \in {"replay", "final_replay"}
        /\ task'[c].pc = IF task[c].pc = "replay" THEN "page" ELSE "final_page"
        /\ task'[c].lastSent = task[c].lastSent
        /\ task'[c].highWater = task[c].highWater /\ wire' = wire
    BY <1>1, <1>14 DEF ReadPage, ReplayBehind, TypeOK, TaskType
  <2> QED
    BY <1>1, <2>1, SameMarked
<1>15. CASE ReplayLagged(c) \/ LiveLagged(c) \/ ReregisterRefused(c)
  <2>1. /\ task[c].pc # "done" /\ task'[c].pc \in {"reregister", "final"}
        /\ task'[c].lastSent = task[c].lastSent
        /\ task'[c].highWater = task[c].highWater /\ wire' = wire
    BY <1>1, <1>15 DEF ReplayLagged, LiveLagged, ReregisterRefused, TypeOK,
       TaskType
  <2> QED
    BY <1>1, <2>1, SameMarked
<1>16. CASE Receive(c)
  <2>1. /\ task[c].pc \in {"buffered", "live"}
        /\ task'[c].pc \in {"buffered", "live", "buffered_deliver", "live_deliver"}
        /\ task'[c].lastSent = task[c].lastSent
        /\ task'[c].highWater = task[c].highWater /\ wire' = wire
    BY <1>1, <1>16 DEF Receive, TypeOK, TaskType
  <2> QED
    BY <1>1, <2>1, SameMarked
<1>17. CASE GoLive(c)
  <2>1. task[c].pc = "buffered"
    BY <1>17 DEF GoLive
  <2>2. ~(task[c].highWater > task[c].lastSent)
    BY <1>2, <2>1 DEF CursorInv, ChannelPcs
  <2>3. /\ task'[c].pc = "live" /\ task'[c].lastSent = task[c].lastSent
        /\ task'[c].highWater = task[c].highWater /\ wire' = wire
    BY <1>1, <1>17, <2>2 DEF GoLive, TypeOK, TaskType
  <2> QED
    BY <1>1, <2>1, <2>3, SameMarked
<1>18. CASE ChannelClosed(c)
  <2>1. /\ task[c].pc \in {"buffered", "live"}
        /\ task'[c].pc \in {"final", "done"}
        /\ task'[c].lastSent = task[c].lastSent
        /\ task'[c].highWater = task[c].highWater /\ wire' = wire
    BY <1>1, <1>18 DEF ChannelClosed, Drained, Finish, TypeOK, TaskType
  <2> QED
    BY <1>1, <2>1, SameMarked
<1> QED
  BY <1>3, <1>4, <1>5, <1>6, <1>7, <1>8, <1>9, <1>10, <1>11, <1>12, <1>13,
     <1>14, <1>15, <1>16, <1>17, <1>18
  DEF TaskStep

(* as does the client, *)
LEMMA MarkedClientStep ==
  ASSUME TypeOK, HeadInv, NEW c \in Clients, Marked(c), ClientStep(c)
  PROVE  Marked(c)'
<1>1. journal' = journal /\ wire[c] \in WireType
  BY ClientFrame DEF TypeOK
<1>2. CASE \E after \in 0..head, sealed \in BOOLEAN : Register(c, after, sealed)
  <2>1. PICK after \in 0..head, sealed \in BOOLEAN : Register(c, after, sealed)
    BY <1>2
  <2>2. /\ task'[c].pc = "registered" /\ task'[c].lastSent = after
        /\ task'[c].highWater = head
    BY <2>1 DEF Register, NoTask, TypeOK
  <2>3. wire'[c].announced = 0 /\ wire'[c].omitted = 0
    BY <2>1 DEF Register, NoWire, TypeOK
  <2>4. head = Len(journal) /\ journal # << >>
    BY <2>1 DEF Register, HeadInv
  <2>5. Len(journal) \in Nat /\ Len(journal) # 0
    BY <2>4 DEF TypeOK
  <2> QED
    BY <1>1, <2>2, <2>3, <2>4, <2>5 DEF Marked, StorePcs
<1>3. CASE Deliver(c) \/ Disconnect(c) \/ ClientDetach(c)
  <2>1. /\ UNCHANGED task /\ wire'[c].announced = wire[c].announced
        /\ wire'[c].omitted = wire[c].omitted
    BY <1>1, <1>3 DEF Deliver, Disconnect, ClientDetach, TypeOK, WireType
  <2> QED
    BY <1>1, <2>1 DEF Marked
<1>4. CASE Reconnect(c) \/ CloseConnection(c)
  <2>1. UNCHANGED <<task, wire>>
    BY <1>4 DEF Reconnect, CloseConnection
  <2> QED
    BY <1>1, <2>1 DEF Marked
<1> QED
  BY <1>2, <1>3, <1>4 DEF ClientStep

(* hence every step. *)
LEMMA MarkStep ==
  ASSUME TypeOK, HeadInv, StreamInv, MarkInv, [Next]_vars
  PROVE  MarkInv'
<1>1. CASE UNCHANGED vars
  BY <1>1 DEF vars, actorVars, MarkInv, Marked
<1>2. ASSUME NEW c \in Clients, TaskStep(c) \/ ClientStep(c)
      PROVE  MarkInv'
  <2>1. Marked(c)'
    BY <1>2, MarkedTaskStep, MarkedClientStep DEF StreamInv, MarkInv
  <2>2. journal' = journal /\ \A d \in Clients \ {c} : SameClient(d)
    BY <1>2, TaskFrame, ClientFrame
  <2>3. \A d \in Clients \ {c} : Marked(d)'
    BY <2>2 DEF SameClient, MarkInv, Marked
  <2> QED
    BY <2>1, <2>3 DEF MarkInv
<1>3. ASSUME NEW n \in 1..MaxBatch, NEW kinds \in [1..n -> Kinds],
             NEW w \in Weights, CommitBatch(kinds, w)
      PROVE  MarkInv'
  <2>1. kinds \in Seq(Kinds) /\ journal \in Seq(Kinds)
    BY PipeAssumption DEF TypeOK
  <2>2. journal' = journal \o kinds /\ UNCHANGED <<task, wire>>
    BY <1>3 DEF CommitBatch
  <2>3. /\ Len(kinds) \in Nat /\ Len(journal) \in Nat
        /\ Len(journal') = Len(journal) + Len(kinds)
    BY <2>1, <2>2
  <2>4. \A c \in Clients : wire[c].omitted \in Nat
    BY MarkTypes
  <2> QED
    BY <2>2, <2>3, <2>4 DEF MarkInv, Marked
<1>4. CASE Publish \/ (\E c \in Clients : ActorDetach(c))
           \/ BeginDraining \/ StopActor \/ JoinReplays
  <2>1. UNCHANGED <<journal, task, wire>>
    BY <1>4 DEF Publish, ActorDetach, BeginDraining, StopActor, JoinReplays,
       actorVars
  <2> QED
    BY <2>1 DEF MarkInv, Marked
<1>5. CASE ForceStop
  <2>1. /\ UNCHANGED <<journal, wire>>
        /\ \A c \in Clients : task'[c].pc = "done"
    BY <1>5 DEF ForceStop, TypeOK, TaskType
  <2> QED
    BY <2>1 DEF MarkInv, Marked, StorePcs
<1>6. CASE Restart
  <2>1. /\ journal' = journal
        /\ \A c \in Clients : task'[c].pc = "done"
                              /\ wire'[c].omitted = wire[c].omitted
    BY <1>6 DEF Restart, NoTask, TypeOK, WireType
  <2> QED
    BY <2>1 DEF MarkInv, Marked, StorePcs
<1> QED
  BY <1>1, <1>2, <1>3, <1>4, <1>5, <1>6 DEF Next, HubStep, ActorStep

(* The marks, the cursors and the channels agree throughout. *)
LEMMA MarkInvariant == 
    Spec => [](TypeOK /\ HeadInv /\ MapInv /\ StreamInv /\ MarkInv)
<1>1. ASSUME Init PROVE MarkInv
  <2>1. \A c \in Clients : task[c].pc = "done" /\ wire[c].omitted = 0
    BY <1>1 DEF Init, NoTask, NoWire
  <2>2. Len(journal) \in Nat
    BY <1>1, TypeInit DEF TypeOK
  <2>3. 0 <= Len(journal)
    BY <2>2
  <2> QED
    BY <2>1, <2>3 DEF MarkInv, Marked, StorePcs
<1>2. TypeOK /\ HeadInv /\ StreamInv /\ MarkInv /\ [Next]_vars => MarkInv'
  BY MarkStep
<1> QED
  BY <1>1, <1>2, StreamInvariant, PTL DEF Spec

(* The marker the lane gets in a step of one client is a new one only in   *)
(* the two announcing actions, and then it is the task's high water mark.  *)
LEMMA OnlyAnnounce ==
  ASSUME TypeOK, TypeOK', NEW c \in Clients, [Next]_vars,
         wire'[c].lane = Append(wire[c].lane, CaughtUp(wire'[c].announced))
  PROVE  ReplayCaughtUp(c) \/ FinalCaughtUp(c)
<1> DEFINE lane == wire[c].lane
           mark == CaughtUp(wire'[c].announced)
           n == Len(lane)
<1>1. lane \in Seq(Frames) /\ n \in Nat /\ wire[c] \in WireType
  BY MarkTypes
<1>2. /\ Len(wire'[c].lane) = n + 1 /\ wire'[c].lane[n + 1] = mark
      /\ mark.kind = "caught_up"
  <2>1. mark.kind = "caught_up"
    BY DEF CaughtUp
  <2> HIDE DEF mark
  <2>2. Len(Append(lane, mark)) = n + 1 /\ Append(lane, mark)[n + 1] = mark
    BY <1>1
  <2> QED
    BY <2>1, <2>2 DEF mark
<1> HIDE DEF mark, n, lane
<1>3. wire'[c].lane # lane
  BY <1>1, <1>2 DEF n
<1>4. wire'[c].lane # << >>
  BY <1>1, <1>2
<1>5. ASSUME NEW f \in Frames, f.kind # "caught_up"
      PROVE  wire'[c].lane # <<f>> /\ wire'[c].lane # Append(lane, f)
  <2>1. ASSUME wire'[c].lane = <<f>>
        PROVE  FALSE
    <3>1. Len(<<f>>) = 1 /\ <<f>>[1] = f
      OBVIOUS
    <3>2. n + 1 = 1
      BY <1>2, <2>1, <3>1
    <3> QED
      BY <1>2, <1>5, <2>1, <3>1, <3>2
  <2>2. ASSUME wire'[c].lane = Append(lane, f)
        PROVE  FALSE
    <3>1. Append(lane, f)[n + 1] = f
      BY <1>1 DEF n
    <3> QED
      BY <1>2, <1>5, <2>2, <3>1
  <2> QED
    BY <2>1, <2>2
<1>6. UNCHANGED wire => FALSE
  BY <1>3 DEF lane
<1>7. SUFFICES ASSUME ~ReplayCaughtUp(c), ~FinalCaughtUp(c)
               PROVE  FALSE
  OBVIOUS
<1>8. CASE UNCHANGED vars \/ ActorStep \/ BeginDraining \/ StopActor
           \/ JoinReplays \/ ForceStop
  BY <1>6, <1>8 DEF vars, ActorStep, CommitBatch, Publish, ActorDetach,
     BeginDraining, StopActor, JoinReplays, ForceStop
<1>9. CASE Restart
  BY <1>4, <1>9 DEF Restart, TypeOK, WireType
<1>10. ASSUME NEW d \in Clients, TaskStep(d) \/ ClientStep(d)
       PROVE  FALSE
  <2>1. d = c
    <3>1. d # c => SameClient(c)
      BY <1>10, TaskFrame, ClientFrame
    <3> QED
      BY <1>3, <3>1 DEF SameClient, lane
  <2>4. /\ task[c].lastSent \in Nat /\ task[c].lastSent + 1 \in Nat
        /\ task[c].highWater \in Nat /\ task[c].pending \in Nat
    BY CursorTypes
  <2>2. CASE ClientStep(c)
    <3>1. CASE \E after \in 0..head, sealed \in BOOLEAN :
                 Register(c, after, sealed)
      BY <1>4, <3>1 DEF Register, NoWire, TypeOK
    <3>2. CASE Deliver(c)
      <4>1. wire'[c].lane = Tail(lane) /\ lane # << >>
        BY <1>1, <3>2 DEF Deliver, TypeOK, WireType, lane
      <4>2. Len(Tail(lane)) = n - 1
        BY <1>1, <4>1 DEF n
      <4> QED
        BY <1>1, <1>2, <4>1, <4>2
    <3>3. CASE ClientDetach(c) \/ Disconnect(c)
      BY <1>1, <1>4, <3>3 DEF ClientDetach, Disconnect, TypeOK, WireType
    <3>4. CASE CloseConnection(c) \/ Reconnect(c)
      BY <1>6, <3>4 DEF CloseConnection, Reconnect
    <3> QED
      BY <2>2, <3>1, <3>2, <3>3, <3>4 DEF ClientStep
  <2>3. CASE TaskStep(c)
    <3>1. CASE StageAndSpawn(c)
      <4>1. wire'[c].lane = <<Response(task[c].highWater)>>
        BY <1>1, <3>1 DEF StageAndSpawn, TypeOK, WireType
      <4> QED
        BY <1>5, <4>1, <2>4, FrameTypes DEF Response
    <3>2. CASE StageRefused(c) \/ AttachFailed(c)
      BY <1>1, <1>4, <3>2 DEF StageRefused, AttachFailed, FatalToConnection,
         TypeOK, WireType
    <3>3. CASE Stuck(c) \/ Refused(c)
      <4>1. LagAndDetach(c, 0) \/ LagAndDetach(c, 1)
        BY <3>3 DEF Stuck, Refused
      <4>2. \/ wire'[c].lane = << >>
            \/ wire'[c].lane = <<Overloaded>>
            \/ wire'[c].lane = <<Lagged(task[c].lastSent)>>
        <5>1. PICK f \in {Overloaded, Lagged(task[c].lastSent)} :
                \/ wire' = [wire EXCEPT ![c].lane = << >>]
                \/ wire' = [wire EXCEPT ![c].lane = <<f>>]
          BY <4>1 DEF LagAndDetach
        <5>2. wire'[c].lane = << >> \/ wire'[c].lane = <<f>>
          BY <1>1, <5>1 DEF TypeOK, WireType
        <5> QED
          BY <5>2
      <4> QED
        <5>1. Overloaded.kind # "caught_up"
              /\ Lagged(task[c].lastSent).kind # "caught_up"
          BY DEF Overloaded, Lagged
        <5>2. Overloaded \in Frames /\ Lagged(task[c].lastSent) \in Frames
          BY <2>4, FrameTypes
        <5> QED
          BY <1>4, <1>5, <4>2, <5>1, <5>2
    <3>4. CASE ReplaySkip(c)
      BY <1>1, <1>3, <3>4 DEF ReplaySkip, TypeOK, WireType, lane
    <3>5. CASE ReplayEvent(c) \/ ChannelEvent(c)
      <4>1. \/ wire'[c].lane = Append(lane, Event(task[c].lastSent + 1))
            \/ wire'[c].lane = Append(lane, Event(task[c].pending))
        <5>1. PICK s \in {task[c].lastSent + 1, task[c].pending} :
                wire' = [wire EXCEPT ![c].lane = Append(@, Event(s))]
          BY <3>5 DEF ReplayEvent, ChannelEvent
        <5>2. wire'[c].lane = Append(lane, Event(s))
          BY <1>1, <5>1 DEF TypeOK, WireType, lane
        <5> QED
          BY <5>2
      <4> QED
        <5>1. /\ Event(task[c].lastSent + 1).kind # "caught_up"
              /\ Event(task[c].pending).kind # "caught_up"
          BY DEF Event
        <5>2. /\ Event(task[c].lastSent + 1) \in Frames
              /\ Event(task[c].pending) \in Frames
          BY <2>4, FrameTypes
        <5> QED
          BY <1>5, <4>1, <5>1, <5>2
    <3>6. CASE InsertOwner(c) \/ Busy(c) \/ ReadPage(c) \/ ReplayLagged(c)
               \/ ReplayReadFailed(c) \/ Receive(c) \/ GoLive(c)
               \/ LiveLagged(c) \/ ChannelClosed(c) \/ Reregister(c)
               \/ ReregisterRefused(c) \/ FinalHead(c) \/ FinalSuffixFailed(c)
               \/ Cancelled(c)
      BY <1>6, <3>6 DEF InsertOwner, Busy, ReadPage, ReplayLagged,
         ReplayReadFailed, Receive, GoLive, LiveLagged, ChannelClosed,
         Reregister, ReregisterRefused, FinalHead, FinalSuffixFailed, Cancelled
    <3> QED
      BY <1>7, <2>3, <3>1, <3>2, <3>3, <3>4, <3>5, <3>6 DEF TaskStep
  <2> QED
    BY <1>10, <2>1, <2>2, <2>3
<1> QED
  BY <1>8, <1>9, <1>10 DEF Next, HubStep

(* The high water marks a client is told on one attachment strictly        *)
(* increase: run_replay never announces the same or an older mark again.   *)
THEOREM MarksIncrease == Spec => CaughtUpIncreases
<1>1. ASSUME TypeOK, TypeOK', MarkInv, [Next]_vars, NEW c \in Clients,
             wire'[c].lane = Append(wire[c].lane, CaughtUp(wire'[c].announced))
      PROVE  wire'[c].announced > wire[c].announced
  <2>1. ReplayCaughtUp(c) \/ FinalCaughtUp(c)
    BY <1>1, OnlyAnnounce
  <2>2. /\ wire[c] \in WireType
        /\ wire[c].announced \in Nat /\ task[c].highWater \in Nat
    BY <1>1, MarkTypes, CursorTypes
  <2>3. /\ task[c].pc \in {"replay", "final_replay"}
        /\ wire'[c].announced = task[c].highWater
    <3>1. Announce(c) /\ task[c].pc \in {"replay", "final_replay"}
      BY <2>1 DEF ReplayCaughtUp, FinalCaughtUp
    <3>2. wire \in [Clients -> WireType]
      BY <1>1 DEF TypeOK
    <3> QED
      BY <2>2, <3>1, <3>2 DEF Announce, WireType
  <2>4. wire[c].announced < task[c].highWater
    BY <1>1, <2>3 DEF MarkInv, Marked, StorePcs
  <2> QED
    BY <2>2, <2>3, <2>4
<1>2. TypeOK /\ TypeOK' /\ MarkInv /\ [Next]_vars =>
        [\A c \in Clients :
           wire'[c].lane = Append(wire[c].lane, CaughtUp(wire'[c].announced))
             => wire'[c].announced > wire[c].announced]_vars
  BY <1>1
<1> QED
  BY <1>2, MarkInvariant, PTL DEF Spec, CaughtUpIncreases

-----------------------------------------------------------------------------
(***************************************************************************)
(* The last layer of the inductive invariant: the outbox lane of every     *)
(* attachment, as a sequence of frames between the replay task's cursor    *)
(* and what the client has received.                                       *)
(***************************************************************************)

IsEvent(f) == f.kind = "event"

(* Of a lane q: its events are in order and past what the client received; *)
(* none is past the cursor; what the client lacks up to some envelope is   *)
(* among its first k frames or in the set om of omissions; and that is so  *)
(* of every marker, for the frames ahead of it.                            *)
Ordered(q, seen) ==
    \A i \in 1..Len(q) : IsEvent(q[i]) =>
      /\ seen < q[i].seq
      /\ \A j \in 1..Len(q) : IsEvent(q[j]) /\ i < j => q[i].seq < q[j].seq

Bounded(q, seen, last) ==
    /\ seen <= last
    /\ \A i \in 1..Len(q) : IsEvent(q[i]) => q[i].seq <= last

Has(q, s, k) == \E i \in 1..k : q[i] = Event(s)

Covers(q, k, seen, to, om) ==
    \A s \in (seen + 1)..to : Has(q, s, k) \/ s \in om

Markers(q, seen, om) ==
    \A i \in 1..Len(q) :
      q[i].kind = "caught_up" => Covers(q, i - 1, seen, q[i].seq, om)

Sound(q, seen, om) == Ordered(q, seen) /\ Markers(q, seen, om)

Whole(q, seen, last, om) ==
    Bounded(q, seen, last) /\ Covers(q, Len(q), seen, last, om)

Omissions(c) == {s \in Nat \ {0} : Omitted(c, s)}

LaneSound(c) ==
    /\ Sound(wire[c].lane, wire[c].seen, Omissions(c))
    /\ Streaming(c) =>
          Whole(wire[c].lane, wire[c].seen, task[c].lastSent, Omissions(c))

LaneUnused(c) ==
    task[c].pc \in {"registered", "owned"} =>
      wire[c].seen = task[c].lastSent /\ wire[c].lane = <<>>

LaneInv == \A c \in Clients : LaneUnused(c) /\ LaneSound(c)

-----------------------------------------------------------------------------
(* The lane: what one change does to its order and its coverage. *)

(* More omissions cover no less.                                           *)
LEMMA MoreOmissions ==
  ASSUME NEW q, NEW seen, NEW om, NEW om2, om \subseteq om2
  PROVE  /\ Sound(q, seen, om) => Sound(q, seen, om2)
         /\ \A last : Whole(q, seen, last, om) => Whole(q, seen, last, om2)
  BY DEF Sound, Whole, Markers, Covers

(* A lane with neither events nor markers.                                 *)
LEMMA PlainLane ==
  ASSUME NEW q, NEW seen \in Nat, NEW om,
         \A i \in 1..Len(q) : q[i].kind \notin {"event", "caught_up"}
  PROVE  Sound(q, seen, om) /\ Whole(q, seen, seen, om)
<1>1. (seen + 1)..seen = {}
  OBVIOUS
<1> QED
  BY <1>1 DEF Sound, Whole, Ordered, Markers, Bounded, Covers, IsEvent

(* A lane with at most a response or a Lagged in it is sound. *)
LEMMA ShortLane ==
  ASSUME NEW q, NEW seen \in Nat, NEW om, NEW f,
         f.kind \notin {"event", "caught_up"}, q = << >> \/ q = <<f>>
  PROVE  Sound(q, seen, om) /\ Whole(q, seen, seen, om)
<1>1. \A i \in 1..Len(q) : q[i].kind \notin {"event", "caught_up"}
  <2>1. CASE q = << >>
    <3>1. Len(<< >>) = 0 /\ 1..0 = {}
      OBVIOUS
    <3> QED
      BY <2>1, <3>1, Zenon
  <2>2. CASE q = <<f>>
    <3>1. Len(<<f>>) = 1 /\ <<f>>[1] = f /\ 1..1 = {1}
      OBVIOUS
    <3> QED
      BY <2>2, <3>1, Zenon
  <2> QED
    BY <2>1, <2>2
<1> QED
  BY <1>1, PlainLane

(* The next event joins a lane that covers everything before it.           *)
LEMMA EventJoins ==
  ASSUME NEW q, NEW r, NEW n \in Nat, NEW seen \in Nat, NEW last \in Nat, NEW om,
         Len(q) = n, Len(r) = n + 1, \A i \in 1..n : r[i] = q[i],
         \A i \in 1..n : q[i].seq \in Nat,
         r[n + 1] = Event(last + 1),
         Sound(q, seen, om), Whole(q, seen, last, om)
  PROVE  Sound(r, seen, om) /\ Whole(r, seen, last + 1, om)
<1>1. r[n + 1].kind = "event" /\ r[n + 1].seq = last + 1
  BY DEF Event
<1>2. \A i \in 1..(n + 1) : i \in 1..n \/ i = n + 1
  OBVIOUS
<1>3. Bounded(r, seen, last + 1)
  BY <1>1, <1>2 DEF Whole, Bounded
<1>4. Ordered(r, seen)
  <2>1. \A i \in 1..n : IsEvent(q[i]) => seen < q[i].seq /\ q[i].seq < last + 1
    BY DEF Whole, Bounded, Sound, Ordered
  <2>2. seen < last + 1
    BY DEF Whole, Bounded
  <2>3. \A i, j \in 1..n : IsEvent(q[i]) /\ IsEvent(q[j]) /\ i < j =>
           q[i].seq < q[j].seq
    BY DEF Sound, Ordered
  <2> QED
    BY <1>1, <1>2, <2>1, <2>2, <2>3 DEF Ordered
<1>5. \A k \in 0..n : \A s : Has(q, s, k) => Has(r, s, k)
  BY DEF Has
<1>6. \A s : Has(r, s, n) => Has(r, s, n + 1)
  BY DEF Has
<1>7. Has(r, last + 1, n + 1)
  BY DEF Has
<1>8. Covers(r, n + 1, seen, last + 1, om)
  <2>1. SUFFICES ASSUME NEW s \in (seen + 1)..(last + 1)
                 PROVE  Has(r, s, n + 1) \/ s \in om
    BY DEF Covers
  <2>2. s = last + 1 \/ s \in (seen + 1)..last
    OBVIOUS
  <2>3. s \in (seen + 1)..last => Has(q, s, n) \/ s \in om
    BY DEF Whole, Covers
  <2>4. n \in 0..n
    OBVIOUS
  <2> QED
    BY <1>5, <1>6, <1>7, <2>2, <2>3, <2>4
<1>9. Markers(r, seen, om)
  <2>1. SUFFICES ASSUME NEW i \in 1..n, q[i].kind = "caught_up"
                 PROVE  Covers(r, i - 1, seen, q[i].seq, om)
    BY <1>1, <1>2 DEF Markers
  <2>2. Covers(q, i - 1, seen, q[i].seq, om)
    BY <2>1 DEF Sound, Markers
  <2>3. i - 1 \in 0..n
    OBVIOUS
  <2> QED
    BY <1>5, <2>2, <2>3 DEF Covers
<1> QED
  BY <1>3, <1>4, <1>8, <1>9 DEF Sound, Whole

(* A marker joins a lane that covers what it announces.                    *)
LEMMA MarkJoins ==
  ASSUME NEW q, NEW r, NEW n \in Nat, NEW seen \in Nat, NEW last \in Nat, NEW om,
         NEW high \in Nat, high <= last,
         Len(q) = n, Len(r) = n + 1, \A i \in 1..n : r[i] = q[i],
         r[n + 1] = CaughtUp(high),
         Sound(q, seen, om), Whole(q, seen, last, om)
  PROVE  Sound(r, seen, om) /\ Whole(r, seen, last, om)
<1>1. r[n + 1].kind = "caught_up" /\ r[n + 1].seq = high /\ ~IsEvent(r[n + 1])
  BY DEF CaughtUp, IsEvent
<1>2. \A i \in 1..(n + 1) : i \in 1..n \/ i = n + 1
  OBVIOUS
<1>3. Bounded(r, seen, last)
  BY <1>1, <1>2 DEF Whole, Bounded
<1>4. Ordered(r, seen)
  BY <1>1, <1>2 DEF Sound, Ordered
<1>5. \A k \in 0..n : \A s : Has(q, s, k) => Has(r, s, k)
  BY DEF Has
<1>6. \A s : Has(r, s, n) => Has(r, s, n + 1)
  BY DEF Has
<1>7. Covers(r, n, seen, last, om)
  <2>1. n \in 0..n
    OBVIOUS
  <2> QED
    BY <1>5, <2>1 DEF Whole, Covers
<1>8. Markers(r, seen, om)
  <2>1. ASSUME NEW i \in 1..n, q[i].kind = "caught_up"
        PROVE  Covers(r, i - 1, seen, q[i].seq, om)
    <3>1. Covers(q, i - 1, seen, q[i].seq, om)
      BY <2>1 DEF Sound, Markers
    <3>2. i - 1 \in 0..n
      OBVIOUS
    <3> QED
      BY <1>5, <3>1, <3>2 DEF Covers
  <2>2. Covers(r, (n + 1) - 1, seen, high, om)
    <3>1. (n + 1) - 1 = n /\ \A s \in (seen + 1)..high : s \in (seen + 1)..last
      OBVIOUS
    <3> QED
      BY <1>7, <3>1 DEF Covers
  <2> QED
    BY <1>1, <1>2, <2>1, <2>2 DEF Markers
<1> QED
  BY <1>3, <1>4, <1>6, <1>7, <1>8 DEF Sound, Whole, Covers

(* The oldest frame leaves the lane, and the client has seen it if it was  *)
(* an event.                                                               *)
LEMMA HeadLeaves ==
  ASSUME NEW q, NEW r, NEW n \in Nat, NEW seen \in Nat, NEW seen2 \in Nat, NEW om,
         Len(q) = n + 1, Len(r) = n, \A i \in 1..n : r[i] = q[i + 1],
         \A i \in 1..(n + 1) : q[i].seq \in Nat,
         IsEvent(q[1]) => seen2 = q[1].seq, ~IsEvent(q[1]) => seen2 = seen,
         Sound(q, seen, om)
  PROVE  /\ Sound(r, seen2, om)
         /\ \A last \in Nat : Whole(q, seen, last, om) => Whole(r, seen2, last, om)
<1>1. /\ 1 \in 1..(n + 1)
      /\ \A i \in 1..n : i + 1 \in 1..(n + 1) /\ 1 < i + 1
  OBVIOUS
<1>2. seen <= seen2
  BY <1>1 DEF Sound, Ordered
<1>3. \A i \in 1..n : IsEvent(r[i]) => seen2 < r[i].seq
  BY <1>1 DEF Sound, Ordered
<1>4. Ordered(r, seen2)
  <2>1. \A i, j \in 1..n : i < j => i + 1 < j + 1
    OBVIOUS
  <2> QED
    BY <1>1, <1>3, <2>1 DEF Sound, Ordered
<1>5. ASSUME NEW k \in 1..(n + 1), NEW to \in Nat, Covers(q, k, seen, to, om)
      PROVE  Covers(r, k - 1, seen2, to, om)
  <2>1. SUFFICES ASSUME NEW s \in (seen2 + 1)..to, s \notin om
                 PROVE  Has(r, s, k - 1)
    BY DEF Covers
  <2>2. s \in (seen + 1)..to /\ s > seen2
    BY <1>2
  <2>3. PICK i \in 1..k : q[i] = Event(s)
    BY <1>5, <2>1, <2>2 DEF Covers, Has
  <2>4. q[i].kind = "event" /\ q[i].seq = s
    BY <2>3 DEF Event
  <2>5. i # 1
    BY <2>2, <2>4 DEF IsEvent
  <2>6. i - 1 \in 1..(k - 1) /\ i - 1 \in 1..n /\ (i - 1) + 1 = i
    BY <2>5
  <2>7. r[i - 1] = q[i]
    BY <2>6
  <2> QED
    BY <2>3, <2>6, <2>7 DEF Has
<1>6. Markers(r, seen2, om)
  <2>1. SUFFICES ASSUME NEW i \in 1..n, r[i].kind = "caught_up"
                 PROVE  Covers(r, i - 1, seen2, r[i].seq, om)
    BY DEF Markers
  <2>2. Covers(q, (i + 1) - 1, seen, q[i + 1].seq, om)
    BY <1>1, <2>1 DEF Sound, Markers
  <2>3. (i + 1) - 1 = i /\ i \in 1..(n + 1) /\ q[i + 1].seq \in Nat
    BY <1>1
  <2> QED
    BY <1>5, <2>2, <2>3
<1>7. ASSUME NEW last \in Nat, Whole(q, seen, last, om)
      PROVE  Whole(r, seen2, last, om)
  <2>1. Bounded(r, seen2, last)
    BY <1>1, <1>2, <1>7 DEF Whole, Bounded
  <2>2. n + 1 \in 1..(n + 1) /\ (n + 1) - 1 = n
    OBVIOUS
  <2>3. Covers(q, n + 1, seen, last, om)
    BY <1>7 DEF Whole
  <2>4. Covers(r, (n + 1) - 1, seen2, last, om)
    BY <1>5, <2>2, <2>3
  <2> QED
    BY <2>1, <2>2, <2>4 DEF Whole
<1> QED
  BY <1>4, <1>6, <1>7 DEF Sound

-----------------------------------------------------------------------------
(* The lane: the steps. *)

(* The types of the frames of a lane. *)
LEMMA LaneTypes ==
  ASSUME TypeOK, NEW c \in Clients
  PROVE  \A i \in 1..Len(wire[c].lane) :
            wire[c].lane[i] \in Frames /\ wire[c].lane[i].seq \in Nat
<1>1. wire[c].lane \in Seq(Frames)
  BY MarkTypes
<1>2. \A i \in 1..Len(wire[c].lane) : wire[c].lane[i] \in Frames
  BY <1>1
<1> QED
  BY <1>2 DEF Frames

(* The positions of an appended lane. *)
LEMMA AppendShape ==
  ASSUME NEW q \in Seq(Frames), NEW f \in Frames
  PROVE  /\ Len(q) \in Nat /\ Len(Append(q, f)) = Len(q) + 1
         /\ \A i \in 1..Len(q) : Append(q, f)[i] = q[i]
         /\ Append(q, f)[Len(q) + 1] = f
  OBVIOUS

(* The lane and its history stay, and the cursor of a streaming task too.  *)
LEMMA SameLane ==
  ASSUME NEW c \in Clients, LaneSound(c), Omissions(c) \subseteq Omissions(c)',
         wire'[c].lane = wire[c].lane, wire'[c].seen = wire[c].seen,
         Streaming(c)' => Streaming(c) /\ task'[c].lastSent = task[c].lastSent
  PROVE  LaneSound(c)'
<1> DEFINE om == Omissions(c)
           om2 == Omissions(c)'
           q == wire[c].lane
           seen == wire[c].seen
<1>1. /\ Sound(q, seen, om)
      /\ Streaming(c) => Whole(q, seen, task[c].lastSent, om)
  BY DEF LaneSound
<1>2. om \subseteq om2
  OBVIOUS
<1> HIDE DEF om, om2
<1>3. /\ Sound(q, seen, om2)
      /\ Streaming(c) => Whole(q, seen, task[c].lastSent, om2)
  BY <1>1, <1>2, MoreOmissions
<1> QED
  BY <1>3 DEF LaneSound, om2

(* The lane is emptied, or left with one frame that is no event or marker. *)
LEMMA ResetLane ==
  ASSUME TypeOK', NEW c \in Clients, NEW f,
         f.kind \notin {"event", "caught_up"},
         wire'[c].lane = << >> \/ wire'[c].lane = <<f>>,
         Streaming(c)' => wire'[c].seen = task'[c].lastSent
  PROVE  LaneSound(c)'
<1> DEFINE om == Omissions(c)'
           q == wire'[c].lane
           seen == wire'[c].seen
<1>1. seen \in Nat
  BY DEF TypeOK, WireType
<1>2. q = << >> \/ q = <<f>>
  OBVIOUS
<1> HIDE DEF om, q, seen
<1>3. Sound(q, seen, om) /\ Whole(q, seen, seen, om)
  BY <1>1, <1>2, ShortLane
<1> QED
  BY <1>3 DEF LaneSound, om, q, seen

(* What a sealed replay omitted depends on the journal and the mark only. *)
LEMMA OmissionsKept ==
  ASSUME NEW c \in Clients, journal' = journal,
         wire'[c].omitted = wire[c].omitted
  PROVE  Omissions(c)' = Omissions(c)
  BY DEF Omissions, Omitted

(* The next envelope enters the lane of a streaming task.                  *)
LEMMA EventLane ==
  ASSUME TypeOK, NEW c \in Clients, LaneSound(c), Streaming(c),
         journal' = journal, wire'[c].omitted = wire[c].omitted,
         wire'[c].seen = wire[c].seen,
         wire'[c].lane = Append(wire[c].lane, Event(task[c].lastSent + 1)),
         task'[c].lastSent = task[c].lastSent + 1
  PROVE  LaneSound(c)'
<1> DEFINE om == Omissions(c)
           q == wire[c].lane
           last == task[c].lastSent
           seen == wire[c].seen
           f == Event(last + 1)
           r == Append(q, f)
<1>1. /\ seen \in Nat /\ q \in Seq(Frames) /\ last \in Nat /\ f \in Frames
      /\ \A i \in 1..Len(q) : q[i].seq \in Nat
  BY MarkTypes, CursorTypes, LaneTypes, FrameTypes
<1>2. Sound(q, seen, om) /\ Whole(q, seen, last, om)
  BY DEF LaneSound
<1>3. Omissions(c)' = om /\ wire'[c].lane = r
  BY OmissionsKept
<1> HIDE DEF om, q, last, seen, r, f
<1>4. /\ Len(q) \in Nat /\ Len(r) = Len(q) + 1
      /\ \A i \in 1..Len(q) : r[i] = q[i]
      /\ r[Len(q) + 1] = f
  BY <1>1, AppendShape DEF r
<1>5. Sound(r, seen, om) /\ Whole(r, seen, last + 1, om)
  BY <1>1, <1>2, <1>4, EventJoins DEF f
<1> QED
  BY <1>3, <1>5 DEF LaneSound, om, seen, last

(* AttachCaughtUp enters the lane of a streaming task that has sent        *)
(* everything up to it.                                                    *)
LEMMA MarkLane ==
  ASSUME TypeOK, NEW c \in Clients, LaneSound(c), Streaming(c),
         journal' = journal, wire'[c].omitted = wire[c].omitted,
         wire'[c].seen = wire[c].seen,
         wire'[c].lane = Append(wire[c].lane, CaughtUp(task[c].highWater)),
         task'[c].lastSent = task[c].lastSent,
         task[c].lastSent >= task[c].highWater
  PROVE  LaneSound(c)'
<1> DEFINE om == Omissions(c)
           q == wire[c].lane
           last == task[c].lastSent
           high == task[c].highWater
           seen == wire[c].seen
           f == CaughtUp(high)
           r == Append(q, f)
<1>1. /\ seen \in Nat /\ q \in Seq(Frames) /\ last \in Nat /\ f \in Frames
      /\ high \in Nat
  BY MarkTypes, CursorTypes, FrameTypes
<1>2. Sound(q, seen, om) /\ Whole(q, seen, last, om)
  BY DEF LaneSound
<1>3. Omissions(c)' = om /\ wire'[c].lane = r
  BY OmissionsKept
<1>4. high <= last
  BY <1>1
<1> HIDE DEF om, q, last, seen, r, f, high
<1>5. /\ Len(q) \in Nat /\ Len(r) = Len(q) + 1
      /\ \A i \in 1..Len(q) : r[i] = q[i]
      /\ r[Len(q) + 1] = f
  BY <1>1, AppendShape DEF r
<1>6. Sound(r, seen, om) /\ Whole(r, seen, last, om)
  BY <1>1, <1>2, <1>4, <1>5, MarkJoins DEF f
<1> QED
  BY <1>3, <1>6 DEF LaneSound, om, seen, last

(* Sealed replay moves the cursor over an item delta.                      *)
LEMMA SkipLane ==
  ASSUME TypeOK, NEW c \in Clients, Marked(c), LaneSound(c), Streaming(c),
         journal' = journal, wire'[c].omitted = task[c].lastSent + 1,
         wire'[c].lane = wire[c].lane, wire'[c].seen = wire[c].seen,
         task'[c].lastSent = task[c].lastSent + 1,
         journal[task[c].lastSent + 1] = "delta"
  PROVE  LaneSound(c)'
<1> DEFINE om == Omissions(c)
           om2 == Omissions(c)'
           q == wire[c].lane
           last == task[c].lastSent
           seen == wire[c].seen
<1>1. seen \in Nat /\ last \in Nat /\ wire[c].omitted \in Nat
      /\ \A i \in 1..Len(q) : q[i].seq \in Nat
  BY MarkTypes, CursorTypes, LaneTypes
<1>2. wire[c].omitted <= last
  BY PcLabels DEF Marked, Streaming, RunningPcs, StreamPcs, FinalPcs
<1>3. om \subseteq om2
  BY <1>1, <1>2 DEF Omissions, Omitted
<1>4. last + 1 \in om2
  BY <1>1 DEF Omissions, Omitted
<1>5. Sound(q, seen, om) /\ Whole(q, seen, last, om)
  BY DEF LaneSound
<1> HIDE DEF om, om2, q, last, seen
<1>6. Sound(q, seen, om2) /\ Whole(q, seen, last, om2)
  BY <1>3, <1>5, MoreOmissions
<1>7. Bounded(q, seen, last + 1)
  BY <1>1, <1>6 DEF Whole, Bounded
<1>8. Covers(q, Len(q), seen, last + 1, om2)
  <2>1. \A s \in (seen + 1)..(last + 1) : s = last + 1 \/ s \in (seen + 1)..last
    BY <1>1
  <2> QED
    BY <1>4, <1>6, <2>1 DEF Whole, Covers
<1>9. Whole(q, seen, last + 1, om2)
  BY <1>7, <1>8 DEF Whole
<1> QED
  BY <1>6, <1>9 DEF LaneSound, om2, q, last, seen

(* The client receives the oldest frame.                                   *)
LEMMA DeliverLane ==
  ASSUME TypeOK, TypeOK', NEW c \in Clients, LaneSound(c), Deliver(c)
  PROVE  LaneSound(c)'
<1> DEFINE om == Omissions(c)
           q == wire[c].lane
           r == Tail(q)
           n == Len(r)
           seen == wire[c].seen
           seen2 == wire'[c].seen
<1>1. /\ seen \in Nat /\ q \in Seq(Frames) /\ task[c].lastSent \in Nat
      /\ \A i \in 1..Len(q) : q[i].seq \in Nat
  BY MarkTypes, CursorTypes, LaneTypes
<1>2. seen2 \in Nat
  BY DEF TypeOK, WireType
<1>3. /\ q # << >> /\ wire'[c].lane = r
      /\ seen2 = IF Head(q).kind = "event" THEN Head(q).seq ELSE seen
      /\ wire'[c].omitted = wire[c].omitted
      /\ journal' = journal /\ UNCHANGED <<task, owned, connected>>
  BY DEF Deliver, TypeOK, WireType, actorVars, hubVars
<1>4. Omissions(c)' = om
  BY <1>3, OmissionsKept
<1>5. /\ Sound(q, seen, om)
      /\ Streaming(c) => Whole(q, seen, task[c].lastSent, om)
  BY DEF LaneSound
<1>6. Streaming(c)' <=> Streaming(c)
  BY <1>3 DEF Streaming
<1> HIDE DEF om, q, seen, seen2
<1>7. /\ n \in Nat /\ Len(q) = n + 1 /\ Head(q) = q[1]
      /\ \A i \in 1..n : r[i] = q[i + 1]
  BY <1>1, <1>3
<1> HIDE DEF r, n
<1>8. /\ IsEvent(q[1]) => seen2 = q[1].seq
      /\ ~IsEvent(q[1]) => seen2 = seen
  BY <1>3, <1>7 DEF IsEvent
<1>9. Len(r) = n
  BY DEF n
<1>10. \A i \in 1..(n + 1) : q[i].seq \in Nat
  BY <1>1, <1>7
<1>11. /\ Sound(r, seen2, om)
       /\ \A last \in Nat : Whole(q, seen, last, om) => Whole(r, seen2, last, om)
  BY <1>1, <1>2, <1>5, <1>7, <1>8, <1>9, <1>10, HeadLeaves
<1>12. Streaming(c) => Whole(r, seen2, task[c].lastSent, om)
  BY <1>1, <1>5, <1>11
<1> QED
  BY <1>3, <1>4, <1>6, <1>11, <1>12 DEF LaneSound, seen2

(* The replay task keeps the lane of its client sound. *)
LEMMA LaneTaskStep ==
  ASSUME TypeOK, TypeOK', NEW c \in Clients, CursorInv(c), Marked(c),
         LaneUnused(c), LaneSound(c), TaskStep(c)
  PROVE  LaneUnused(c)' /\ LaneSound(c)'
<1>1. /\ task \in [Clients -> TaskType] /\ wire \in [Clients -> WireType]
      /\ task[c] \in TaskType /\ wire[c] \in WireType /\ journal' = journal
  BY TaskFrame DEF TypeOK
<1>2. task[c].pc \in RunningPcs <=>
        task[c].pc \notin {"done", "registered", "owned"}
  BY <1>1 DEF TaskType, Pcs, RunningPcs, StreamPcs, FinalPcs
<1>3. CASE StageAndSpawn(c)
  <2>1. /\ task[c].pc = "owned" /\ task'[c].pc \in {"replay", "done"}
        /\ task'[c].lastSent = task[c].lastSent
    BY <1>1, <1>3 DEF StageAndSpawn, Finish, TaskType
  <2>2. /\ wire'[c].lane = <<Response(task[c].highWater)>>
        /\ wire'[c].seen = wire[c].seen
    BY <1>1, <1>3 DEF StageAndSpawn, WireType
  <2>3. Response(task[c].highWater).kind \notin {"event", "caught_up"}
    BY DEF Response
  <2>4. wire'[c].seen = task'[c].lastSent
    BY <2>1, <2>2 DEF LaneUnused
  <2>5. LaneSound(c)'
    BY <2>2, <2>3, <2>4, ResetLane
  <2> QED
    BY <2>1, <2>5 DEF LaneUnused
<1>4. CASE StageRefused(c) \/ AttachFailed(c)
  <2>1. task'[c].pc = "done" /\ wire'[c].lane = << >>
    BY <1>1, <1>4 DEF StageRefused, AttachFailed, FatalToConnection, Finish,
       TaskType, WireType
  <2>2. Overloaded.kind \notin {"event", "caught_up"}
    BY DEF Overloaded
  <2>3. ~Streaming(c)'
    BY <2>1 DEF Streaming, RunningPcs, StreamPcs, FinalPcs
  <2>4. LaneSound(c)'
    BY <2>1, <2>2, <2>3, ResetLane
  <2> QED
    BY <2>1, <2>4 DEF LaneUnused
<1>5. CASE Stuck(c) \/ Refused(c)
  <2>1. LagAndDetach(c, 0) \/ LagAndDetach(c, 1)
    BY <1>5 DEF Stuck, Refused
  <2>2. PICK f \in {Overloaded, Lagged(task[c].lastSent)} :
          \/ wire' = [wire EXCEPT ![c].lane = << >>]
          \/ wire' = [wire EXCEPT ![c].lane = <<f>>]
    BY <2>1 DEF LagAndDetach
  <2>3. f.kind \notin {"event", "caught_up"}
    BY DEF Overloaded, Lagged
  <2>4. wire'[c].lane = << >> \/ wire'[c].lane = <<f>>
    BY <1>1, <2>2 DEF WireType
  <2>5. task'[c].pc = "done"
    BY <1>1, <2>1 DEF LagAndDetach, Finish, TaskType
  <2>6. ~Streaming(c)'
    BY <2>5 DEF Streaming, RunningPcs, StreamPcs, FinalPcs
  <2>7. LaneSound(c)'
    BY <2>3, <2>4, <2>6, ResetLane
  <2> QED
    BY <2>5, <2>7 DEF LaneUnused
<1>6. CASE ReplaySkip(c) \/ ReplayEvent(c)
  <2>1. /\ task[c].pc \in {"page", "final_page"} /\ AdvanceInPage(c)
        /\ c \in owned
    BY <1>6 DEF ReplaySkip, ReplayEvent, Admits
  <2>2. /\ task'[c].lastSent = task[c].lastSent + 1
        /\ task'[c].pc \in {"page", "replay", "final_page", "final_replay"}
    BY <1>1, <2>1 DEF AdvanceInPage, TaskType
  <2>3. LaneUnused(c)'
    BY <2>2 DEF LaneUnused
  <2>4. CASE ReplaySkip(c)
    <3>1. /\ wire'[c].omitted = task[c].lastSent + 1
          /\ wire'[c].lane = wire[c].lane /\ wire'[c].seen = wire[c].seen
          /\ connected' = connected
          /\ journal[task[c].lastSent + 1] = "delta"
      BY <1>1, <2>4 DEF ReplaySkip, SkipsDelta, WireType, hubVars
    <3>2. CASE Streaming(c)
      BY <1>1, <2>2, <2>3, <3>1, <3>2, SkipLane
    <3>3. CASE ~Streaming(c)
      <4>1. ~Streaming(c)'
        BY <1>2, <2>1, <3>1, <3>3 DEF Streaming
      <4>2. task[c].lastSent \in Nat /\ wire[c].omitted \in Nat
            /\ wire[c].omitted <= task[c].lastSent
        BY <2>1, MarkTypes, CursorTypes DEF Marked
      <4>3. Omissions(c) \subseteq Omissions(c)'
        BY <1>1, <3>1, <4>2 DEF Omissions, Omitted
      <4> QED
        BY <2>3, <3>1, <4>1, <4>3, SameLane
    <3> QED
      BY <2>3, <3>2, <3>3
  <2>5. CASE ReplayEvent(c)
    <3>1. /\ wire'[c].lane = Append(wire[c].lane, Event(task[c].lastSent + 1))
          /\ wire'[c].seen = wire[c].seen /\ wire'[c].omitted = wire[c].omitted
      BY <1>1, <2>5 DEF ReplayEvent, WireType
    <3>2. Streaming(c)
      BY <1>2, <2>1, <2>5 DEF ReplayEvent, Admits, Streaming
    <3>3. LaneSound(c)'
      BY <1>1, <2>2, <3>1, <3>2, EventLane
    <3> QED
      BY <2>3, <3>3
  <2> QED
    BY <1>6, <2>4, <2>5
<1>7. CASE ChannelEvent(c)
  <2>1. /\ task[c].pc \in {"buffered_deliver", "live_deliver"}
        /\ task'[c].pc \in {"buffered", "live"}
        /\ task'[c].lastSent = task[c].pending
    BY <1>1, <1>7 DEF ChannelEvent, TaskType
  <2>2. task[c].pending = task[c].lastSent + 1
    BY <2>1 DEF CursorInv, DeliverPcs
  <2>3. /\ wire'[c].lane = Append(wire[c].lane, Event(task[c].pending))
        /\ wire'[c].seen = wire[c].seen /\ wire'[c].omitted = wire[c].omitted
    BY <1>1, <1>7 DEF ChannelEvent, WireType
  <2>4. Streaming(c)
    BY <1>2, <1>7, <2>1 DEF ChannelEvent, Admits, Streaming
  <2>5. LaneSound(c)'
    BY <1>1, <2>1, <2>2, <2>3, <2>4, EventLane
  <2> QED
    BY <2>1, <2>5 DEF LaneUnused
<1>8. CASE ReplayCaughtUp(c) \/ FinalCaughtUp(c)
  <2>1. /\ task[c].pc \in {"replay", "final_replay"} /\ Announce(c)
        /\ task[c].lastSent >= task[c].highWater
    BY <1>8 DEF ReplayCaughtUp, FinalCaughtUp, Announce, Offering
  <2>2. /\ wire'[c].lane = Append(wire[c].lane, CaughtUp(task[c].highWater))
        /\ wire'[c].seen = wire[c].seen /\ wire'[c].omitted = wire[c].omitted
    BY <1>1, <2>1 DEF Announce, WireType
  <2>3. /\ task'[c].lastSent = task[c].lastSent
        /\ task'[c].pc \in {"buffered", "done"}
    BY <1>1, <1>8 DEF ReplayCaughtUp, FinalCaughtUp, FinishFinal, Finish,
       TaskType
  <2>4. Streaming(c)
    BY <1>2, <2>1 DEF Announce, Admits, Streaming
  <2>5. LaneSound(c)'
    BY <1>1, <2>1, <2>2, <2>3, <2>4, MarkLane
  <2> QED
    BY <2>3, <2>5 DEF LaneUnused
<1> DEFINE Quiet ==
      /\ UNCHANGED wire
      /\ task'[c].lastSent = task[c].lastSent
      /\ task'[c].pc \in RunningPcs => task[c].pc \in RunningPcs
      /\ task'[c].pc \in {"registered", "owned"} =>
           task[c].pc \in {"registered", "owned"}
      /\ connected' = connected
      /\ task'[c].pc \in RunningPcs => (c \in owned' => c \in owned)
<1>9. ASSUME Quiet
      PROVE  LaneUnused(c)' /\ LaneSound(c)'
  <2>1. Streaming(c)' => Streaming(c)
    BY <1>9 DEF Streaming
  <2>2. Omissions(c)' = Omissions(c)
    BY <1>1, <1>9, OmissionsKept
  <2> QED
    BY <1>9, <2>1, <2>2, SameLane DEF LaneUnused
<1> USE DEF TaskType, hubVars, RunningPcs, StreamPcs, FinalPcs
<1>10. CASE InsertOwner(c) \/ Busy(c)
  BY <1>1, <1>9, <1>10 DEF InsertOwner, Busy
<1>11. CASE ReadPage(c)
  BY <1>1, <1>9, <1>11 DEF ReadPage, ReplayBehind
<1>12. CASE ReplayLagged(c) \/ ReplayReadFailed(c)
  BY <1>1, <1>9, <1>12 DEF ReplayLagged, ReplayReadFailed, Finish
<1>13. CASE Receive(c)
  BY <1>1, <1>9, <1>13 DEF Receive
<1>14. CASE GoLive(c) \/ LiveLagged(c) \/ ChannelClosed(c)
  BY <1>1, <1>9, <1>14 DEF GoLive, LiveLagged, ChannelClosed, Drained, Finish
<1>15. CASE Reregister(c) \/ ReregisterRefused(c)
  BY <1>1, <1>9, <1>15 DEF Reregister, ReregisterRefused
<1>16. CASE FinalHead(c)
  BY <1>1, <1>9, <1>16 DEF FinalHead, FinishFinal, Finish
<1>17. CASE FinalSuffixFailed(c) \/ Cancelled(c)
  BY <1>1, <1>9, <1>17 DEF FinalSuffixFailed, Cancelled, Finish
<1> QED
  BY <1>3, <1>4, <1>5, <1>6, <1>7, <1>8, <1>10, <1>11, <1>12, <1>13, <1>14,
     <1>15, <1>16, <1>17
  DEF TaskStep

(* So do the attach, the detach and the client's reads. *)
LEMMA LaneClientStep ==
  ASSUME TypeOK, TypeOK', NEW c \in Clients, LaneUnused(c), LaneSound(c),
         ClientStep(c)
  PROVE  LaneUnused(c)' /\ LaneSound(c)'
<1>1. /\ wire \in [Clients -> WireType] /\ wire[c] \in WireType
      /\ task[c] \in TaskType /\ journal' = journal
  BY ClientFrame DEF TypeOK
<1>2. Overloaded.kind \notin {"event", "caught_up"}
  BY DEF Overloaded
<1>3. CASE \E after \in 0..head, sealed \in BOOLEAN : Register(c, after, sealed)
  <2>1. PICK after \in 0..head, sealed \in BOOLEAN : Register(c, after, sealed)
    BY <1>3
  <2>2. task'[c].pc = "registered" /\ task'[c].lastSent = after
    BY <2>1 DEF Register, NoTask, TypeOK
  <2>3. wire'[c].lane = << >> /\ wire'[c].seen = after
    BY <2>1 DEF Register, NoWire, TypeOK
  <2>4. LaneSound(c)'
    BY <1>2, <2>2, <2>3, ResetLane
  <2> QED
    BY <2>2, <2>3, <2>4 DEF LaneUnused
<1>4. CASE Deliver(c)
  <2>1. LaneSound(c)'
    BY <1>4, DeliverLane
  <2>2. wire[c].lane # << >> /\ UNCHANGED task
    BY <1>4 DEF Deliver
  <2> QED
    BY <2>1, <2>2 DEF LaneUnused
<1>5. CASE ClientDetach(c) \/ Disconnect(c)
  <2>1. /\ wire'[c].lane = << >> /\ wire'[c].seen = wire[c].seen
        /\ UNCHANGED task
    BY <1>1, <1>5 DEF ClientDetach, Disconnect, WireType
  <2>2. c \notin owned' \/ c \notin connected'
    BY <1>5 DEF ClientDetach, Disconnect, Disown
  <2>3. LaneSound(c)'
    BY <1>2, <2>1, <2>2, ResetLane DEF Streaming
  <2> QED
    BY <2>1, <2>3 DEF LaneUnused
<1>6. CASE CloseConnection(c) \/ Reconnect(c)
  <2>1. UNCHANGED <<task, wire>>
    BY <1>6 DEF CloseConnection, Reconnect
  <2>2. Omissions(c)' = Omissions(c)
    BY <1>1, <2>1, OmissionsKept
  <2>3. ~Streaming(c)'
    BY <1>6, <2>1 DEF CloseConnection, Reconnect, Disown, Streaming, RunningPcs,
       StreamPcs, FinalPcs
  <2> QED
    BY <2>1, <2>2, <2>3, SameLane DEF LaneUnused
<1> QED
  BY <1>3, <1>4, <1>5, <1>6 DEF ClientStep

(* Every step keeps the lane invariant. *)
LEMMA LaneStep ==
  ASSUME TypeOK, TypeOK', StreamInv, MarkInv, LaneInv, [Next]_vars
  PROVE  LaneInv'
<1>1. ASSUME UNCHANGED <<task, wire>>,
             \A c \in Clients : Omissions(c) \subseteq Omissions(c)',
             \A c \in Clients : Streaming(c)' => Streaming(c)
      PROVE  LaneInv'
  BY <1>1, SameLane DEF LaneInv, LaneUnused
<1>2. ASSUME UNCHANGED <<task, wire, owned, connected, journal>>
      PROVE  LaneInv'
  <2>1. \A c \in Clients : Omissions(c)' = Omissions(c)
    BY <1>2, OmissionsKept
  <2>2. \A c \in Clients : Streaming(c)' <=> Streaming(c)
    BY <1>2 DEF Streaming
  <2> QED
    BY <1>1, <1>2, <2>1, <2>2
<1>3. CASE UNCHANGED vars
  BY <1>2, <1>3 DEF vars, actorVars, hubVars
<1>4. ASSUME NEW c \in Clients, TaskStep(c) \/ ClientStep(c)
      PROVE  LaneInv'
  <2>1. LaneUnused(c)' /\ LaneSound(c)'
    BY <1>4, LaneTaskStep, LaneClientStep DEF LaneInv, StreamInv, MarkInv
  <2>2. journal' = journal /\ \A d \in Clients \ {c} : SameClient(d)
    BY <1>4, TaskFrame, ClientFrame
  <2>3. ASSUME NEW d \in Clients \ {c}
        PROVE  LaneUnused(d)' /\ LaneSound(d)'
    <3>1. SameClient(d)
      BY <2>2
    <3>2. Omissions(d)' = Omissions(d)
      BY <2>2, <3>1, OmissionsKept DEF SameClient
    <3>3. Streaming(d)' <=> Streaming(d)
      BY <3>1 DEF SameClient, Streaming
    <3> QED
      BY <3>1, <3>2, <3>3, SameLane DEF SameClient, LaneInv, LaneUnused
  <2> QED
    BY <2>1, <2>3 DEF LaneInv
<1>5. ASSUME NEW n \in 1..MaxBatch, NEW kinds \in [1..n -> Kinds],
             NEW w \in Weights, CommitBatch(kinds, w)
      PROVE  LaneInv'
  <2>1. kinds \in Seq(Kinds) /\ journal \in Seq(Kinds)
    BY PipeAssumption DEF TypeOK
  <2>2. /\ journal' = journal \o kinds
        /\ UNCHANGED <<task, wire, owned, connected>>
    BY <1>5 DEF CommitBatch, hubVars
  <2>3. Len(journal) \in Nat
        /\ \A s \in 1..Len(journal) : (journal \o kinds)[s] = journal[s]
    BY <2>1
  <2>4. ASSUME NEW c \in Clients
        PROVE  Omissions(c) \subseteq Omissions(c)'
    <3>1. wire[c].omitted \in Nat /\ wire[c].omitted <= Len(journal)
      BY MarkTypes DEF MarkInv, Marked
    <3>2. \A s \in Nat \ {0} : s <= wire[c].omitted => s \in 1..Len(journal)
      BY <2>3, <3>1
    <3> QED
      BY <2>2, <2>3, <3>2 DEF Omissions, Omitted
  <2>5. \A c \in Clients : Streaming(c)' <=> Streaming(c)
    BY <2>2 DEF Streaming
  <2> QED
    BY <1>1, <2>2, <2>4, <2>5
<1>6. CASE Publish \/ (\E c \in Clients : ActorDetach(c))
           \/ BeginDraining \/ StopActor
  BY <1>2, <1>6 DEF Publish, ActorDetach, BeginDraining, StopActor, actorVars,
     hubVars
<1>7. CASE JoinReplays
  <2>1. UNCHANGED <<task, wire, journal>> /\ owned' = {}
    BY <1>7 DEF JoinReplays, actorVars
  <2>2. \A c \in Clients : Omissions(c)' = Omissions(c) /\ ~Streaming(c)'
    BY <2>1, OmissionsKept DEF Streaming
  <2> QED
    BY <1>1, <2>1, <2>2
<1>8. CASE ForceStop
  <2>1. UNCHANGED <<wire, journal>> /\ owned' = {}
    BY <1>8 DEF ForceStop
  <2>2. \A c \in Clients : task[c] \in TaskType
    BY DEF TypeOK
  <2>3. \A c \in Clients : task'[c].pc = "done"
    BY <1>8, <2>2 DEF ForceStop, TaskType
  <2>4. \A c \in Clients : Omissions(c)' = Omissions(c) /\ ~Streaming(c)'
    BY <2>1, OmissionsKept DEF Streaming
  <2> QED
    BY <2>1, <2>3, <2>4, SameLane DEF LaneInv, LaneUnused
<1>9. CASE Restart
  <2>1. /\ owned' = {}
        /\ \A c \in Clients : task'[c].pc = "done" /\ wire'[c].lane = << >>
    BY <1>9 DEF Restart, NoTask, TypeOK, WireType
  <2>2. Overloaded.kind \notin {"event", "caught_up"}
    BY DEF Overloaded
  <2>3. \A c \in Clients : LaneSound(c)'
    BY <2>1, <2>2, ResetLane DEF Streaming
  <2> QED
    BY <2>1, <2>3 DEF LaneInv, LaneUnused
<1> QED
  BY <1>3, <1>4, <1>5, <1>6, <1>7, <1>8, <1>9 DEF Next, HubStep, ActorStep

(* The lane invariant holds throughout. *)
LEMMA LaneInvariant == Spec => [](TypeOK /\ LaneInv)
<1>1. ASSUME Init PROVE LaneInv
  <2>1. ASSUME NEW c \in Clients
        PROVE  LaneUnused(c) /\ LaneSound(c)
    <3>1. /\ task[c].pc = "done" /\ wire[c].lane = << >> /\ wire[c].seen = 0
          /\ owned = {}
      BY <1>1 DEF Init, NoTask, NoWire
    <3>2. Overloaded.kind \notin {"event", "caught_up"}
      BY DEF Overloaded
    <3>3. Sound(wire[c].lane, wire[c].seen, Omissions(c))
      BY <3>1, <3>2, ShortLane
    <3> QED
      BY <3>1, <3>3 DEF LaneUnused, LaneSound, Streaming
  <2> QED
    BY <2>1 DEF LaneInv
<1>2. /\ TypeOK /\ TypeOK' /\ StreamInv /\ MarkInv /\ LaneInv /\ [Next]_vars
      => LaneInv'
  BY LaneStep
<1> QED
  BY <1>1, <1>2, MarkInvariant, PTL DEF Spec

(* What the outbox lane holds for a streaming client is exactly what it    *)
(* lacks, in order and once: deliver_prepared_frame never skips, repeats   *)
(* or reorders an envelope, across replay, catch-up, lag and final suffix. *)
THEOREM LanesAreContiguous == Spec => []StreamContiguous
<1>1. TypeOK /\ LaneInv => StreamContiguous
  <2>1. SUFFICES ASSUME TypeOK, LaneInv, NEW c \in Clients, Streaming(c)
                 PROVE  StreamContiguous!(c)!2
    BY DEF StreamContiguous
  <2>2. /\ Ordered(wire[c].lane, wire[c].seen)
        /\ Bounded(wire[c].lane, wire[c].seen, task[c].lastSent)
        /\ Covers(wire[c].lane, Len(wire[c].lane), wire[c].seen,
                  task[c].lastSent, Omissions(c))
    BY <2>1 DEF LaneInv, LaneSound, Sound, Whole
  <2>3. /\ wire[c].seen \in Nat /\ task[c].lastSent \in Nat
        /\ \A i \in 1..Len(wire[c].lane) : wire[c].lane[i].seq \in Nat
    BY <2>1, MarkTypes, CursorTypes, LaneTypes
  <2>4. \A s \in (wire[c].seen + 1)..task[c].lastSent :
           InLane(c, s, Len(wire[c].lane)) \/ Omitted(c, s)
    BY <2>2 DEF Covers, Has, InLane, Omissions
  <2>5. \A i \in 1..Len(wire[c].lane) : wire[c].lane[i].kind = "event" =>
          wire[c].lane[i].seq \in (wire[c].seen + 1)..task[c].lastSent
    BY <2>2, <2>3 DEF Ordered, Bounded, IsEvent
  <2>6. \A i, j \in 1..Len(wire[c].lane) :
          /\ wire[c].lane[i].kind = "event" /\ wire[c].lane[j].kind = "event"
          /\ i < j
          => wire[c].lane[i].seq < wire[c].lane[j].seq
    BY <2>2 DEF Ordered, IsEvent
  <2> QED
    BY <2>4, <2>5, <2>6
<1> QED
  BY <1>1, LaneInvariant, PTL

(* AttachCaughtUp(h) is never ahead of an envelope up to h that its client *)
(* still lacks, whoever announced it and whatever was purged or lagged.    *)
THEOREM MarkersAreComplete == Spec => []CaughtUpIsComplete
<1>1. LaneInv => CaughtUpIsComplete
  BY DEF LaneInv, LaneSound, Sound, Markers, Covers, Has, InLane, Omissions,
     CaughtUpIsComplete
<1> QED
  BY <1>1, LaneInvariant, PTL

-----------------------------------------------------------------------------
(* The byte ledger of the catch-up channel. *)

Entries == [seq : Nat, weight : Nat]

WeightsOf(q) == [i \in 1..Len(q) |-> q[i].weight]

(* The bytes reserved in a channel are the sum of its weights. *)
LEMMA ReservedIsLoad ==
  ASSUME NEW q \in Seq(Entries)
  PROVE  /\ WeightsOf(q) \in Seq(Nat) /\ Len(WeightsOf(q)) = Len(q)
         /\ Cardinality(ReservedBytes(q)) = Load(WeightsOf(q))
         /\ Cardinality(ReservedBytes(q)) \in Nat
<1>1. DOMAIN q = 1..Len(q) /\ Len(q) \in Nat /\ \A i \in 1..Len(q) : q[i] \in Entries
  OBVIOUS
<1>2. WeightsOf(q) \in [1..Len(q) -> Nat]
  BY <1>1 DEF WeightsOf, Entries
<1>3. WeightsOf(q) \in Seq(Nat) /\ Len(WeightsOf(q)) = Len(q)
  BY <1>1, <1>2, FunctionSequence
<1> DEFINE F == [i \in DOMAIN WeightsOf(q) |-> 1..WeightsOf(q)[i]]
<1>4. DOMAIN F = DOMAIN q /\ \A i \in DOMAIN q : F[i] = 1..q[i].weight
  BY <1>1 DEF WeightsOf
<1> HIDE DEF F
<1>5. \A e : e \in Tagged(F) <=> \E i \in DOMAIN q : e \in {i} \X (1..q[i].weight)
  BY <1>4, TaggedMembers
<1>6. \A e : e \in ReservedBytes(q) <=> \E i \in DOMAIN q : e \in {i} \X (1..q[i].weight)
  BY DEF ReservedBytes
<1>7. ReservedBytes(q) = Tagged(F)
  BY <1>5, <1>6
<1>8. Cardinality(ReservedBytes(q)) = Load(WeightsOf(q))
  BY <1>7 DEF Load, Cells, F
<1> QED
  BY <1>3, <1>8, LoadType

(* What is taken from the channel is no longer reserved. *)
LEMMA ReservedTail ==
  ASSUME NEW q \in Seq(Entries), q # <<>>
  PROVE  /\ Tail(q) \in Seq(Entries) /\ Len(Tail(q)) <= Len(q)
         /\ Head(q).weight \in Nat
         /\ Cardinality(ReservedBytes(q)) =
              Cardinality(ReservedBytes(Tail(q))) + Head(q).weight
<1> DEFINE t == Tail(q)
           w == WeightsOf(q)
           r == WeightsOf(t)
<1>1. /\ t \in Seq(Entries) /\ Len(t) = Len(q) - 1 /\ Len(q) \in Nat
      /\ \A j \in 1..Len(t) : t[j] = q[j + 1]
      /\ 1 \in 1..Len(q) /\ Head(q) = q[1] /\ q[1] \in Entries
  OBVIOUS
<1> HIDE DEF t
<1>2. /\ w \in Seq(Nat) /\ Len(w) = Len(q) /\ Cardinality(ReservedBytes(q)) = Load(w)
      /\ r \in Seq(Nat) /\ Len(r) = Len(t) /\ Cardinality(ReservedBytes(t)) = Load(r)
  BY <1>1, ReservedIsLoad
<1>3. /\ \A j \in 1..Len(q) : w[j] = q[j].weight
      /\ \A j \in 1..Len(t) : r[j] = t[j].weight
  BY DEF WeightsOf
<1> HIDE DEF w, r
<1>4. ASSUME NEW j \in 1..Len(r)
      PROVE  r[j] = IF j < 1 THEN w[j] ELSE w[j + 1]
  <2>1. j \in 1..Len(t) /\ j + 1 \in 1..Len(q) /\ ~(j < 1)
    BY <1>1, <1>2
  <2>2. r[j] = t[j].weight /\ w[j + 1] = q[j + 1].weight /\ t[j] = q[j + 1]
    BY <1>1, <1>3, <2>1
  <2> QED
    BY <2>1, <2>2
<1>5. 1 \in 1..Len(w) /\ Len(r) = Len(w) - 1
  BY <1>1, <1>2
<1>6. Load(w) = Load(r) + w[1]
  BY <1>2, <1>4, <1>5, LoadRemove
<1> QED
  BY <1>1, <1>2, <1>3, <1>6 DEF t, Entries

(* A batch reserves its weight once, with the last entry that fits. *)
LEMMA ReservedFed ==
  ASSUME TypeOK, HeadInv, NEW c \in Clients, Mapped(c)
  PROVE  Cardinality(ReservedBytes(Fed(c).queue)) =
           Cardinality(ReservedBytes(chan[c].queue))
             + (IF Accepted(c) > 0 THEN batchWeight ELSE 0)
<1> DEFINE q == chan[c].queue
           n == Accepted(c)
           f == Fed(c).queue
           w == WeightsOf(q)
           v == WeightsOf(f)
           L == Len(q)
<1>1. /\ q \in Seq(Entries) /\ L \in Nat /\ batchWeight \in Nat
      /\ f \in Seq(Entries)
  BY FedType DEF TypeOK, ChanType, Entries
<1>2. /\ n \in Nat /\ Len(f) = L + n
      /\ \A i \in 1..L : f[i] = q[i]
  BY FedShape
<1>3. \A i \in 1..n : f[L + i].weight = IF i = n THEN batchWeight ELSE 0
  <2> DEFINE b == Queued(n)
  <2>1. /\ b \in [1..n -> Entries]
        /\ \A i \in 1..n : b[i].weight = IF i = n THEN batchWeight ELSE 0
    BY <1>1, <1>2 DEF Queued, Entries, TypeOK
  <2>2. b \in Seq(Entries) /\ Len(b) = n
    BY <1>2, <2>1, FunctionSequence
  <2>3. f = q \o b
    BY DEF Fed
  <2> HIDE DEF b, q, f, n
  <2>4. \A i \in 1..Len(b) : (q \o b)[Len(q) + i] = b[i]
    BY <1>1, <2>2
  <2>5. ASSUME NEW i \in 1..n
        PROVE  f[L + i].weight = IF i = n THEN batchWeight ELSE 0
    BY <2>1, <2>2, <2>3, <2>4
  <2> QED
    BY <2>5
<1>4. /\ w \in Seq(Nat) /\ Len(w) = L /\ Cardinality(ReservedBytes(q)) = Load(w)
      /\ v \in Seq(Nat) /\ Len(v) = L + n /\ Cardinality(ReservedBytes(f)) = Load(v)
  BY <1>1, <1>2, ReservedIsLoad
<1>5. /\ \A j \in 1..L : w[j] = q[j].weight
      /\ \A j \in 1..Len(f) : v[j] = f[j].weight
  BY DEF WeightsOf
<1> HIDE DEF q, n, f, w, v, L
<1>6. /\ \A j \in 1..L : v[j] = w[j]
      /\ \A j \in 1..(L + n) : ~(j <= L) => v[j] = IF j = L + n THEN batchWeight ELSE 0
  <2>1. ASSUME NEW j \in 1..(L + n), ~(j <= L)
        PROVE  v[j] = IF j = L + n THEN batchWeight ELSE 0
    <3>1. j - L \in 1..n /\ L + (j - L) = j /\ (j - L = n <=> j = L + n)
      BY <1>1, <1>2, <2>1
    <3>2. v[j] = f[j].weight
      BY <1>2, <1>5, <2>1
    <3> QED
      BY <1>3, <3>1, <3>2
  <2>2. ASSUME NEW j \in 1..L
        PROVE  v[j] = w[j]
    <3>1. j \in 1..Len(f)
      BY <1>1, <1>2
    <3> QED
      BY <1>2, <1>5, <3>1
  <2> QED
    BY <2>1, <2>2
<1>7. CASE n = 0
  <2>1. \A j \in 1..Len(v) : v[j] = IF j <= Len(w) THEN w[j] ELSE 0
    BY <1>1, <1>4, <1>6, <1>7
  <2>2. Load(v) = Load(w)
    BY <1>1, <1>4, <1>7, <2>1, LoadPadded
  <2> QED
    BY <1>4, <1>7, <2>2, ReservedIsLoad, <1>1 DEF q, n, f
<1>8. CASE n > 0
  <2> DEFINE u == [j \in 1..(L + n - 1) |-> v[j]]
  <2>0. L + n - 1 \in Nat /\ L + n \in 1..(L + n) /\ \A j \in 1..(L + n - 1) : j \in 1..(L + n)
    BY <1>1, <1>2, <1>8
  <2>1. u \in [1..(L + n - 1) -> Nat]
    BY <1>4, <2>0
  <2>2. u \in Seq(Nat) /\ Len(u) = L + n - 1
    BY <2>0, <2>1, FunctionSequence
  <2>3. \A j \in 1..(L + n - 1) : u[j] = v[j]
    OBVIOUS
  <2> HIDE DEF u
  <2>4. \A j \in 1..Len(u) : u[j] = IF j < L + n THEN v[j] ELSE v[j + 1]
    BY <1>1, <1>2, <2>2, <2>3
  <2>5. Load(v) = Load(u) + v[L + n]
    <3>1. L + n \in 1..Len(v) /\ Len(u) = Len(v) - 1
      BY <1>1, <1>2, <1>4, <1>8, <2>2
    <3> QED
      BY <1>4, <2>2, <2>4, <3>1, LoadRemove
  <2>6. v[L + n] = batchWeight
    BY <1>1, <1>2, <1>6, <1>8, <2>0
  <2>7. \A j \in 1..Len(u) : u[j] = IF j <= Len(w) THEN w[j] ELSE 0
    BY <1>1, <1>2, <1>4, <1>6, <2>0, <2>2, <2>3
  <2>8. Load(u) = Load(w)
    <3>1. Len(u) >= Len(w)
      BY <1>1, <1>2, <1>4, <1>8, <2>2
    <3> QED
      BY <1>4, <2>2, <2>7, <3>1, LoadPadded
  <2> QED
    BY <1>4, <1>8, <2>5, <2>6, <2>8 DEF q, n, f
<1> QED
  BY <1>2, <1>7, <1>8

Balanced(c) == chan[c].bytes = Cardinality(ReservedBytes(chan[c].queue))
               /\ chan[c].bytes <= ByteBudget

(* A publication charges exactly what it queues, within the budget, *)
LEMMA LedgerPublish ==
  ASSUME TypeOK, HeadInv, MapInv, NEW c \in Clients, Balanced(c), Publish
  PROVE  Balanced(c)'
<1>1. chan'[c] = PublishedChan(c)
  BY DEF Publish
<1>2. CASE chan'[c] = chan[c]
  BY <1>2 DEF Balanced
<1>3. CASE chan'[c] = Fed(c)
  <2>1. /\ Fed(c).bytes = chan[c].bytes + (IF Accepted(c) > 0 THEN batchWeight ELSE 0)
        /\ Accepted(c) > 0 => chan[c].bytes + batchWeight <= ByteBudget
    <3>1. Fed(c).bytes = chan[c].bytes + (IF Accepted(c) > 0 THEN batchWeight ELSE 0)
      BY DEF Fed
    <3>2. chan[c].bytes \in Nat /\ batchWeight \in Nat /\ ByteBudget \in Nat
      BY PipeAssumption DEF TypeOK, ChanType
    <3>3. ~(chan[c].bytes + batchWeight > ByteBudget) \/ Accepted(c) = 0
      BY DEF Accepted
    <3> QED
      BY <3>1, <3>2, <3>3
  <2>2. Cardinality(ReservedBytes(Fed(c).queue)) =
          Cardinality(ReservedBytes(chan[c].queue))
             + (IF Accepted(c) > 0 THEN batchWeight ELSE 0)
    BY ReservedFed DEF MapInv
  <2>3. chan[c].bytes \in Nat /\ batchWeight \in Nat /\ ByteBudget \in Nat
    BY PipeAssumption DEF TypeOK, ChanType
  <2>4. Fed(c).bytes <= ByteBudget
    BY <2>1, <2>3 DEF Balanced
  <2> QED
    BY <1>3, <2>1, <2>2, <2>4 DEF Balanced
<1> QED
  BY <1>1, <1>2, <1>3 DEF PublishedChan

(* a receive refunds exactly what it takes, *)
LEMMA LedgerReceive ==
  ASSUME TypeOK, NEW c \in Clients, Balanced(c), Receive(c)
  PROVE  Balanced(c)'
<1> DEFINE q == chan[c].queue
<1>1. /\ q \in Seq(Entries) /\ q # <<>> /\ chan[c].bytes \in Nat
      /\ chan'[c].queue = Tail(q) /\ chan'[c].bytes = Credit(chan[c].bytes, Head(q).weight)
  BY DEF Receive, TypeOK, ChanType, Entries
<1> HIDE DEF q
<1>2. /\ Tail(q) \in Seq(Entries) /\ Head(q).weight \in Nat
      /\ Cardinality(ReservedBytes(q)) =
           Cardinality(ReservedBytes(Tail(q))) + Head(q).weight
  BY <1>1, ReservedTail
<1>3. Cardinality(ReservedBytes(Tail(q))) \in Nat /\ ByteBudget \in Nat
  BY <1>2, ReservedIsLoad, PipeAssumption
<1>4. chan[c].bytes = Cardinality(ReservedBytes(q)) /\ chan[c].bytes <= ByteBudget
  BY DEF Balanced, q
<1> DEFINE k == Cardinality(ReservedBytes(Tail(q)))
           w == Head(q).weight
           b == chan[c].bytes
<1>5. k \in Nat /\ w \in Nat /\ b = k + w /\ b <= ByteBudget /\ b \in Nat
  BY <1>1, <1>2, <1>3, <1>4
<1>6. chan'[c].bytes = IF b < w THEN 0 ELSE b - w
  BY <1>1 DEF Credit
<1>7. Cardinality(ReservedBytes(chan'[c].queue)) = k
  BY <1>1
<1> HIDE DEF k, w, b
<1>8. chan'[c].bytes = k /\ k <= ByteBudget
  BY <1>3, <1>5, <1>6
<1> QED
  BY <1>7, <1>8 DEF Balanced

(* an empty channel reserves nothing, *)
LEMMA NothingReserved == Cardinality(ReservedBytes(<<>>)) = 0
<1>1. ReservedBytes(<<>>) = {}
  BY DEF ReservedBytes
<1> QED
  BY <1>1, FS_EmptySet

(* so a fresh one is balanced. *)
LEMMA LedgerFresh ==
  ASSUME NEW c \in Clients, chan[c] = NoChan
  PROVE  Balanced(c)
<1>1. chan[c].queue = <<>> /\ chan[c].bytes = 0
  BY DEF NoChan
<1>2. Cardinality(ReservedBytes(<<>>)) = 0 /\ 0 <= ByteBudget
  BY NothingReserved, PipeAssumption
<1> QED
  BY <1>1, <1>2 DEF Balanced

(* No other step of a task touches a channel, *)
LEMMA TaskChannel ==
  ASSUME TypeOK, NEW c \in Clients, TaskStep(c)
  PROVE  chan'[c] = chan[c] \/ chan'[c] = NoChan \/ Receive(c)
<1> USE DEF TypeOK, actorVars, hubVars
<1>1. CASE InsertOwner(c) \/ StageAndSpawn(c) \/ StageRefused(c) \/ AttachFailed(c)
  BY <1>1 DEF InsertOwner, StageAndSpawn, StageRefused, AttachFailed
<1>2. CASE Busy(c) \/ Stuck(c) \/ Refused(c)
  BY <1>2 DEF Busy, Stuck, Refused, LagAndDetach
<1>3. CASE ReadPage(c) \/ ReplayLagged(c) \/ ReplayReadFailed(c)
  BY <1>3 DEF ReadPage, ReplayLagged, ReplayReadFailed
<1>4. CASE ReplaySkip(c) \/ ReplayEvent(c) \/ ReplayCaughtUp(c)
  BY <1>4 DEF ReplaySkip, ReplayEvent, ReplayCaughtUp
<1>5. CASE ChannelEvent(c) \/ GoLive(c) \/ LiveLagged(c) \/ ChannelClosed(c)
  BY <1>5 DEF ChannelEvent, GoLive, LiveLagged, ChannelClosed
<1>6. CASE Reregister(c) \/ ReregisterRefused(c)
  BY <1>6 DEF Reregister, ReregisterRefused
<1>7. CASE FinalHead(c) \/ FinalCaughtUp(c) \/ FinalSuffixFailed(c) \/ Cancelled(c)
  BY <1>7 DEF FinalHead, FinalCaughtUp, FinalSuffixFailed, Cancelled
<1> QED
  BY <1>1, <1>2, <1>3, <1>4, <1>5, <1>6, <1>7 DEF TaskStep

(* nor one of a client, except for its registration. *)
LEMMA ClientChannel ==
  ASSUME TypeOK, NEW c \in Clients, ClientStep(c)
  PROVE  chan'[c] = chan[c] \/ chan'[c] = NoChan
<1> USE DEF TypeOK, actorVars, hubVars
<1>1. CASE \E after \in 0..head, sealed \in BOOLEAN : Register(c, after, sealed)
  BY <1>1 DEF Register
<1>2. CASE Deliver(c) \/ ClientDetach(c) \/ Disconnect(c) \/ CloseConnection(c) \/ Reconnect(c)
  BY <1>2 DEF Deliver, ClientDetach, Disconnect, CloseConnection, Reconnect
<1> QED
  BY <1>1, <1>2 DEF ClientStep

LedgerInv == \A c \in Clients : Balanced(c)

(* Every step keeps the ledgers balanced. *)
LEMMA LedgerStep ==
  ASSUME TypeOK, HeadInv, MapInv, LedgerInv, [Next]_vars
  PROVE  LedgerInv'
<1> SUFFICES ASSUME NEW c \in Clients
             PROVE  Balanced(c)'
  BY DEF LedgerInv
<1>1. Balanced(c)
  BY DEF LedgerInv
<1>2. chan'[c] = chan[c] => Balanced(c)'
  BY <1>1 DEF Balanced
<1>3. chan'[c] = NoChan => Balanced(c)'
  <2> SUFFICES ASSUME chan'[c] = NoChan
               PROVE  Balanced(c)'
    OBVIOUS
  <2>1. chan'[c].queue = <<>> /\ chan'[c].bytes = 0
    BY DEF NoChan
  <2>2. Cardinality(ReservedBytes(<<>>)) = 0 /\ 0 <= ByteBudget
    BY NothingReserved, PipeAssumption
  <2>3. Cardinality(ReservedBytes(chan'[c].queue)) = 0
    BY <2>1, <2>2, Zenon
  <2> QED
    BY <2>1, <2>2, <2>3 DEF Balanced
<1>4. CASE UNCHANGED vars
  BY <1>2, <1>4 DEF vars
<1>5. ASSUME NEW d \in Clients, TaskStep(d) \/ ClientStep(d)
      PROVE  Balanced(c)'
  <2>1. CASE d = c
    BY <1>1, <1>2, <1>3, <1>5, <2>1, TaskChannel, ClientChannel, LedgerReceive
  <2>2. CASE d # c
    <3>1. SameClient(c)
      BY <1>5, <2>2, TaskFrame, ClientFrame
    <3> QED
      BY <1>2, <3>1 DEF SameClient
  <2> QED
    BY <2>1, <2>2
<1>6. CASE HubStep
  <2>1. UNCHANGED chan
    BY <1>6 DEF HubStep, BeginDraining, StopActor, JoinReplays, ForceStop, Restart
  <2> QED
    BY <1>2, <2>1
<1>7. CASE ActorStep
  <2>1. CASE Publish
    BY <1>1, <2>1, LedgerPublish
  <2>2. CASE \E n \in 1..MaxBatch : \E kinds \in [1..n -> Kinds], w \in Weights :
               CommitBatch(kinds, w)
    BY <1>2, <2>2 DEF CommitBatch
  <2>3. CASE \E d \in Clients : ActorDetach(d)
    BY <1>2, <2>3 DEF ActorDetach
  <2> QED
    BY <1>7, <2>1, <2>2, <2>3 DEF ActorStep
<1> QED
  BY <1>4, <1>5, <1>6, <1>7 DEF Next

(* The byte ledger of a catch-up channel is the weight queued in it, and   *)
(* neither of its limits is exceeded: publish_shared_attachments charges a *)
(* batch once however much of it fits, credit_catch_up refunds it with the *)
(* last entry, and the saturation of the refund never hides a difference.  *)
THEOREM LedgersBalance == Spec => []LedgerExact
<1> DEFINE Inv == TypeOK /\ HeadInv /\ MapInv /\ StreamInv
<1>1. Init => LedgerInv
  BY LedgerFresh DEF Init, LedgerInv
<1>2. Inv /\ LedgerInv /\ [Next]_vars => LedgerInv'
  BY LedgerStep
<1>3. MapInv /\ LedgerInv => LedgerExact
  BY DEF LedgerExact, LedgerInv, Balanced, MapInv, Mapped
<1>4. Spec => []Inv
  BY StreamInvariant
<1> QED
  BY <1>1, <1>2, <1>3, <1>4, PTL DEF Spec

=============================================================================
